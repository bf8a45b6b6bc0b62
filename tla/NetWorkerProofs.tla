--------------------------- MODULE NetWorkerProofs ---------------------------
(***************************************************************************)
(* Machine-checked proofs about NetWorker, for any number of requests and  *)
(* any backlog of gateway events.                                          *)
(*                                                                         *)
(* OnePlace and AppliedAtMostOnce are not inductive.  IInv strengthens     *)
(* them with what each place excludes: a request in one place is in no     *)
(* other and has no fate yet, the worker holds a message exactly while it  *)
(* is performing or sleeping on a request, and a request that is still to  *)
(* be made has been refused once if its `retried` flag is set and never    *)
(* made otherwise.                                                         *)
(***************************************************************************)
EXTENDS NetWorker, TLAPS

\* r is an element of s.
In(r, s) == \E i \in DOMAIN s : s[i] = r

\* No request occurs twice in s (a gateway event may).
Once(s) == \A i, j \in DOMAIN s : s[i] = s[j] /\ s[i] # Event => i = j

Nowhere(r) ==
  /\ ~ In(r, messages)
  /\ ~ In(r, gameQueue)
  /\ ~ In(r, local)
  /\ hand # r

\* The worker holds a message exactly while it deals with it.
HandInv == hand # None <=> worker \in {"http", "backoff"}

OnceInv == Once(messages) /\ Once(gameQueue) /\ Once(local)

\* No two places share a request.
ApartInv ==
  \A r \in Requests :
    /\ In(r, messages)  => ~ In(r, gameQueue) /\ ~ In(r, local) /\ hand # r
    /\ In(r, gameQueue) => ~ In(r, local) /\ hand # r
    /\ In(r, local)     => hand # r

\* A request has a place once it is queued, until it has a fate.
PlacedInv ==
  \A r \in Requests :
    /\ r > issued => Nowhere(r) /\ fate[r] = "open"
    /\ r <= issued => (fate[r] # "open" <=> Nowhere(r))

\* What has been tried so far of a request that is still to be made.
AttemptInv ==
  /\ \A r \in Requests :
       r > issued \/ In(r, messages) \/ hand = r =>
         applied[r] = 0 /\ attempts[r] = (IF r \in retried THEN 1 ELSE 0)
  /\ AppliedAtMostOnce

\* The worker does not exist before Initialize; both threads are gone before
\* Shutdown returns.
ThreadInv ==
  /\ game = "boot" => worker = "off"
  /\ game = "down" => worker = "exited" /\ gateway = "joined"

\* A batch lives no longer than the Update that runs it.
BatchInv == game # "drain" => local = <<>>

PlaceInv == HandInv /\ OnceInv /\ ApartInv /\ PlacedInv /\ BatchInv

IInv == TypeOK /\ PlaceInv /\ AttemptInv /\ ThreadInv

-----------------------------------------------------------------------------
(***************************************************************************)
(* Queues: what Append and Tail do to membership and to uniqueness.        *)
(***************************************************************************)

LEMMA AppendIn ==
  ASSUME NEW S, NEW s \in Seq(S), NEW e \in S, NEW r
  PROVE  In(r, Append(s, e)) <=> In(r, s) \/ r = e
<1>1. ASSUME In(r, s) PROVE In(r, Append(s, e))
  <2>1. PICK i \in DOMAIN s : s[i] = r  BY <1>1 DEF In
  <2>2. i \in DOMAIN Append(s, e) /\ Append(s, e)[i] = r  BY <2>1
  <2> QED  BY <2>2 DEF In
<1>2. ASSUME r = e PROVE In(r, Append(s, e))
  <2>1. Len(s) + 1 \in DOMAIN Append(s, e) /\ Append(s, e)[Len(s) + 1] = r
    BY <1>2
  <2> QED  BY <2>1 DEF In
<1>3. ASSUME In(r, Append(s, e)) PROVE In(r, s) \/ r = e
  <2>1. PICK i \in DOMAIN Append(s, e) : Append(s, e)[i] = r  BY <1>3 DEF In
  <2>2. CASE i = Len(s) + 1  BY <2>1, <2>2
  <2>3. CASE i # Len(s) + 1
    <3>1. i \in DOMAIN s /\ s[i] = r  BY <2>1, <2>3
    <3> QED  BY <3>1 DEF In
  <2> QED  BY <2>2, <2>3
<1> QED  BY <1>1, <1>2, <1>3

LEMMA AppendOnce ==
  ASSUME NEW S, NEW s \in Seq(S), NEW e \in S, Once(s),
         e = Event \/ ~ In(e, s)
  PROVE  Once(Append(s, e))
<1> SUFFICES ASSUME NEW i \in DOMAIN Append(s, e), NEW j \in DOMAIN Append(s, e),
                    Append(s, e)[i] = Append(s, e)[j], Append(s, e)[i] # Event
             PROVE  i = j
  BY DEF Once
<1>1. CASE i \in DOMAIN s /\ j \in DOMAIN s  BY <1>1 DEF Once
<1>2. CASE i \in DOMAIN s /\ j \notin DOMAIN s
  <2>1. s[i] = e  BY <1>2
  <2> QED  BY <1>2, <2>1 DEF In
<1>3. CASE i \notin DOMAIN s /\ j \in DOMAIN s
  <2>1. s[j] = e  BY <1>3
  <2> QED  BY <1>3, <2>1 DEF In
<1>4. CASE i \notin DOMAIN s /\ j \notin DOMAIN s  BY <1>4
<1> QED  BY <1>1, <1>2, <1>3, <1>4

\* Taking the head off removes exactly that request.
LEMMA TailIn ==
  ASSUME NEW S, NEW s \in Seq(S), s # <<>>, Once(s), NEW r, r # Event
  PROVE  In(r, Tail(s)) <=> In(r, s) /\ r # Head(s)
<1>1. ASSUME In(r, Tail(s)) PROVE In(r, s) /\ r # Head(s)
  <2>1. PICK i \in DOMAIN Tail(s) : Tail(s)[i] = r  BY <1>1 DEF In
  <2>2. i + 1 \in DOMAIN s /\ s[i + 1] = r /\ i + 1 # 1  BY <2>1
  <2>3. 1 \in DOMAIN s /\ Head(s) = s[1]  OBVIOUS
  <2>4. r # Head(s)  BY <2>2, <2>3 DEF Once
  <2> QED  BY <2>2, <2>4 DEF In
<1>2. ASSUME In(r, s), r # Head(s) PROVE In(r, Tail(s))
  <2>1. PICK i \in DOMAIN s : s[i] = r  BY <1>2 DEF In
  <2>2. i # 1  BY <2>1, <1>2
  <2>3. i - 1 \in DOMAIN Tail(s) /\ Tail(s)[i - 1] = r  BY <2>1, <2>2
  <2> QED  BY <2>3 DEF In
<1> QED  BY <1>1, <1>2

LEMMA TailOnce ==
  ASSUME NEW S, NEW s \in Seq(S), s # <<>>, Once(s)
  PROVE  Once(Tail(s))
<1> SUFFICES ASSUME NEW i \in DOMAIN Tail(s), NEW j \in DOMAIN Tail(s),
                    Tail(s)[i] = Tail(s)[j], Tail(s)[i] # Event
             PROVE  i = j
  BY DEF Once
<1>1. /\ i + 1 \in DOMAIN s /\ s[i + 1] = Tail(s)[i]
      /\ j + 1 \in DOMAIN s /\ s[j + 1] = Tail(s)[j]
  OBVIOUS
<1>2. i + 1 = j + 1  BY <1>1 DEF Once
<1> QED  BY <1>2

LEMMA EmptyQueue ==
  ASSUME NEW r
  PROVE  ~ In(r, <<>>) /\ Once(<<>>)
BY DEF In, Once

-----------------------------------------------------------------------------
(***************************************************************************)
(* Types.                                                                  *)
(***************************************************************************)

\* The initial state satisfies the inductive invariant.
LEMMA InitIInv == Init => IInv
<1> SUFFICES ASSUME Init PROVE IInv
  OBVIOUS
<1> USE DEF Init
<1>1. TypeOK
  <2>1. messages \in Seq(Requests)  OBVIOUS
  <2>2. gameQueue \in Seq({Event} \cup Requests) /\ local \in Seq({Event} \cup Requests)
    OBVIOUS
  <2>3. issued \in 0 .. MaxRequests  BY BoundsAssumption
  <2>4. kind \in [Requests -> Kinds] /\ fate \in [Requests -> Fates]
    BY DEF Kinds, Fates
  <2>5. attempts \in [Requests -> Nat] /\ applied \in [Requests -> Nat]  OBVIOUS
  <2> QED  BY <2>1, <2>2, <2>3, <2>4, <2>5 DEF TypeOK
<1>2. PlaceInv
  BY EmptyQueue
  DEF PlaceInv, HandInv, OnceInv, ApartInv, PlacedInv, BatchInv, Nowhere,
      Requests, None
<1>3. AttemptInv  BY DEF AttemptInv, AppliedAtMostOnce, Requests
<1>4. ThreadInv  BY DEF ThreadInv
<1> QED  BY <1>1, <1>2, <1>3, <1>4 DEF IInv

LEMMA HandIsRequest ==
  ASSUME TypeOK, HandInv, worker \in {"http", "backoff"}
  PROVE  hand \in Requests /\ hand # None
BY DEF TypeOK, HandInv

\* A step of any thread keeps every variable in its range.
LEMMA TypeStep == TypeOK /\ HandInv /\ [Next]_vars => TypeOK'
<1> SUFFICES ASSUME TypeOK, HandInv, [Next]_vars PROVE TypeOK'
  OBVIOUS
<1> USE DEF TypeOK, queueVars, workerVars, gameVars, historyVars
<1>1. CASE Initialize  BY <1>1 DEF Initialize
<1>2. ASSUME NEW k \in Kinds, Queue(k) PROVE TypeOK'
  <2>1. issued' \in Requests
    BY <1>2, BoundsAssumption DEF Queue, Requests
  <2> QED  BY <1>2, <2>1, BoundsAssumption DEF Queue, Push
<1>3. CASE Tick  BY <1>3 DEF Tick
<1>4. CASE RunTask
  <2>1. Head(local) \in {Event} \cup Requests /\ Tail(local) \in Seq({Event} \cup Requests)
    BY <1>4 DEF RunTask
  <2> QED  BY <1>4, <2>1 DEF RunTask, Fates
<1>5. CASE EndTick  BY <1>5 DEF EndTick
<1>6. CASE Shutdown  BY <1>6 DEF Shutdown
<1>7. CASE EndShutdown  BY <1>7 DEF EndShutdown
<1>8. CASE StartGateway  BY <1>8 DEF StartGateway
<1>9. CASE CheckRunning  BY <1>9 DEF CheckRunning
<1>10. CASE PopTimeout  BY <1>10 DEF PopTimeout
<1>11. CASE PopPublish  BY <1>11 DEF PopPublish, Fates
<1>12. CASE PopRequest  BY <1>12 DEF PopRequest
<1>13. CASE RateLimited
  BY <1>13, HandIsRequest DEF RateLimited, Attempt, Fates
<1>14. CASE Requeue
  BY <1>14, HandIsRequest DEF Requeue, Push
<1>15. ASSUME NEW done \in BOOLEAN, Complete(done) PROVE TypeOK'
  <2>1. hand \in Requests  BY <1>15, HandIsRequest DEF Complete
  <2>2. applied' \in [Requests -> Nat] /\ attempts' \in [Requests -> Nat]
    BY <1>15, <2>1, SMTT(20) DEF Complete, Attempt
  <2>3. gameQueue' \in Seq({Event} \cup Requests)
    <3>1. Append(gameQueue, hand) \in Seq({Event} \cup Requests)  BY <2>1
    <3>2. gameQueue' = gameQueue \/ gameQueue' = Append(gameQueue, hand)
      BY <1>15 DEF Complete
    <3> QED  BY <3>1, <3>2
  <2>4. fate' \in [Requests -> Fates]  BY <1>15, <2>1 DEF Complete, Fates
  <2> QED  BY <1>15, <2>2, <2>3, <2>4 DEF Complete
<1>16. CASE GatewayEvent  BY <1>16 DEF GatewayEvent
<1>17. CASE UNCHANGED vars  BY <1>17 DEF vars
<1> QED
  BY <1>1, <1>2, <1>3, <1>4, <1>5, <1>6, <1>7, <1>8, <1>9, <1>10, <1>11,
     <1>12, <1>13, <1>14, <1>15, <1>16, <1>17
  DEF Next, TickStep, WorkerStep

-----------------------------------------------------------------------------
(***************************************************************************)
(* Places.  Only the steps that touch a queue or the worker's hand can     *)
(* disturb PlaceInv.                                                       *)
(***************************************************************************)

placeVars == <<messages, worker, hand, gameQueue, local, game, issued, fate>>

LEMMA PlaceStutter == PlaceInv /\ UNCHANGED placeVars => PlaceInv'
BY DEF placeVars, PlaceInv, HandInv, OnceInv, ApartInv, PlacedInv,
       BatchInv, Nowhere, In, Once

LEMMA PlaceQueue ==
  ASSUME TypeOK, PlaceInv, NEW k \in Kinds, Queue(k)
  PROVE  PlaceInv'
<1> DEFINE q == issued + 1
<1>1. /\ q \in Requests /\ q > issued /\ issued' = q
      /\ messages' = Append(messages, q)
  BY BoundsAssumption DEF TypeOK, Queue, Push, Requests
<1>2. UNCHANGED <<worker, hand, gameQueue, local, fate>>
  BY DEF Queue, workerVars, gameVars
<1>3. Nowhere(q) /\ fate[q] = "open"  BY <1>1 DEF PlaceInv, PlacedInv
<1>4. \A r : In(r, messages') <=> In(r, messages) \/ r = q
  BY <1>1, AppendIn DEF TypeOK
<1>5. OnceInv'
  <2>1. Once(messages')
    BY <1>1, <1>3, AppendOnce DEF TypeOK, PlaceInv, OnceInv, Nowhere
  <2> QED  BY <1>2, <2>1 DEF PlaceInv, OnceInv
<1>6. ApartInv'  BY <1>2, <1>3, <1>4 DEF PlaceInv, ApartInv, Nowhere
<1>7. PlacedInv'
  <2> SUFFICES ASSUME NEW r \in Requests
               PROVE  /\ r > issued' => Nowhere(r)' /\ fate'[r] = "open"
                      /\ r <= issued' => (fate'[r] # "open" <=> Nowhere(r)')
    BY DEF PlacedInv
  <2>1. r = q \/ (r # q /\ (r > q <=> r > issued) /\ (r <= q <=> r <= issued))
    BY <1>1 DEF TypeOK, Requests
  <2>2. r = q => In(r, messages') /\ fate'[r] = "open"  BY <1>2, <1>3, <1>4
  <2>3. r # q => (Nowhere(r)' <=> Nowhere(r))  BY <1>2, <1>4 DEF Nowhere
  <2>4. ~ (q > q) /\ q <= q  BY <1>1 DEF Requests
  <2> QED
    BY <1>1, <1>2, <2>1, <2>2, <2>3, <2>4 DEF PlaceInv, PlacedInv, Nowhere
<1>8. HandInv'  BY <1>2 DEF PlaceInv, HandInv
<1>9. BatchInv'  BY <1>2 DEF PlaceInv, BatchInv, Queue, gameVars
<1> QED  BY <1>5, <1>6, <1>7, <1>8, <1>9 DEF PlaceInv

\* The steps that move no request.
LEMMA PlaceControl ==
  ASSUME TypeOK, PlaceInv, ThreadInv,
         \/ Initialize \/ EndTick \/ Shutdown \/ EndShutdown
         \/ StartGateway \/ CheckRunning \/ PopTimeout
  PROVE  PlaceInv'
<1>1. UNCHANGED <<messages, hand, gameQueue, local, issued, fate>>
  BY DEF Initialize, EndTick, Shutdown, EndShutdown, StartGateway, CheckRunning,
         PopTimeout, queueVars, workerVars, gameVars, historyVars
<1>2. OnceInv' /\ ApartInv' /\ PlacedInv'
  BY <1>1 DEF PlaceInv, OnceInv, ApartInv, PlacedInv, Nowhere, In, Once
<1>3. HandInv'
  BY <1>1 DEF PlaceInv, HandInv, ThreadInv, Initialize, EndTick, Shutdown, EndShutdown,
              StartGateway, CheckRunning, PopTimeout, workerVars
<1>4. BatchInv'
  BY <1>1 DEF PlaceInv, BatchInv, Initialize, EndTick, Shutdown, EndShutdown,
              StartGateway, CheckRunning, PopTimeout, gameVars
<1> QED  BY <1>2, <1>3, <1>4 DEF PlaceInv

LEMMA PlaceTick ==
  ASSUME TypeOK, PlaceInv, Tick
  PROVE  PlaceInv'
<1>1. /\ game = "free" /\ game' = "drain"
      /\ local = <<>> /\ local' = gameQueue /\ gameQueue' = <<>>
      /\ UNCHANGED <<messages, worker, hand, issued, fate>>
  BY DEF Tick, queueVars, workerVars, historyVars, PlaceInv, BatchInv
<1>2. \A r : ~ In(r, local) /\ ~ In(r, gameQueue') /\ Once(gameQueue')
  BY <1>1, EmptyQueue
<1>3. \A r : Nowhere(r)' <=> Nowhere(r)  BY <1>1, <1>2 DEF Nowhere
<1>4. HandInv' /\ BatchInv'  BY <1>1 DEF PlaceInv, HandInv, BatchInv
<1>5. OnceInv'  BY <1>1, <1>2 DEF PlaceInv, OnceInv
<1>6. ApartInv'  BY <1>1, <1>2 DEF PlaceInv, ApartInv
<1>7. PlacedInv'  BY <1>1, <1>3 DEF PlaceInv, PlacedInv
<1> QED  BY <1>4, <1>5, <1>6, <1>7 DEF PlaceInv

LEMMA PlaceRunTask ==
  ASSUME TypeOK, PlaceInv, RunTask
  PROVE  PlaceInv'
<1> DEFINE q == Head(local)
<1>1. /\ local # <<>> /\ local' = Tail(local)
      /\ UNCHANGED <<messages, worker, hand, gameQueue, game, issued>>
      /\ game = "drain"
  BY DEF RunTask, queueVars, workerVars
<1>2. q \in {Event} \cup Requests /\ In(q, local)
  <2>1. 1 \in DOMAIN local /\ local[1] = q  BY <1>1 DEF TypeOK
  <2> QED  BY <2>1 DEF TypeOK, In
<1>3. \A r \in Requests : In(r, local') <=> In(r, local) /\ r # q
  BY <1>1, TailIn DEF TypeOK, PlaceInv, OnceInv, Requests, Event
<1>4. \A r \in Requests : fate'[r] = IF r = q THEN "answered" ELSE fate[r]
  BY <1>2 DEF RunTask, TypeOK, Requests, Event
<1>5. OnceInv'
  <2>1. Once(local')  BY <1>1, TailOnce DEF TypeOK, PlaceInv, OnceInv
  <2> QED  BY <1>1, <2>1 DEF PlaceInv, OnceInv
<1>6. ApartInv'  BY <1>1, <1>3 DEF PlaceInv, ApartInv
<1>7. PlacedInv'
  <2> SUFFICES ASSUME NEW r \in Requests
               PROVE  /\ r > issued' => Nowhere(r)' /\ fate'[r] = "open"
                      /\ r <= issued' => (fate'[r] # "open" <=> Nowhere(r)')
    BY DEF PlacedInv
  <2>1. CASE r = q
    <3>1. Nowhere(r)'  BY <1>1, <1>2, <1>3, <2>1 DEF Nowhere, PlaceInv, ApartInv
    <3>2. ~ Nowhere(r)  BY <1>2, <2>1 DEF Nowhere
    <3> QED  BY <1>1, <1>4, <2>1, <3>1, <3>2 DEF PlaceInv, PlacedInv
  <2>2. CASE r # q
    <3>1. Nowhere(r)' <=> Nowhere(r)  BY <1>1, <1>3, <2>2 DEF Nowhere
    <3> QED  BY <1>1, <1>4, <2>2, <3>1 DEF PlaceInv, PlacedInv
  <2> QED  BY <2>1, <2>2
<1>8. HandInv' /\ BatchInv'  BY <1>1 DEF PlaceInv, HandInv, BatchInv
<1> QED  BY <1>5, <1>6, <1>7, <1>8 DEF PlaceInv

LEMMA HeadOfMessages ==
  ASSUME TypeOK, PlaceInv, messages # <<>>
  PROVE  /\ Head(messages) \in Requests /\ Head(messages) # None
         /\ In(Head(messages), messages)
         /\ Head(messages) <= issued /\ fate[Head(messages)] = "open"
         /\ Once(Tail(messages))
         /\ \A r \in Requests :
              In(r, Tail(messages)) <=> In(r, messages) /\ r # Head(messages)
<1> DEFINE q == Head(messages)
<1>1. q \in Requests /\ q # None
  <2>1. q \in Requests  BY DEF TypeOK
  <2> QED  BY <2>1 DEF Requests, None
<1>2. In(q, messages)
  <2>1. 1 \in DOMAIN messages /\ messages[1] = q  BY DEF TypeOK
  <2> QED  BY <2>1 DEF TypeOK, In
<1>3. q <= issued /\ fate[q] = "open"
  <2>1. ~ Nowhere(q)  BY <1>2 DEF Nowhere
  <2>2. q <= issued  BY <1>1, <2>1 DEF PlaceInv, PlacedInv, TypeOK, Requests
  <2> QED  BY <1>1, <2>1, <2>2 DEF PlaceInv, PlacedInv
<1>4. Once(Tail(messages))  BY TailOnce DEF TypeOK, PlaceInv, OnceInv
<1>5. ASSUME NEW r \in Requests
      PROVE  In(r, Tail(messages)) <=> In(r, messages) /\ r # q
  BY <1>5, TailIn DEF TypeOK, PlaceInv, OnceInv, Requests, Event
<1> QED  BY <1>1, <1>2, <1>3, <1>4, <1>5

LEMMA PlacePopRequest ==
  ASSUME TypeOK, PlaceInv, PopRequest
  PROVE  PlaceInv'
<1> DEFINE q == Head(messages)
<1>1. /\ worker = "pop" /\ worker' = "http" /\ messages # <<>>
      /\ messages' = Tail(messages) /\ hand' = q
      /\ UNCHANGED <<gameQueue, local, game, issued, fate>>
  BY DEF PopRequest, gameVars, historyVars
<1>2. hand = None  BY <1>1 DEF PlaceInv, HandInv
<1>3. /\ q \in Requests /\ q # None /\ In(q, messages)
      /\ \A r \in Requests : In(r, messages') <=> In(r, messages) /\ r # q
      /\ Once(messages')
  BY <1>1, HeadOfMessages
<1>4. \A r \in Requests : Nowhere(r)' <=> Nowhere(r)
  BY <1>1, <1>2, <1>3 DEF Nowhere, Requests, None
<1>5. HandInv' /\ BatchInv'  BY <1>1, <1>3 DEF PlaceInv, HandInv, BatchInv
<1>6. OnceInv'  BY <1>1, <1>3 DEF PlaceInv, OnceInv
<1>7. ApartInv'  BY <1>1, <1>2, <1>3 DEF PlaceInv, ApartInv
<1>8. PlacedInv'  BY <1>1, <1>4 DEF PlaceInv, PlacedInv
<1> QED  BY <1>5, <1>6, <1>7, <1>8 DEF PlaceInv

LEMMA PlacePopPublish ==
  ASSUME TypeOK, PlaceInv, PopPublish
  PROVE  PlaceInv'
<1> DEFINE q == Head(messages)
<1>1. /\ worker = "pop" /\ worker' = "loop" /\ messages # <<>>
      /\ messages' = Tail(messages)
      /\ UNCHANGED <<hand, gameQueue, local, game, issued>>
  BY DEF PopPublish, gameVars
<1>2. /\ q \in Requests /\ q # None /\ In(q, messages) /\ q <= issued
      /\ \A r \in Requests : In(r, messages') <=> In(r, messages) /\ r # q
      /\ Once(messages')
  BY <1>1, HeadOfMessages
<1>3. \A r \in Requests : fate'[r] = IF r = q THEN "sent" ELSE fate[r]
  BY <1>2 DEF PopPublish, TypeOK
<1>4. HandInv' /\ BatchInv'  BY <1>1 DEF PlaceInv, HandInv, BatchInv
<1>5. OnceInv'  BY <1>1, <1>2 DEF PlaceInv, OnceInv
<1>6. ApartInv'  BY <1>1, <1>2 DEF PlaceInv, ApartInv
<1>7. ASSUME NEW r \in Requests
      PROVE  /\ r > issued' => Nowhere(r)' /\ fate'[r] = "open"
             /\ r <= issued' => (fate'[r] # "open" <=> Nowhere(r)')
  <2>1. CASE r = q
    <3>1. Nowhere(r)'  BY <1>1, <1>2, <2>1 DEF Nowhere, PlaceInv, ApartInv
    <3>2. ~ (r > issued)  BY <1>2, <2>1 DEF TypeOK, Requests
    <3> QED  BY <1>1, <1>3, <2>1, <3>1, <3>2
  <2>2. CASE r # q
    <3>1. Nowhere(r)' <=> Nowhere(r)  BY <1>1, <1>2, <2>2 DEF Nowhere
    <3> QED  BY <1>1, <1>3, <2>2, <3>1 DEF PlaceInv, PlacedInv
  <2> QED  BY <2>1, <2>2
<1> QED  BY <1>4, <1>5, <1>6, <1>7 DEF PlaceInv, PlacedInv

\* The message in the worker's hand is a queued request in no other place.
LEMMA HandIsPlaced ==
  ASSUME TypeOK, PlaceInv, worker \in {"http", "backoff"}
  PROVE  /\ hand \in Requests /\ hand # None /\ hand <= issued
         /\ fate[hand] = "open"
         /\ ~ In(hand, messages) /\ ~ In(hand, gameQueue) /\ ~ In(hand, local)
<1>1. hand \in Requests /\ hand # None  BY HandIsRequest DEF PlaceInv
<1>2. ~ Nowhere(hand)  BY DEF Nowhere
<1>3. hand <= issued  BY <1>1, <1>2 DEF PlaceInv, PlacedInv, TypeOK, Requests
<1>4. fate[hand] = "open"  BY <1>1, <1>2, <1>3 DEF PlaceInv, PlacedInv
<1> QED  BY <1>1, <1>3, <1>4 DEF PlaceInv, ApartInv

\* A step that ends the request in the worker's hand.
LEMMA PlaceEndHand ==
  ASSUME TypeOK, PlaceInv, worker = "http", worker' = "loop", hand' = None,
         NEW f \in Fates, f # "open", fate' = [fate EXCEPT ![hand] = f],
         UNCHANGED <<messages, gameQueue, local, game, issued>>
  PROVE  PlaceInv'
<1>1. /\ hand \in Requests /\ hand # None /\ hand <= issued
      /\ ~ In(hand, messages) /\ ~ In(hand, gameQueue) /\ ~ In(hand, local)
  BY HandIsPlaced
<1>2. \A r \in Requests : fate'[r] = IF r = hand THEN f ELSE fate[r]
  BY <1>1 DEF TypeOK
<1>3. HandInv' /\ OnceInv' /\ BatchInv'
  BY DEF PlaceInv, HandInv, OnceInv, BatchInv
<1>4. None \notin Requests  BY DEF None, Requests
<1>5. ApartInv'  BY <1>4 DEF PlaceInv, ApartInv
<1>6. ASSUME NEW r \in Requests
      PROVE  /\ r > issued' => Nowhere(r)' /\ fate'[r] = "open"
             /\ r <= issued' => (fate'[r] # "open" <=> Nowhere(r)')
  <2>1. CASE r = hand
    <3>1. Nowhere(r)'  BY <1>1, <1>4, <2>1 DEF Nowhere
    <3>2. ~ (r > issued)  BY <1>1, <2>1 DEF TypeOK, Requests
    <3> QED  BY <1>2, <2>1, <3>1, <3>2
  <2>2. CASE r # hand
    <3>1. Nowhere(r)' <=> Nowhere(r)  BY <1>4, <2>2 DEF Nowhere
    <3> QED  BY <1>2, <2>2, <3>1 DEF PlaceInv, PlacedInv
  <2> QED  BY <2>1, <2>2
<1> QED  BY <1>3, <1>5, <1>6 DEF PlaceInv, PlacedInv

LEMMA PlaceRateLimited ==
  ASSUME TypeOK, PlaceInv, RateLimited
  PROVE  PlaceInv'
<1>1. CASE hand \notin retried
  <2>1. worker = "http" /\ worker' = "backoff"
        /\ UNCHANGED <<messages, hand, gameQueue, local, game, issued, fate>>
    BY <1>1 DEF RateLimited, gameVars
  <2> QED
    BY <2>1 DEF PlaceInv, HandInv, OnceInv, ApartInv, PlacedInv, BatchInv,
                Nowhere, In, Once
<1>2. CASE hand \in retried
  BY <1>2, PlaceEndHand DEF RateLimited, gameVars, Fates
<1> QED  BY <1>1, <1>2

LEMMA PlaceRequeue ==
  ASSUME TypeOK, PlaceInv, Requeue
  PROVE  PlaceInv'
<1>1. /\ worker = "backoff" /\ worker' = "loop"
      /\ messages' = Append(messages, hand) /\ hand' = None
      /\ UNCHANGED <<gameQueue, local, game, issued, fate>>
  BY DEF Requeue, Push, gameVars, historyVars
<1>2. /\ hand \in Requests /\ ~ In(hand, messages)
      /\ ~ In(hand, gameQueue) /\ ~ In(hand, local)
  BY <1>1, HandIsPlaced
<1>3. \A r : In(r, messages') <=> In(r, messages) \/ r = hand
  BY <1>1, <1>2, AppendIn DEF TypeOK
<1>4. None \notin Requests  BY DEF None, Requests
<1>5. HandInv' /\ BatchInv'  BY <1>1 DEF PlaceInv, HandInv, BatchInv
<1>6. OnceInv'
  <2>1. Once(messages')
    BY <1>1, <1>2, AppendOnce DEF TypeOK, PlaceInv, OnceInv
  <2> QED  BY <1>1, <2>1 DEF PlaceInv, OnceInv
<1>7. ApartInv'  BY <1>1, <1>2, <1>3, <1>4 DEF PlaceInv, ApartInv
<1>8. \A r \in Requests : Nowhere(r)' <=> Nowhere(r)
  BY <1>1, <1>3, <1>4 DEF Nowhere
<1>9. PlacedInv'  BY <1>1, <1>8 DEF PlaceInv, PlacedInv
<1> QED  BY <1>5, <1>6, <1>7, <1>9 DEF PlaceInv

LEMMA PlaceComplete ==
  ASSUME TypeOK, PlaceInv, NEW done \in BOOLEAN, Complete(done)
  PROVE  PlaceInv'
<1>1. /\ worker = "http" /\ worker' = "loop" /\ hand' = None
      /\ UNCHANGED <<messages, local, game, issued>>
  BY DEF Complete, queueVars
<1>2. CASE kind[hand] = "call"
  <2>1. gameQueue' = Append(gameQueue, hand) /\ UNCHANGED fate
    BY <1>2 DEF Complete
  <2>2. /\ hand \in Requests /\ ~ In(hand, messages)
        /\ ~ In(hand, gameQueue) /\ ~ In(hand, local)
    BY <1>1, HandIsPlaced
  <2>3. gameQueue \in Seq({Event} \cup Requests) /\ hand \in {Event} \cup Requests
    BY <2>2 DEF TypeOK
  <2>4. \A r : In(r, gameQueue') <=> In(r, gameQueue) \/ r = hand
    BY <2>1, <2>3, AppendIn
  <2>5. Once(gameQueue')
    BY <2>1, <2>2, <2>3, AppendOnce DEF PlaceInv, OnceInv
  <2>6. None \notin Requests  BY DEF None, Requests
  <2>7. HandInv' /\ BatchInv' /\ OnceInv'
    BY <1>1, <2>5 DEF PlaceInv, HandInv, BatchInv, OnceInv
  <2>8. ApartInv'  BY <1>1, <2>2, <2>4, <2>6 DEF PlaceInv, ApartInv
  <2>9. \A r \in Requests : Nowhere(r)' <=> Nowhere(r)
    BY <1>1, <2>4, <2>6 DEF Nowhere
  <2>10. PlacedInv'  BY <1>1, <2>1, <2>9 DEF PlaceInv, PlacedInv
  <2> QED  BY <2>7, <2>8, <2>10 DEF PlaceInv
<1>3. CASE kind[hand] # "call"
  BY <1>1, <1>3, PlaceEndHand DEF Complete, Fates
<1> QED  BY <1>2, <1>3

LEMMA PlaceGatewayEvent ==
  ASSUME TypeOK, PlaceInv, GatewayEvent
  PROVE  PlaceInv'
<1>1. /\ gameQueue' = Append(gameQueue, Event)
      /\ UNCHANGED <<messages, worker, hand, local, game, issued, fate>>
  BY DEF GatewayEvent, queueVars, workerVars, historyVars
<1>2. \A r \in Requests : In(r, gameQueue') <=> In(r, gameQueue)
  <2>1. gameQueue \in Seq({Event} \cup Requests) /\ Event \in {Event} \cup Requests
    BY DEF TypeOK
  <2>2. \A r : In(r, gameQueue') <=> In(r, gameQueue) \/ r = Event
    BY <1>1, <2>1, AppendIn
  <2> QED  BY <2>2 DEF Requests, Event
<1>3. Once(gameQueue')
  BY <1>1, AppendOnce DEF TypeOK, PlaceInv, OnceInv
<1>4. HandInv' /\ BatchInv' /\ OnceInv'
  BY <1>1, <1>3 DEF PlaceInv, HandInv, BatchInv, OnceInv
<1>5. ApartInv'  BY <1>1, <1>2 DEF PlaceInv, ApartInv
<1>6. \A r \in Requests : Nowhere(r)' <=> Nowhere(r)  BY <1>1, <1>2 DEF Nowhere
<1>7. PlacedInv'  BY <1>1, <1>6 DEF PlaceInv, PlacedInv
<1> QED  BY <1>4, <1>5, <1>7 DEF PlaceInv

LEMMA PlaceStep == TypeOK /\ PlaceInv /\ ThreadInv /\ [Next]_vars => PlaceInv'
<1> SUFFICES ASSUME TypeOK, PlaceInv, ThreadInv, [Next]_vars PROVE PlaceInv'
  OBVIOUS
<1>1. CASE UNCHANGED vars
  BY <1>1, PlaceStutter
  DEF vars, placeVars, queueVars, workerVars, gameVars, historyVars
<1>2. CASE Next
  BY <1>2, PlaceControl, PlaceQueue, PlaceTick, PlaceRunTask, PlacePopPublish,
     PlacePopRequest, PlaceRateLimited, PlaceRequeue, PlaceComplete,
     PlaceGatewayEvent
  DEF Next, TickStep, WorkerStep
<1> QED  BY <1>1, <1>2

-----------------------------------------------------------------------------
(***************************************************************************)
(* Attempts.                                                               *)
(***************************************************************************)

LEMMA AttemptStep ==
  TypeOK /\ PlaceInv /\ AttemptInv /\ [Next]_vars => AttemptInv'
<1> SUFFICES ASSUME TypeOK, PlaceInv, AttemptInv, [Next]_vars PROVE AttemptInv'
  OBVIOUS
<1>a. None \notin Requests  BY DEF None, Requests
<1>1. ASSUME UNCHANGED <<issued, messages, hand, applied, attempts, retried>>
      PROVE  AttemptInv'
  BY <1>1 DEF AttemptInv, AppliedAtMostOnce, In
<1>2. ASSUME NEW k \in Kinds, Queue(k) PROVE AttemptInv'
  <2>1. /\ issued' = issued + 1 /\ issued' \in Requests
        /\ messages' = Append(messages, issued')
        /\ UNCHANGED <<hand, applied, attempts, retried>>
    BY <1>2, BoundsAssumption DEF Queue, Push, TypeOK, Requests, workerVars
  <2>2. \A r : In(r, messages') <=> In(r, messages) \/ r = issued'
    BY <2>1, AppendIn DEF TypeOK
  <2>3. \A r \in Requests : r > issued' \/ r = issued' => r > issued
    BY <2>1 DEF TypeOK, Requests
  <2> QED  BY <2>1, <2>2, <2>3 DEF AttemptInv, AppliedAtMostOnce
<1>3. CASE PopPublish \/ PopRequest
  <2>1. messages # <<>> /\ messages' = Tail(messages)
        /\ hand' \in {hand, Head(messages)}
        /\ UNCHANGED <<issued, applied, attempts, retried>>
    BY <1>3 DEF PopPublish, PopRequest, historyVars
  <2>2. \A r \in Requests : In(r, messages') => In(r, messages)
    BY <2>1, HeadOfMessages
  <2>3. In(Head(messages), messages)  BY <2>1, HeadOfMessages
  <2> QED  BY <2>1, <2>2, <2>3 DEF AttemptInv, AppliedAtMostOnce
<1>4. CASE RateLimited
  <2>1. /\ hand \in Requests /\ hand <= issued /\ ~ In(hand, messages)
    BY <1>4, HandIsPlaced DEF RateLimited
  <2>2. /\ \A r \in Requests :
             attempts'[r] = IF r = hand THEN attempts[r] + 1 ELSE attempts[r]
        /\ UNCHANGED <<messages, issued, applied>>
    BY <1>4, <2>1 DEF RateLimited, Attempt, TypeOK
  <2>3. applied[hand] = 0 /\ attempts[hand] = IF hand \in retried THEN 1 ELSE 0
    BY <2>1 DEF AttemptInv
  <2>4. CASE hand \notin retried
    <3>1. retried' = retried \cup {hand} /\ hand' = hand
      BY <1>4, <2>4 DEF RateLimited
    <3> QED  BY <2>1, <2>2, <2>3, <2>4, <3>1 DEF AttemptInv, AppliedAtMostOnce
  <2>5. CASE hand \in retried
    <3>1. retried' = retried /\ hand' = None  BY <1>4, <2>5 DEF RateLimited
    <3>2. ~ (hand > issued)  BY <2>1 DEF TypeOK, Requests
    <3> QED
      BY <1>a, <2>1, <2>2, <2>3, <2>5, <3>1, <3>2 DEF AttemptInv, AppliedAtMostOnce
  <2> QED  BY <2>4, <2>5
<1>5. CASE Requeue
  <2>1. /\ messages' = Append(messages, hand) /\ hand' = None
        /\ UNCHANGED <<issued, applied, attempts, retried>>
    BY <1>5 DEF Requeue, Push, historyVars
  <2>2. hand \in Requests  BY <1>5, HandIsPlaced DEF Requeue
  <2>3. \A r : In(r, messages') <=> In(r, messages) \/ r = hand
    BY <2>1, <2>2, AppendIn DEF TypeOK
  <2> QED  BY <1>a, <2>1, <2>3 DEF AttemptInv, AppliedAtMostOnce
<1>6. ASSUME NEW done \in BOOLEAN, Complete(done) PROVE AttemptInv'
  <2>1. /\ hand \in Requests /\ hand <= issued /\ ~ In(hand, messages)
    BY <1>6, HandIsPlaced DEF Complete
  <2>2. /\ \A r \in Requests :
             /\ attempts'[r] = IF r = hand THEN attempts[r] + 1 ELSE attempts[r]
             /\ applied'[r] = IF r = hand /\ done THEN applied[r] + 1 ELSE applied[r]
        /\ UNCHANGED <<messages, issued, retried>> /\ hand' = None
    BY <1>6, <2>1 DEF Complete, Attempt, TypeOK, queueVars
  <2>3. applied[hand] = 0 /\ attempts[hand] = IF hand \in retried THEN 1 ELSE 0
    BY <2>1 DEF AttemptInv
  <2>4. ~ (hand > issued)  BY <2>1 DEF TypeOK, Requests
  <2> QED  BY <1>a, <2>1, <2>2, <2>3, <2>4 DEF AttemptInv, AppliedAtMostOnce
<1>7. CASE \/ Initialize \/ TickStep \/ Shutdown \/ EndShutdown \/ StartGateway
           \/ CheckRunning \/ PopTimeout \/ GatewayEvent
  BY <1>1, <1>7
  DEF Initialize, TickStep, Tick, RunTask, EndTick, Shutdown, EndShutdown,
      StartGateway, CheckRunning, PopTimeout, GatewayEvent,
      queueVars, workerVars, gameVars, historyVars
<1>8. CASE UNCHANGED vars
  BY <1>1, <1>8 DEF vars, queueVars, workerVars, historyVars
<1> QED
  BY <1>2, <1>3, <1>4, <1>5, <1>6, <1>7, <1>8 DEF Next, WorkerStep

-----------------------------------------------------------------------------
(***************************************************************************)
(* Threads, and the inductive invariant.                                   *)
(***************************************************************************)

LEMMA ThreadStep == ThreadInv /\ [Next]_vars => ThreadInv'
BY DEF ThreadInv, Next, vars, queueVars, workerVars, gameVars, historyVars,
       Initialize, Queue, TickStep, Tick, RunTask, EndTick, Shutdown, EndShutdown,
       WorkerStep, StartGateway, CheckRunning, PopTimeout, PopPublish, PopRequest,
       RateLimited, Requeue, Complete, GatewayEvent

\* IInv is inductive, so it holds in every reachable state.
THEOREM Invariance == Spec => []IInv
<1>1. IInv /\ [Next]_vars => IInv'
  BY TypeStep, PlaceStep, AttemptStep, ThreadStep DEF IInv, PlaceInv
<1> QED  BY InitIInv, <1>1, PTL DEF Spec

\* Every variable of the worker, its queue and the game thread's batches keeps
\* its type.
THEOREM TypeCorrect == Spec => []TypeOK
BY Invariance, PTL DEF IInv

\* HandleHttpMessage's retry makes Discord carry no request out twice and makes
\* at most two HTTP requests for any.
THEOREM RetryIsSafe == Spec => []AppliedAtMostOnce
<1>1. IInv => AppliedAtMostOnce  BY DEF IInv, AttemptInv
<1> QED  BY Invariance, <1>1, PTL

\* A queued request is in exactly one place: the queue, the worker's hand, one of
\* the two batches of callbacks, or finished.
THEOREM ConservationOfRequests == Spec => []OnePlace
<1>1. ASSUME IInv PROVE OnePlace
  <2> SUFFICES ASSUME NEW r \in 1 .. issued
               PROVE  \E p \in Places(r) : Places(r) = {p}
    BY DEF OnePlace
  <2>1. r \in Requests /\ r <= issued /\ r # Event
    BY <1>1, BoundsAssumption DEF IInv, TypeOK, Requests, Event
  <2>2. fate[r] # "open" <=> Nowhere(r)
    BY <1>1, <2>1 DEF IInv, PlaceInv, PlacedInv
  <2>3. CASE In(r, messages)
    <3>1. PICK i \in DOMAIN messages : messages[i] = r  BY <2>3 DEF In
    <3>2. \A j \in DOMAIN messages : messages[j] = r <=> j = i
      BY <1>1, <2>1, <3>1 DEF IInv, PlaceInv, OnceInv, Once
    <3>3. Places(r) = {<<"messages", i>>}
      BY <1>1, <2>1, <2>2, <2>3, <3>2
      DEF Places, Nowhere, In, IInv, PlaceInv, ApartInv
    <3> QED  BY <3>3
  <2>4. CASE In(r, gameQueue)
    <3>1. PICK i \in DOMAIN gameQueue : gameQueue[i] = r  BY <2>4 DEF In
    <3>2. \A j \in DOMAIN gameQueue : gameQueue[j] = r <=> j = i
      BY <1>1, <2>1, <3>1 DEF IInv, PlaceInv, OnceInv, Once
    <3>3. Places(r) = {<<"gameQueue", i>>}
      BY <1>1, <2>1, <2>2, <2>4, <3>2
      DEF Places, Nowhere, In, IInv, PlaceInv, ApartInv
    <3> QED  BY <3>3
  <2>5. CASE In(r, local)
    <3>1. PICK i \in DOMAIN local : local[i] = r  BY <2>5 DEF In
    <3>2. \A j \in DOMAIN local : local[j] = r <=> j = i
      BY <1>1, <2>1, <3>1 DEF IInv, PlaceInv, OnceInv, Once
    <3>3. Places(r) = {<<"local", i>>}
      BY <1>1, <2>1, <2>2, <2>5, <3>2
      DEF Places, Nowhere, In, IInv, PlaceInv, ApartInv
    <3> QED  BY <3>3
  <2>6. CASE hand = r
    <3>1. Places(r) = {<<"hand", r>>}
      BY <1>1, <2>1, <2>2, <2>6
      DEF Places, Nowhere, In, IInv, PlaceInv, ApartInv
    <3> QED  BY <3>1
  <2>7. CASE Nowhere(r)
    <3>1. Places(r) = {<<"ended", r>>}  BY <2>2, <2>7 DEF Places, Nowhere, In
    <3> QED  BY <3>1
  <2> QED  BY <2>3, <2>4, <2>5, <2>6, <2>7 DEF Nowhere
<1> QED  BY Invariance, <1>1, PTL

\* After Shutdown has returned no thread takes a step: DiscordNetWorker::Stop
\* joins both threads before the subsystems are torn down.
THEOREM ShutdownIsQuiet == Spec => QuietAfterShutdown
<1>1. ASSUME IInv, [Next]_vars PROVE [game # "down"]_vars
  <2> SUFFICES ASSUME game = "down", Next PROVE FALSE
    BY <1>1
  <2>1. worker = "exited" /\ gateway = "joined"  BY <1>1 DEF IInv, ThreadInv
  <2> QED
    BY <2>1 DEF Next, Initialize, Queue, TickStep, Tick, RunTask, EndTick,
                Shutdown, EndShutdown, WorkerStep, StartGateway, CheckRunning,
                PopTimeout, PopPublish, PopRequest, RateLimited, Requeue,
                Complete, GatewayEvent
<1> QED  BY Invariance, <1>1, PTL DEF Spec, QuietAfterShutdown

-----------------------------------------------------------------------------
(***************************************************************************)
(* Order.  Everything on its way stands in one line: ended or posted to    *)
(* the game thread, in the worker's hand, queued.  OrderInv says that only *)
(* a request which was rate-limited has a later one before it.             *)
(***************************************************************************)

Ahead(s, a, b) == \E i, j \in DOMAIN s : i < j /\ s[i] = a /\ s[j] = b

\* The callback of s is due before that of r.
DueAhead(s, r) ==
  \/ Ahead(local, s, r)
  \/ In(s, local) /\ In(r, gameQueue)
  \/ Ahead(gameQueue, s, r)

Precedes(s, r) ==
  \/ Handled(s) /\ ~ Handled(r)
  \/ DueAhead(s, r)
  \/ hand = s /\ In(r, messages)
  \/ Ahead(messages, s, r)

OrderInv ==
  /\ worker = "backoff" => hand \in retried
  /\ \A r, s \in 1 .. issued : r < s /\ Precedes(s, r) => r \in retried

LEMMA AheadAppend ==
  ASSUME NEW S, NEW s \in Seq(S), NEW e \in S, NEW a, NEW b, Ahead(Append(s, e), a, b)
  PROVE  Ahead(s, a, b) \/ (In(a, s) /\ b = e)
<1>1. PICK i, j \in DOMAIN Append(s, e) : /\ i < j /\ Append(s, e)[i] = a
                                          /\ Append(s, e)[j] = b
  BY DEF Ahead
<1>2. i \in DOMAIN s /\ s[i] = a
  BY <1>1
<1>3. CASE j \in DOMAIN s
  <2>1. s[j] = b
    BY <1>1, <1>3
  <2> QED
    BY <1>1, <1>2, <1>3, <2>1 DEF Ahead
<1>4. CASE j \notin DOMAIN s
  <2>1. b = e
    BY <1>1, <1>4
  <2> QED
    BY <1>2, <2>1 DEF In
<1> QED
  BY <1>3, <1>4

LEMMA AheadTail ==
  ASSUME NEW S, NEW s \in Seq(S), s # <<>>, NEW a, NEW b
  PROVE  /\ Ahead(Tail(s), a, b) => Ahead(s, a, b)
         /\ a = Head(s) /\ In(b, Tail(s)) => Ahead(s, a, b)
<1>1. /\ 1 \in DOMAIN s /\ Head(s) = s[1]
      /\ \A i \in DOMAIN Tail(s) : i + 1 \in DOMAIN s /\ 1 < i + 1 /\ Tail(s)[i] = s[i + 1]
      /\ \A i, j \in DOMAIN Tail(s) : i < j => i + 1 < j + 1
  OBVIOUS
<1> QED
  BY <1>1 DEF Ahead, In

\* What is ahead in the two batches taken together is due ahead.
LEMMA DueIsAhead ==
  ASSUME TypeOK, NEW s, NEW r, Ahead(local \o gameQueue, s, r)
  PROVE  DueAhead(s, r)
<1> DEFINE u == local \o gameQueue
           n == Len(local)
<1>1. /\ DOMAIN u = 1 .. n + Len(gameQueue) /\ DOMAIN local = 1 .. n
      /\ DOMAIN gameQueue = 1 .. Len(gameQueue) /\ n \in Nat /\ Len(gameQueue) \in Nat
      /\ \A i \in DOMAIN local : u[i] = local[i]
      /\ \A i \in DOMAIN gameQueue : u[n + i] = gameQueue[i]
  BY DEF TypeOK
<1>2. PICK i, j \in DOMAIN u : i < j /\ u[i] = s /\ u[j] = r
  BY DEF Ahead
<1> HIDE DEF u, n
<1>3. ASSUME NEW k \in DOMAIN u, k \notin DOMAIN local
      PROVE  k - n \in DOMAIN gameQueue /\ u[k] = gameQueue[k - n]
  <2>1. k - n \in DOMAIN gameQueue /\ n + (k - n) = k
    BY <1>1, <1>3
  <2> QED
    BY <1>1, <2>1
<1>4. CASE i \in DOMAIN local /\ j \in DOMAIN local
  BY <1>1, <1>2, <1>4 DEF DueAhead, Ahead
<1>5. CASE i \in DOMAIN local /\ j \notin DOMAIN local
  BY <1>1, <1>2, <1>3, <1>5 DEF DueAhead, In
<1>6. CASE i \notin DOMAIN local
  <2>1. j \notin DOMAIN local
    BY <1>1, <1>2, <1>6
  <2>2. i - n < j - n
    BY <1>1, <1>2
  <2> QED
    BY <1>2, <1>3, <1>6, <2>1, <2>2 DEF DueAhead, Ahead
<1> QED
  BY <1>4, <1>5, <1>6

\* A step that adds nothing to what precedes what.
LEMMA OrderShrinks ==
  ASSUME OrderInv, issued' = issued, retried \subseteq retried',
         worker' = "backoff" => hand' \in retried',
         \A r, s \in 1 .. issued : Precedes(s, r)' => Precedes(s, r) \/ r \in retried'
  PROVE  OrderInv'
BY DEF OrderInv

\* A request is handled or still with the worker, not both.
LEMMA HandledIsPlaced ==
  ASSUME TypeOK, PlaceInv
  PROVE  /\ \A r \in 1 .. issued : r \in Requests /\ r # Event /\ r # None
         /\ \A r \in 1 .. issued : ~ Handled(r) <=> In(r, messages) \/ hand = r
<1>1. \A r \in 1 .. issued : r \in Requests /\ r # Event /\ r # None /\ r <= issued
  BY BoundsAssumption DEF TypeOK, Requests, Event, None
<1>2. ASSUME NEW r \in 1 .. issued PROVE ~ Handled(r) <=> In(r, messages) \/ hand = r
  <2>1. fate[r] # "open" <=> Nowhere(r)
    BY <1>1 DEF PlaceInv, PlacedInv
  <2>2. Handled(r) <=> fate[r] # "open" \/ In(r, gameQueue) \/ In(r, local)
    BY DEF Handled, In
  <2> QED
    BY <1>1, <2>1, <2>2 DEF Nowhere, PlaceInv, ApartInv
<1> QED
  BY <1>1, <1>2

LEMMA OrderQueue ==
  ASSUME TypeOK, PlaceInv, OrderInv, NEW k \in Kinds, Queue(k)
  PROVE  OrderInv'
<1> DEFINE q == issued + 1
<1>1. /\ q \in Requests /\ issued' = q /\ messages' = Append(messages, q)
      /\ issued \in Nat
      /\ UNCHANGED <<retried, worker, hand, gameQueue, local, fate>>
  BY BoundsAssumption DEF TypeOK, Queue, Push, Requests, workerVars, gameVars
<1>2. Nowhere(q) /\ fate[q] = "open"
  BY <1>1 DEF PlaceInv, PlacedInv, Requests, TypeOK
<1>3. /\ \A r : In(r, messages') <=> In(r, messages) \/ r = q
      /\ \A a, b : Ahead(messages', a, b) => Ahead(messages, a, b) \/ (In(a, messages) /\ b = q)
  BY <1>1, AppendIn, AheadAppend DEF TypeOK
<1>4. /\ \A r : Handled(r)' <=> Handled(r)
      /\ \A s, r : DueAhead(s, r)' <=> DueAhead(s, r)
  BY <1>1 DEF Handled, DueAhead, Ahead, In
<1> HIDE DEF q
<1>5. \A r \in 1 .. issued' : r \in 1 .. issued \/ r = q
  BY <1>1 DEF q
<1>6. \A r, s \in 1 .. issued' : r < s => r \in 1 .. issued /\ r # q
  BY <1>1 DEF q
<1>7. \A s : ~ Precedes(q, s)
  <2>1. ~ Handled(q) /\ \A s : ~ DueAhead(q, s)
    BY <1>2 DEF Handled, Nowhere, In, DueAhead, Ahead
  <2> QED
    BY <1>2, <2>1 DEF Precedes, Nowhere, In, Ahead
<1>8. ASSUME NEW r \in 1 .. issued', NEW s \in 1 .. issued', r < s, Precedes(s, r)'
      PROVE  r \in retried'
  <2>1. r # q /\ r \in 1 .. issued
    BY <1>6, <1>8
  <2>2. Precedes(s, r)
    BY <1>1, <1>3, <1>4, <1>8, <2>1 DEF Precedes, In, Ahead
  <2>3. s # q
    BY <1>7, <2>2
  <2>4. s \in 1 .. issued
    BY <1>5, <2>3
  <2> QED
    BY <1>1, <1>8, <2>1, <2>2, <2>4 DEF OrderInv
<1> QED
  BY <1>1, <1>8 DEF OrderInv

\* The worker is done with the request in its hand: it is handled from now on, and
\* if its callback is posted it is the last one due.
LEMMA OrderEndHand ==
  ASSUME TypeOK, PlaceInv, OrderInv, worker = "http", worker' = "loop",
         UNCHANGED <<messages, local, issued>>, retried \subseteq retried', hand' = None,
         \/ gameQueue' = gameQueue
         \/ gameQueue' = Append(gameQueue, hand),
         \A r \in Requests : r # hand => fate'[r] = fate[r]
  PROVE  OrderInv'
<1>1. /\ hand \in Requests /\ hand # None /\ ~ In(hand, messages)
      /\ ~ In(hand, gameQueue) /\ ~ In(hand, local)
  BY HandIsPlaced
<1>2. /\ \A r : In(r, gameQueue) => In(r, gameQueue')
      /\ \A r : In(r, gameQueue') => In(r, gameQueue) \/ r = hand
      /\ \A a, b : Ahead(gameQueue', a, b) =>
           Ahead(gameQueue, a, b) \/ (In(a, gameQueue) /\ b = hand)
  <2>1. CASE gameQueue' = gameQueue
    BY <2>1
  <2>2. CASE gameQueue' = Append(gameQueue, hand)
    <3>1. gameQueue \in Seq({Event} \cup Requests) /\ hand \in {Event} \cup Requests
      BY <1>1 DEF TypeOK
    <3>2. \A r : In(r, gameQueue') <=> In(r, gameQueue) \/ r = hand
      BY <2>2, <3>1, AppendIn
    <3>3. \A a, b : Ahead(gameQueue', a, b) =>
            Ahead(gameQueue, a, b) \/ (In(a, gameQueue) /\ b = hand)
      BY <2>2, <3>1, AheadAppend
    <3> QED
      BY <3>2, <3>3
  <2> QED
    BY <2>1, <2>2
<1>3. \A r \in 1 .. issued : r # hand => (Handled(r)' <=> Handled(r))
  BY <1>2, HandledIsPlaced DEF Handled, In
<1>4. \A s, r \in 1 .. issued : DueAhead(s, r)' => DueAhead(s, r) \/ (Handled(s) /\ r = hand)
  <2> SUFFICES ASSUME NEW s \in 1 .. issued, NEW r \in 1 .. issued, DueAhead(s, r)'
               PROVE  DueAhead(s, r) \/ (Handled(s) /\ r = hand)
    OBVIOUS
  <2>1. In(s, gameQueue) \/ In(s, local) => Handled(s)
    BY DEF Handled, In
  <2>2. CASE Ahead(local, s, r)'
    BY <2>2 DEF DueAhead, Ahead
  <2>3. CASE (In(s, local) /\ In(r, gameQueue))'
    <3>1. In(s, local)
      BY <2>3 DEF In
    <3>2. In(r, gameQueue')
      BY <2>3 DEF In
    <3> QED
      BY <1>2, <2>1, <3>1, <3>2 DEF DueAhead
  <2>4. CASE Ahead(gameQueue, s, r)'
    <3>1. Ahead(gameQueue', s, r)
      BY <2>4 DEF Ahead
    <3> QED
      BY <1>2, <2>1, <3>1 DEF DueAhead
  <2> QED
    BY <2>2, <2>3, <2>4 DEF DueAhead
<1>5. ASSUME NEW r \in 1 .. issued, NEW s \in 1 .. issued, Precedes(s, r)'
      PROVE  Precedes(s, r)
  <2>1. \/ (Handled(s) /\ ~ Handled(r))' \/ DueAhead(s, r)'
        \/ Ahead(messages, s, r)'
    BY <1>5, HandledIsPlaced DEF Precedes
  <2>2. CASE Ahead(messages, s, r)'
    BY <2>2 DEF Precedes, Ahead
  <2>3. CASE DueAhead(s, r)'
    <3>1. CASE DueAhead(s, r)
      BY <3>1 DEF Precedes
    <3>2. CASE Handled(s) /\ r = hand
      BY <3>2, HandledIsPlaced DEF Precedes
    <3> QED
      BY <1>4, <2>3, <3>1, <3>2
  <2>4. CASE (Handled(s) /\ ~ Handled(r))'
    <3>1. CASE r = hand
      <4>1. s # hand => Handled(s)
        BY <1>3, <2>4
      <4>2. s # hand
        BY <2>4, <3>1
      <4> QED
        BY <3>1, <4>1, <4>2, HandledIsPlaced DEF Precedes
    <3>2. CASE r # hand /\ s # hand
      BY <1>3, <2>4, <3>2 DEF Precedes
    <3>3. CASE r # hand /\ s = hand
      <4>1. ~ Handled(r)
        BY <1>3, <2>4, <3>3
      <4>2. In(r, messages)
        BY <3>3, <4>1, HandledIsPlaced
      <4> QED
        BY <3>3, <4>2 DEF Precedes
    <3> QED
      BY <3>1, <3>2, <3>3
  <2> QED
    BY <2>1, <2>2, <2>3, <2>4
<1> QED
  BY <1>5, OrderShrinks

LEMMA OrderRunTask ==
  ASSUME TypeOK, PlaceInv, OrderInv, RunTask
  PROVE  OrderInv'
<1> DEFINE q == Head(local)
<1>1. /\ local # <<>> /\ local' = Tail(local)
      /\ UNCHANGED <<messages, worker, hand, gameQueue, issued, retried>>
  BY DEF RunTask, queueVars, workerVars
<1>2. \A r \in Requests : In(r, local') <=> In(r, local) /\ r # q
  BY <1>1, TailIn DEF TypeOK, PlaceInv, OnceInv, Requests, Event
<1>3. \A a, b : Ahead(local', a, b) => Ahead(local, a, b)
  BY <1>1, AheadTail DEF TypeOK
<1>4. \A r \in Requests : fate'[r] = IF r = q THEN "answered" ELSE fate[r]
  BY DEF RunTask, TypeOK, Requests, Event
<1>5. In(q, local)
  <2>1. 1 \in DOMAIN local /\ local[1] = q
    BY <1>1 DEF TypeOK
  <2> QED
    BY <2>1 DEF In
<1>6. \A r \in 1 .. issued : Handled(r)' <=> Handled(r)
  <2> SUFFICES ASSUME NEW r \in 1 .. issued PROVE Handled(r)' <=> Handled(r)
    OBVIOUS
  <2>1. r \in Requests
    BY HandledIsPlaced
  <2>2. /\ Handled(r) <=> fate[r] # "open" \/ In(r, gameQueue) \/ In(r, local)
        /\ Handled(r)' <=> fate'[r] # "open" \/ In(r, gameQueue) \/ In(r, local')
    BY <1>1 DEF Handled, In
  <2> QED
    BY <1>2, <1>4, <1>5, <2>1, <2>2
<1>7. \A s, r \in 1 .. issued : DueAhead(s, r)' => DueAhead(s, r)
  <2> SUFFICES ASSUME NEW s \in 1 .. issued, NEW r \in 1 .. issued, DueAhead(s, r)'
               PROVE  DueAhead(s, r)
    OBVIOUS
  <2>1. s \in Requests
    BY HandledIsPlaced
  <2>2. \/ Ahead(local', s, r)
        \/ In(s, local') /\ In(r, gameQueue)
        \/ Ahead(gameQueue, s, r)
    <3>1. /\ Ahead(local, s, r)' = Ahead(local', s, r) /\ In(s, local)' = In(s, local')
          /\ Ahead(gameQueue, s, r)' = Ahead(gameQueue, s, r)
          /\ In(r, gameQueue)' = In(r, gameQueue)
      BY <1>1 DEF Ahead, In
    <3> QED
      BY <3>1 DEF DueAhead
  <2> QED
    BY <1>2, <1>3, <2>1, <2>2 DEF DueAhead
<1>8. \A r, s \in 1 .. issued : Precedes(s, r)' => Precedes(s, r)
  BY <1>1, <1>6, <1>7 DEF Precedes, In, Ahead
<1> QED
  BY <1>1, <1>8, OrderShrinks DEF OrderInv

LEMMA OrderTick ==
  ASSUME TypeOK, PlaceInv, OrderInv, Tick
  PROVE  OrderInv'
<1>1. /\ local = <<>> /\ local' = gameQueue /\ gameQueue' = <<>>
      /\ UNCHANGED <<messages, worker, hand, issued, fate, retried>>
  BY DEF Tick, queueVars, workerVars, historyVars, PlaceInv, BatchInv
<1>2. \A r : Handled(r)' <=> Handled(r)
  BY <1>1 DEF Handled
<1>3. \A s, r : DueAhead(s, r)' => DueAhead(s, r)
  <2>1. \A s, r : ~ In(r, gameQueue') /\ ~ Ahead(gameQueue', s, r)
    BY <1>1 DEF In, Ahead
  <2>2. \A s, r : DueAhead(s, r)' => Ahead(gameQueue, s, r)
    <3>1. \A s, r : /\ Ahead(local, s, r)' = Ahead(gameQueue, s, r)
                    /\ Ahead(gameQueue, s, r)' = Ahead(gameQueue', s, r)
                    /\ In(r, gameQueue)' = In(r, gameQueue')
      BY <1>1 DEF Ahead, In
    <3> QED
      BY <2>1, <3>1 DEF DueAhead
  <2> QED
    BY <2>2 DEF DueAhead
<1>4. \A s, r : Precedes(s, r)' => Precedes(s, r)
  BY <1>1, <1>2, <1>3 DEF Precedes, In, Ahead
<1> QED
  BY <1>1, <1>4, OrderShrinks DEF OrderInv

LEMMA OrderPop ==
  ASSUME TypeOK, PlaceInv, OrderInv, PopPublish \/ PopRequest
  PROVE  OrderInv'
<1> DEFINE q == Head(messages)
<1>1. /\ worker = "pop" /\ worker' # "backoff"
      /\ messages # <<>> /\ messages' = Tail(messages)
      /\ UNCHANGED <<gameQueue, local, issued, retried>>
      /\ \/ hand' = hand /\ fate' = [fate EXCEPT ![q] = "sent"]
         \/ hand' = q /\ fate' = fate
  BY DEF PopPublish, PopRequest, gameVars, historyVars
<1>2. hand = None
  BY <1>1 DEF PlaceInv, HandInv
<1>3. /\ q \in Requests /\ q # None /\ In(q, messages)
      /\ \A r \in Requests : In(r, messages') <=> In(r, messages) /\ r # q
  BY <1>1, HeadOfMessages
<1>4. /\ \A a, b : Ahead(messages', a, b) => Ahead(messages, a, b)
      /\ \A b : In(b, messages') => Ahead(messages, q, b)
  BY <1>1, AheadTail DEF TypeOK
<1> HIDE DEF q
<1>5. \A r \in 1 .. issued : r # q => (Handled(r)' <=> Handled(r))
  <2> SUFFICES ASSUME NEW r \in 1 .. issued, r # q PROVE Handled(r)' <=> Handled(r)
    OBVIOUS
  <2>1. fate'[r] = fate[r]
    BY <1>1, HandledIsPlaced DEF TypeOK
  <2> QED
    BY <1>1, <2>1 DEF Handled
<1>6. \A s, r : DueAhead(s, r)' <=> DueAhead(s, r)
  BY <1>1 DEF DueAhead, Ahead, In
<1>7. ASSUME NEW r \in 1 .. issued, NEW s \in 1 .. issued, Precedes(s, r)'
      PROVE  Precedes(s, r)
  <2>1. \A b : In(b, messages)' <=> In(b, messages')
    BY DEF In
  <2>2. CASE Ahead(messages, s, r)'
    <3>1. Ahead(messages', s, r)
      BY <2>2 DEF Ahead
    <3> QED
      BY <1>4, <3>1 DEF Precedes
  <2>3. CASE DueAhead(s, r)'
    BY <1>6, <2>3 DEF Precedes
  <2>4. CASE hand' = s /\ In(r, messages')
    <3>1. s = q
      BY <1>1, <1>2, <2>4, HandledIsPlaced
    <3> QED
      BY <1>4, <2>4, <3>1 DEF Precedes
  <2>5. CASE (Handled(s) /\ ~ Handled(r))'
    <3>1. ~ Handled(q)
      <4>1. ~ Nowhere(q) /\ ~ In(q, gameQueue) /\ ~ In(q, local)
        BY <1>3 DEF Nowhere, PlaceInv, ApartInv
      <4>2. fate[q] = "open"
        BY <1>1, HeadOfMessages DEF q
      <4> QED
        BY <4>1, <4>2 DEF Handled, In
    <3>2. CASE r = q
      <4>1. s # q
        BY <2>5, <3>2
      <4>2. Handled(s)
        BY <1>5, <2>5, <4>1
      <4> QED
        BY <3>1, <3>2, <4>2 DEF Precedes
    <3>3. CASE r # q /\ s # q
      BY <1>5, <2>5, <3>3 DEF Precedes
    <3>4. CASE r # q /\ s = q
      <4>1. ~ Handled(r)
        BY <1>5, <2>5, <3>4
      <4>2. In(r, messages)
        BY <1>2, <4>1, HandledIsPlaced
      <4>3. In(r, messages')
        BY <1>3, <3>4, <4>2, HandledIsPlaced
      <4> QED
        BY <1>4, <3>4, <4>3 DEF Precedes
    <3> QED
      BY <3>2, <3>3, <3>4
  <2> QED
    BY <1>7, <2>1, <2>2, <2>3, <2>4, <2>5 DEF Precedes
<1> QED
  BY <1>1, <1>7, OrderShrinks

LEMMA OrderRequeue ==
  ASSUME TypeOK, PlaceInv, OrderInv, Requeue
  PROVE  OrderInv'
<1>1. /\ worker = "backoff" /\ worker' = "loop" /\ hand' = None
      /\ messages' = Append(messages, hand)
      /\ UNCHANGED <<gameQueue, local, issued, retried, fate>>
  BY DEF Requeue, Push, gameVars, historyVars
<1>2. hand \in Requests /\ hand # None /\ hand \in retried /\ ~ In(hand, messages)
  BY <1>1, HandIsPlaced DEF OrderInv
<1>3. \A a, b : Ahead(messages', a, b) => Ahead(messages, a, b) \/ (In(a, messages) /\ b = hand)
  BY <1>1, <1>2, AheadAppend DEF TypeOK
<1>4. /\ \A r : Handled(r)' <=> Handled(r)
      /\ \A s, r : DueAhead(s, r)' <=> DueAhead(s, r)
      /\ \A a, b : Ahead(messages, a, b)' <=> Ahead(messages', a, b)
  BY <1>1 DEF Handled, DueAhead, Ahead, In
<1>5. \A r, s \in 1 .. issued : Precedes(s, r)' => Precedes(s, r) \/ r \in retried'
  BY <1>1, <1>2, <1>3, <1>4, HandledIsPlaced DEF Precedes
<1> QED
  BY <1>1, <1>5, OrderShrinks

LEMMA OrderEvent ==
  ASSUME TypeOK, PlaceInv, OrderInv, GatewayEvent
  PROVE  OrderInv'
<1>1. /\ gameQueue' = Append(gameQueue, Event)
      /\ UNCHANGED <<messages, worker, hand, local, issued, retried, fate>>
  BY DEF GatewayEvent, queueVars, workerVars, historyVars
<1>2. /\ \A r : In(r, gameQueue') <=> In(r, gameQueue) \/ r = Event
      /\ \A a, b : Ahead(gameQueue', a, b) =>
           Ahead(gameQueue, a, b) \/ (In(a, gameQueue) /\ b = Event)
  <2>1. gameQueue \in Seq({Event} \cup Requests) /\ Event \in {Event} \cup Requests
    BY DEF TypeOK
  <2>2. \A r : In(r, gameQueue') <=> In(r, gameQueue) \/ r = Event
    BY <1>1, <2>1, AppendIn
  <2>3. \A a, b : Ahead(gameQueue', a, b) =>
          Ahead(gameQueue, a, b) \/ (In(a, gameQueue) /\ b = Event)
    BY <1>1, <2>1, AheadAppend
  <2> QED
    BY <2>2, <2>3
<1>3. \A r \in 1 .. issued : Handled(r)' <=> Handled(r)
  <2>1. \A r : /\ Handled(r) <=> fate[r] # "open" \/ In(r, gameQueue) \/ In(r, local)
               /\ Handled(r)' <=> fate[r] # "open" \/ In(r, gameQueue') \/ In(r, local)
    BY <1>1 DEF Handled, In
  <2> QED
    BY <1>2, <2>1, HandledIsPlaced
<1>4. \A s, r \in 1 .. issued : DueAhead(s, r)' => DueAhead(s, r)
  <2>1. \A s, r : DueAhead(s, r)' => \/ Ahead(local, s, r)
                                     \/ In(s, local) /\ In(r, gameQueue')
                                     \/ Ahead(gameQueue', s, r)
    BY <1>1 DEF DueAhead, In, Ahead
  <2> QED
    BY <1>2, <2>1, HandledIsPlaced DEF DueAhead
<1>5. \A s, r \in 1 .. issued : Precedes(s, r)' => Precedes(s, r)
  BY <1>1, <1>3, <1>4 DEF Precedes, In, Ahead
<1> QED
  BY <1>1, <1>5, OrderShrinks DEF OrderInv

LEMMA OrderStep == TypeOK /\ PlaceInv /\ OrderInv /\ [Next]_vars => OrderInv'
<1> SUFFICES ASSUME TypeOK, PlaceInv, OrderInv, [Next]_vars PROVE OrderInv'
  OBVIOUS
<1>1. ASSUME NEW k \in Kinds, Queue(k) PROVE OrderInv'
  BY <1>1, OrderQueue
<1>2. CASE Tick
  BY <1>2, OrderTick
<1>3. CASE RunTask
  BY <1>3, OrderRunTask
<1>4. CASE PopPublish \/ PopRequest
  BY <1>4, OrderPop
<1>5. CASE RateLimited
  <2>1. /\ worker = "http" /\ UNCHANGED <<messages, gameQueue, local, issued>>
        /\ hand \in Requests
    BY <1>5, HandIsPlaced DEF RateLimited, gameVars
  <2>2. CASE hand \notin retried
    <3>1. /\ retried' = retried \cup {hand} /\ hand' = hand /\ fate' = fate
      BY <1>5, <2>2 DEF RateLimited
    <3>2. \A s, r : Precedes(s, r)' => Precedes(s, r)
      BY <2>1, <3>1 DEF Precedes, Handled, DueAhead, In, Ahead
    <3> QED
      BY <2>1, <3>1, <3>2, OrderShrinks
  <2>3. CASE hand \in retried
    <3>1. /\ retried' = retried /\ hand' = None /\ worker' = "loop"
          /\ \A r \in Requests : r # hand => fate'[r] = fate[r]
      BY <1>5, <2>1, <2>3 DEF RateLimited, TypeOK
    <3> QED
      BY <2>1, <3>1, OrderEndHand
  <2> QED
    BY <2>2, <2>3
<1>6. CASE Requeue
  BY <1>6, OrderRequeue
<1>7. ASSUME NEW done \in BOOLEAN, Complete(done) PROVE OrderInv'
  <2>1. /\ worker = "http" /\ worker' = "loop" /\ hand' = None
        /\ UNCHANGED <<messages, retried, local, issued>>
        /\ gameQueue' = gameQueue \/ gameQueue' = Append(gameQueue, hand)
    BY <1>7 DEF Complete, queueVars
  <2>2. \A r \in Requests : r # hand => fate'[r] = fate[r]
    BY <1>7 DEF Complete, TypeOK
  <2> QED
    BY <2>1, <2>2, OrderEndHand
<1>8. CASE GatewayEvent
  BY <1>8, OrderEvent
<1>9. CASE \/ Initialize \/ EndTick \/ Shutdown \/ EndShutdown \/ StartGateway
           \/ CheckRunning \/ PopTimeout \/ UNCHANGED vars
  <2>1. /\ UNCHANGED <<messages, retried, hand, gameQueue, local, issued, fate>>
        /\ worker' = "backoff" => worker = "backoff"
    BY <1>9 DEF Initialize, EndTick, Shutdown, EndShutdown, StartGateway, CheckRunning,
                PopTimeout, vars, queueVars, workerVars, gameVars, historyVars
  <2>2. \A s, r : Precedes(s, r)' => Precedes(s, r)
    BY <2>1 DEF Precedes, Handled, DueAhead, In, Ahead
  <2> QED
    BY <2>1, <2>2, OrderShrinks DEF OrderInv
<1> QED
  BY <1>1, <1>2, <1>3, <1>4, <1>5, <1>6, <1>7, <1>8, <1>9 DEF Next, TickStep, WorkerStep

\* Requests are carried out, and their callbacks are run, in the order in which they
\* were queued; only the requeue after a 429 lets a request be overtaken.
THEOREM OrderIsKept == Spec => []OnlyRetriesOvertaken
<1>1. Init => OrderInv
  BY DEF Init, OrderInv
<1>2. IInv /\ OrderInv /\ [Next]_vars => OrderInv'
  BY OrderStep DEF IInv
<1>3. ASSUME IInv, OrderInv PROVE OnlyRetriesOvertaken
  <2> SUFFICES ASSUME NEW r \in 1 .. issued, NEW s \in 1 .. issued, r < s, Overtakes(s, r)
               PROVE  Precedes(s, r)
    BY <1>3 DEF OrderInv, OnlyRetriesOvertaken
  <2>1. CASE Handled(s) /\ ~ Handled(r)
    BY <2>1 DEF Precedes
  <2>2. CASE Ahead(local \o gameQueue, s, r)
    BY <1>3, <2>2, DueIsAhead DEF IInv, Precedes
  <2> QED
    BY <2>1, <2>2 DEF Overtakes, Ahead
<1> QED
  BY Invariance, <1>1, <1>2, <1>3, PTL DEF Spec

-----------------------------------------------------------------------------
(***************************************************************************)
(* Refinement: every step is a step of RestChannel or leaves it alone.     *)
(***************************************************************************)

\* A step that settles no request and opens or closes nothing is a stutter.
LEMMA ChannelStutter ==
  ASSUME issued' = issued, fate' = fate, game' = "down" <=> game = "down"
  PROVE  UNCHANGED Channel!vars
BY DEF Channel!vars, ChanOf

\* A step that gives request q its fate.
LEMMA ChannelEnd ==
  ASSUME TypeOK, NEW q \in Requests, q <= issued, fate[q] = "open",
         NEW f \in {"answered", "sent", "dropped"},
         fate' = [fate EXCEPT ![q] = f],
         issued' = issued, game # "down", game' # "down"
  PROVE  Channel!Step(q)
<1>1. ~ (q > issued)  BY DEF TypeOK, Requests
<1>2. ChanOf(q) = "pending"  BY <1>1 DEF ChanOf
<1>3. \A r \in Requests : fate'[r] = IF r = q THEN f ELSE fate[r]  BY DEF TypeOK
<1>4. \A r \in Requests : r # q => ChanOf(r)' = ChanOf(r)  BY <1>3 DEF ChanOf
<1>5. ChanOf(q)' = IF f = "answered" THEN "answered" ELSE "settled"
  BY <1>1, <1>3 DEF ChanOf
<1>6. [r \in Requests |-> ChanOf(r)]' = [[r \in Requests |-> ChanOf(r)] EXCEPT ![q] = ChanOf(q)']
  BY <1>4
<1> QED
  BY <1>2, <1>5, <1>6 DEF Channel!Step, Channel!Answer, Channel!Settle, Channel!Move

\* Forgetting fairness, the worker implements the abstract REST channel: a
\* request is answered at most once, and never after Shutdown.
THEOREM Refinement == Spec => Channel!Spec
<1>1. Init => Channel!Init
  BY DEF Init, Channel!Init, ChanOf, Requests
<1>2. ASSUME IInv, [Next]_vars PROVE [Channel!Next]_Channel!vars
  <2> USE <1>2 DEF IInv
  <2>1. CASE UNCHANGED vars
    BY <2>1, ChannelStutter DEF vars, gameVars, historyVars
  <2>2. ASSUME NEW k \in Kinds, Queue(k) PROVE Channel!Next
    <3>0. PICK q \in Requests : q = issued'
      BY <2>2, BoundsAssumption DEF Queue, TypeOK, Requests
    <3>1. /\ q = issued + 1 /\ issued' = q
          /\ game # "down" /\ game' = game /\ fate' = fate
      BY <2>2, <3>0 DEF Queue, gameVars
    <3>2. q > issued /\ ~ (q > q) /\ fate[q] = "open"
      BY <3>1 DEF PlaceInv, PlacedInv, TypeOK, Requests
    <3>3. ChanOf(q) = "idle"  BY <3>2 DEF ChanOf
    <3>4. ChanOf(q)' = "pending"  BY <3>1, <3>2 DEF ChanOf
    <3>5. \A r \in Requests : r # q => (r > q <=> r > issued)
      BY <3>1 DEF TypeOK, Requests
    <3>6. \A r \in Requests : r # q => ChanOf(r)' = ChanOf(r)
      BY <3>1, <3>5 DEF ChanOf
    <3>7. Channel!Step(q)
      BY <3>1, <3>3, <3>4, <3>6 DEF Channel!Step, Channel!Submit, Channel!Move
    <3> QED  BY <3>1, <3>7 DEF Channel!Next
  <2>3. CASE RunTask
    <3>1. game = "drain" /\ UNCHANGED <<issued, game>> /\ local # <<>>
      BY <2>3 DEF RunTask
    <3>2. CASE Head(local) = Event
      BY <2>3, <3>1, <3>2, ChannelStutter DEF RunTask
    <3>3. CASE Head(local) # Event
      <4> DEFINE q == Head(local)
      <4>1. q \in Requests  BY <3>1, <3>3 DEF TypeOK
      <4>2. In(q, local)
        <5>1. 1 \in DOMAIN local /\ local[1] = q  BY <3>1 DEF TypeOK
        <5> QED  BY <5>1 DEF In
      <4>3. q <= issued /\ fate[q] = "open"
        BY <4>1, <4>2 DEF PlaceInv, PlacedInv, Nowhere, TypeOK, Requests
      <4> QED
        BY <2>3, <3>1, <3>3, <4>1, <4>3, ChannelEnd DEF RunTask, Channel!Next
    <3> QED  BY <3>2, <3>3
  <2>4. CASE PopPublish
    <3>1. messages # <<>> /\ UNCHANGED <<issued, game>>
          /\ fate' = [fate EXCEPT ![Head(messages)] = "sent"]
      BY <2>4 DEF PopPublish, gameVars
    <3>2. worker = "pop"  BY <2>4 DEF PopPublish
    <3>3. /\ Head(messages) \in Requests /\ Head(messages) <= issued
          /\ fate[Head(messages)] = "open"
      BY <3>1, HeadOfMessages
    <3>4. game # "down"  BY <3>2 DEF ThreadInv
    <3> QED  BY <3>1, <3>3, <3>4, ChannelEnd DEF Channel!Next
  <2>5. CASE RateLimited \/ \E done \in BOOLEAN : Complete(done)
    <3>1. worker = "http" /\ UNCHANGED <<issued, game>>
      BY <2>5 DEF RateLimited, Complete, gameVars
    <3>2. \/ fate' = fate
          \/ fate' = [fate EXCEPT ![hand] = "dropped"]
          \/ fate' = [fate EXCEPT ![hand] = "sent"]
      BY <2>5 DEF RateLimited, Complete
    <3>3. hand \in Requests /\ hand <= issued /\ fate[hand] = "open"
      BY <3>1, HandIsPlaced
    <3>4. game # "down"  BY <3>1 DEF ThreadInv
    <3>5. CASE fate' = fate  BY <3>1, <3>5, ChannelStutter
    <3>6. CASE fate' = [fate EXCEPT ![hand] = "dropped"]
      BY <3>1, <3>3, <3>4, <3>6, ChannelEnd DEF Channel!Next
    <3>7. CASE fate' = [fate EXCEPT ![hand] = "sent"]
      BY <3>1, <3>3, <3>4, <3>7, ChannelEnd DEF Channel!Next
    <3> QED  BY <3>2, <3>5, <3>6, <3>7
  <2>6. CASE EndShutdown
    <3>1. /\ game = "join" /\ game' = "down" /\ UNCHANGED <<issued, fate>>
      BY <2>6 DEF EndShutdown, historyVars
    <3>2. \A r \in Requests : ChanOf(r)' = ChanOf(r)  BY <3>1 DEF ChanOf
    <3> QED  BY <3>1, <3>2 DEF Channel!Next, Channel!Close
  <2>7. CASE \/ Initialize \/ Tick \/ EndTick \/ Shutdown \/ StartGateway
             \/ CheckRunning \/ PopTimeout \/ PopRequest \/ Requeue \/ GatewayEvent
    <3>1. issued' = issued /\ fate' = fate /\ (game' = "down" <=> game = "down")
      BY <2>7 DEF Initialize, Tick, EndTick, Shutdown, StartGateway, CheckRunning,
                  PopTimeout, PopRequest, Requeue, GatewayEvent, gameVars, historyVars
    <3> QED  BY <3>1, ChannelStutter
  <2> QED
    BY <2>1, <2>2, <2>3, <2>4, <2>5, <2>6, <2>7 DEF Next, TickStep, WorkerStep
<1> QED  BY Invariance, <1>1, <1>2, PTL DEF Spec, Channel!Spec

-----------------------------------------------------------------------------
(***************************************************************************)
(* Liveness.  The theorem rests on ThreadsCanMove, which says when the     *)
(* actions of Fairness are enabled; TLC checks it.                         *)
(***************************************************************************)

\* From the beginning of Shutdown on, running_ is false; the worker exists as soon as
\* the game thread runs.
StopInv ==
  /\ game \in {"join", "down"} => running = FALSE
  /\ game # "boot" => worker # "off"

LEMMA StopInvariance == Spec => []StopInv
<1>1. Init => StopInv
  BY DEF Init, StopInv
<1>2. StopInv /\ [Next]_vars => StopInv'
  BY DEF StopInv, Next, Initialize, Queue, TickStep, Tick, RunTask, EndTick, Shutdown,
         EndShutdown, WorkerStep, StartGateway, CheckRunning, PopTimeout, PopPublish, PopRequest,
         RateLimited, Requeue, Complete, GatewayEvent, vars, workerVars, gameVars
<1> QED
  BY <1>1, <1>2, PTL DEF Spec

\* While Shutdown waits, the worker goes on to the head of its loop and leaves it there.
LEMMA WorkerWindsDown ==
  ASSUME StopInv, game = "join", [Next]_vars
  PROVE  /\ game' = "join" \/ game' = "down"
         /\ worker = "starting" => worker' = "starting" \/ worker' = "loop"
         /\ worker = "pop" => worker' = "pop" \/ worker' = "loop" \/ worker' = "http"
         /\ worker = "http" => worker' = "http" \/ worker' = "backoff" \/ worker' = "loop"
         /\ worker = "backoff" => worker' = "backoff" \/ worker' = "loop"
         /\ worker = "loop" => worker' = "loop" \/ worker' = "exited"
         /\ worker = "exited" => worker' = "exited"
         /\ WorkerStep => worker' # worker
         /\ EndShutdown => game' = "down"
  BY DEF StopInv, Next, Initialize, Queue, TickStep, Tick, RunTask, EndTick, Shutdown,
         EndShutdown, WorkerStep, StartGateway, CheckRunning, PopTimeout, PopPublish, PopRequest,
         RateLimited, Requeue, Complete, GatewayEvent, vars, workerVars, gameVars

\* If threads that can run do, Stop's join on the REST worker returns, whatever is queued and
\* however many requests are rate-limited: running_ is read before each of them.
THEOREM ShutdownAlwaysReturns == FairSpec /\ []ThreadsCanMove => ShutdownReturns
<1>1. TypeOK /\ StopInv /\ game = "join" =>
        \/ worker = "starting" \/ worker = "pop" \/ worker = "http" \/ worker = "backoff"
        \/ worker = "loop" \/ worker = "exited"
  BY DEF TypeOK, StopInv
<1>2. StopInv /\ game = "join" /\ [Next]_vars =>
        /\ (game = "join")' \/ (game = "down")'
        /\ worker = "starting" => (worker = "starting")' \/ (worker = "loop")'
        /\ worker = "pop" => (worker = "pop")' \/ (worker = "loop")' \/ (worker = "http")'
        /\ worker = "http" => (worker = "http")' \/ (worker = "backoff")' \/ (worker = "loop")'
        /\ worker = "backoff" => (worker = "backoff")' \/ (worker = "loop")'
        /\ worker = "loop" => (worker = "loop")' \/ (worker = "exited")'
        /\ worker = "exited" => (worker = "exited")'
  BY WorkerWindsDown
<1>3. StopInv /\ game = "join" /\ <<WorkerStep>>_vars =>
        /\ worker = "starting" => ~(worker = "starting")'
        /\ worker = "pop" => ~(worker = "pop")'
        /\ worker = "http" => ~(worker = "http")'
        /\ worker = "backoff" => ~(worker = "backoff")'
        /\ worker = "loop" => ~(worker = "loop")'
  BY WorkerWindsDown DEF Next
<1>4. StopInv /\ game = "join" /\ <<EndShutdown>>_vars => (game = "down")'
  BY WorkerWindsDown DEF Next
<1>5. ThreadsCanMove =>
        /\ worker = "starting" \/ worker = "pop" \/ worker = "http" \/ worker = "backoff"
             \/ worker = "loop" => ENABLED <<WorkerStep>>_vars
        /\ worker = "exited" /\ game = "join" => ENABLED <<EndShutdown>>_vars
  BY DEF ThreadsCanMove
<1> QED
  BY <1>1, <1>2, <1>3, <1>4, <1>5, TypeCorrect, StopInvariance, PTL
     DEF FairSpec, Spec, Fairness, ShutdownReturns

-----------------------------------------------------------------------------
(***************************************************************************)
(* Requests only move forward.                                             *)
(***************************************************************************)

\* In each place, the stage a request is in.
Staged ==
  \A r \in Requests :
    /\ fate[r] # "open" => Stage(r) = 8
    /\ In(r, local) => Stage(r) = 7
    /\ In(r, gameQueue) => Stage(r) = 6
    /\ hand = r /\ worker = "http" => Stage(r) = (IF r \in retried THEN 5 ELSE 2)
    /\ hand = r /\ worker = "backoff" => Stage(r) = 3
    /\ In(r, messages) => Stage(r) = (IF r \in retried THEN 4 ELSE 1)
    /\ fate[r] = "open" /\ Nowhere(r) => Stage(r) = 0

LEMMA StagedInv == TypeOK /\ PlaceInv => Staged
<1> SUFFICES ASSUME TypeOK, PlaceInv, NEW r \in Requests
             PROVE  /\ fate[r] # "open" => Stage(r) = 8
                    /\ In(r, local) => Stage(r) = 7
                    /\ In(r, gameQueue) => Stage(r) = 6
                    /\ hand = r /\ worker = "http" => Stage(r) = (IF r \in retried THEN 5 ELSE 2)
                    /\ hand = r /\ worker = "backoff" => Stage(r) = 3
                    /\ In(r, messages) => Stage(r) = (IF r \in retried THEN 4 ELSE 1)
                    /\ fate[r] = "open" /\ Nowhere(r) => Stage(r) = 0
  BY DEF Staged
<1>1. fate[r] # "open" => Nowhere(r)
  BY DEF PlaceInv, PlacedInv, TypeOK, Requests
<1>2. /\ In(r, messages)  => ~ In(r, gameQueue) /\ ~ In(r, local) /\ hand # r
      /\ In(r, gameQueue) => ~ In(r, local) /\ hand # r
      /\ In(r, local)     => hand # r
  BY DEF PlaceInv, ApartInv
<1> DEFINE L == In(r, local)
           G == In(r, gameQueue)
           M == In(r, messages)
<1>3. Stage(r) = CASE fate[r] # "open" -> 8
                   [] L -> 7
                   [] G -> 6
                   [] hand = r /\ worker = "http" -> IF r \in retried THEN 5 ELSE 2
                   [] hand = r /\ worker = "backoff" -> 3
                   [] M -> IF r \in retried THEN 4 ELSE 1
                   [] OTHER -> 0
  BY DEF Stage, In
<1>4. Nowhere(r) <=> ~M /\ ~G /\ ~L /\ hand # r
  BY DEF Nowhere
<1> HIDE DEF L, G, M
<1> QED
  BY <1>1, <1>2, <1>3, <1>4 DEF L, G, M

\* What a step does not touch stays where it is.
LEMMA StageSame ==
  ASSUME NEW r \in Requests, fate'[r] = fate[r],
         In(r, messages') <=> In(r, messages), In(r, gameQueue') <=> In(r, gameQueue),
         In(r, local') <=> In(r, local), hand' = r <=> hand = r,
         hand = r => worker' = worker, r \in retried' <=> r \in retried
  PROVE  Stage(r)' = Stage(r)
  BY DEF Stage, In

LEMMA StageBounds == \A r \in Requests : Stage(r) \in 0 .. 8
  BY DEF Stage

LEMMA ForwardStep == IInv /\ IInv' /\ OrderInv /\ [Next]_vars => \A r \in Requests : Stage(r)' >= Stage(r)
<1> SUFFICES ASSUME IInv, IInv', OrderInv, [Next]_vars, NEW r \in Requests
             PROVE  Stage(r)' >= Stage(r)
  OBVIOUS
<1> USE DEF IInv
<1>1. Staged /\ Staged'
  <2>1. Staged
    BY StagedInv
  <2>2. Staged'
    BY StagedInv, PTL
  <2> QED
    BY <2>1, <2>2
<1>2. Stage(r) \in 0 .. 8 /\ Stage(r)' \in 0 .. 8
  <2>1. Stage(r)' \in 0 .. 8
    BY DEF Stage
  <2> QED
    BY <2>1, StageBounds
<1>3. ASSUME Stage(r)' = Stage(r) PROVE Stage(r)' >= Stage(r)
  BY <1>2, <1>3
<1>4. /\ \A q : In(q, messages)' = In(q, messages') /\ In(q, gameQueue)' = In(q, gameQueue')
      /\ \A q : In(q, local)' = In(q, local')
  BY DEF In
<1>5. None \notin Requests /\ Event \notin Requests
  BY DEF None, Event, Requests
<1>6. ASSUME NEW k \in Kinds, Queue(k) PROVE Stage(r)' >= Stage(r)
  <2>1. /\ messages' = Append(messages, issued + 1)
        /\ UNCHANGED <<retried, hand, worker, gameQueue, local, fate>>
        /\ issued + 1 \in Requests
    BY <1>6, BoundsAssumption DEF Queue, Push, workerVars, gameVars, TypeOK, Requests
  <2>2. In(r, messages') <=> In(r, messages) \/ r = issued + 1
    BY <2>1, AppendIn DEF TypeOK
  <2>3. CASE r # issued + 1
    BY <1>3, <2>1, <2>2, <2>3, StageSame
  <2>4. CASE r = issued + 1
    <3>1. Nowhere(r) /\ fate[r] = "open"
      BY <2>4 DEF PlaceInv, PlacedInv, TypeOK, Requests
    <3> QED
      BY <1>1, <1>2, <3>1 DEF Staged
  <2> QED
    BY <2>3, <2>4
<1>7. CASE Tick
  <2>1. /\ local = <<>> /\ local' = gameQueue /\ gameQueue' = <<>>
        /\ UNCHANGED <<messages, retried, hand, worker, fate>>
    BY <1>7 DEF Tick, queueVars, workerVars, historyVars, PlaceInv, BatchInv
  <2>2. CASE In(r, gameQueue)
    BY <1>1, <1>2, <1>4, <2>1, <2>2 DEF Staged
  <2>3. CASE ~ In(r, gameQueue)
    BY <1>3, <2>1, <2>3, StageSame, EmptyQueue
  <2> QED
    BY <2>2, <2>3
<1>8. CASE RunTask
  <2>1. /\ local # <<>> /\ local' = Tail(local)
        /\ UNCHANGED <<messages, retried, worker, hand, gameQueue>>
        /\ Head(local) \in {Event} \cup Requests
        /\ fate' = IF Head(local) = Event THEN fate
                   ELSE [fate EXCEPT ![Head(local)] = "answered"]
    BY <1>8 DEF RunTask, queueVars, workerVars, TypeOK
  <2>2. In(r, local') <=> In(r, local) /\ r # Head(local)
    BY <1>5, <2>1, TailIn DEF TypeOK, PlaceInv, OnceInv
  <2>3. CASE r = Head(local)
    <3>1. fate'[r] = "answered"
      BY <1>5, <2>1, <2>3 DEF TypeOK
    <3> QED
      BY <1>1, <1>2, <3>1 DEF Staged
  <2>4. CASE r # Head(local)
    <3>1. fate'[r] = fate[r]
      BY <2>1, <2>4 DEF TypeOK
    <3> QED
      BY <1>3, <2>1, <2>2, <2>4, <3>1, StageSame
  <2> QED
    BY <2>3, <2>4
<1>9. CASE PopPublish \/ PopRequest
  <2> DEFINE q == Head(messages)
  <2>1. /\ worker = "pop" /\ messages # <<>> /\ messages' = Tail(messages)
        /\ UNCHANGED <<retried, gameQueue, local>>
    BY <1>9 DEF PopPublish, PopRequest, gameVars
  <2>2. /\ q \in Requests /\ In(q, messages)
        /\ In(r, messages') <=> In(r, messages) /\ r # q
    BY <2>1, HeadOfMessages
  <2>3. hand = None
    BY <2>1 DEF PlaceInv, HandInv
  <2>4. CASE r # q
    <3>1. fate'[r] = fate[r] /\ hand' # r
      BY <1>5, <1>9, <2>2, <2>3, <2>4 DEF PopPublish, PopRequest, historyVars, TypeOK
    <3> QED
      BY <1>3, <1>5, <2>1, <2>2, <2>3, <2>4, <3>1, StageSame
  <2>5. CASE r = q
    <3>1. \/ fate'[r] # "open"
          \/ hand' = r /\ worker' = "http"
      BY <1>9, <2>5 DEF PopPublish, PopRequest, TypeOK
    <3> QED
      BY <1>1, <1>2, <2>1, <2>2, <2>5, <3>1 DEF Staged
  <2> QED
    BY <2>4, <2>5
<1>10. CASE RateLimited
  <2>1. /\ worker = "http" /\ UNCHANGED <<messages, gameQueue, local>> /\ hand \in Requests
    BY <1>10, HandIsPlaced DEF RateLimited, gameVars
  <2>2. CASE r # hand
    <3>1. fate'[r] = fate[r] /\ hand' # r /\ (r \in retried' <=> r \in retried)
      BY <1>5, <1>10, <2>2 DEF RateLimited, TypeOK
    <3> QED
      BY <1>3, <2>1, <2>2, <3>1, StageSame
  <2>3. CASE r = hand /\ hand \notin retried
    <3>1. hand' = r /\ worker' = "backoff"
      BY <1>10, <2>3 DEF RateLimited
    <3> QED
      BY <1>1, <1>2, <2>1, <2>3, <3>1 DEF Staged
  <2>4. CASE r = hand /\ hand \in retried
    <3>1. fate'[r] = "dropped"
      BY <1>10, <2>4 DEF RateLimited, TypeOK
    <3> QED
      BY <1>1, <1>2, <3>1 DEF Staged
  <2> QED
    BY <2>2, <2>3, <2>4
<1>11. CASE Requeue
  <2>1. /\ worker = "backoff" /\ messages' = Append(messages, hand) /\ hand' = None
        /\ UNCHANGED <<retried, gameQueue, local, fate>> /\ hand \in retried
        /\ hand \in Requests
    BY <1>11, HandIsPlaced DEF Requeue, Push, gameVars, historyVars, OrderInv
  <2>2. In(r, messages') <=> In(r, messages) \/ r = hand
    BY <2>1, AppendIn DEF TypeOK
  <2>3. CASE r # hand
    BY <1>3, <1>5, <2>1, <2>2, <2>3, StageSame
  <2>4. CASE r = hand
    BY <1>1, <1>2, <1>4, <2>1, <2>2, <2>4 DEF Staged
  <2> QED
    BY <2>3, <2>4
<1>12. ASSUME NEW done \in BOOLEAN, Complete(done) PROVE Stage(r)' >= Stage(r)
  <2>1. /\ worker = "http" /\ hand' = None /\ UNCHANGED <<messages, retried, local>>
        /\ hand \in Requests
    BY <1>12, HandIsPlaced DEF Complete, queueVars
  <2>2. CASE kind[hand] = "call"
    <3>1. gameQueue' = Append(gameQueue, hand) /\ fate' = fate
      BY <1>12, <2>2 DEF Complete
    <3>2. In(r, gameQueue') <=> In(r, gameQueue) \/ r = hand
      <4>1. gameQueue \in Seq({Event} \cup Requests) /\ hand \in {Event} \cup Requests
        BY <2>1 DEF TypeOK
      <4> QED
        BY <3>1, <4>1, AppendIn
    <3>3. CASE r # hand
      BY <1>3, <1>5, <2>1, <3>1, <3>2, <3>3, StageSame
    <3>4. CASE r = hand
      BY <1>1, <1>2, <1>4, <2>1, <3>2, <3>4 DEF Staged
    <3> QED
      BY <3>3, <3>4
  <2>3. CASE kind[hand] # "call"
    <3>1. gameQueue' = gameQueue /\ fate' = [fate EXCEPT ![hand] = "sent"]
      BY <1>12, <2>3 DEF Complete
    <3>2. CASE r # hand
      <4>1. fate'[r] = fate[r]
        BY <3>1, <3>2 DEF TypeOK
      <4> QED
        BY <1>3, <1>5, <2>1, <3>1, <3>2, <4>1, StageSame
    <3>3. CASE r = hand
      <4>1. fate'[r] = "sent"
        BY <3>1, <3>3 DEF TypeOK
      <4> QED
        BY <1>1, <1>2, <4>1 DEF Staged
    <3> QED
      BY <3>2, <3>3
  <2> QED
    BY <2>2, <2>3
<1>13. CASE GatewayEvent
  <2>1. gameQueue' = Append(gameQueue, Event)
        /\ UNCHANGED <<messages, retried, hand, worker, local, fate>>
    BY <1>13 DEF GatewayEvent, queueVars, workerVars, historyVars
  <2>2. In(r, gameQueue') <=> In(r, gameQueue)
    <3>1. gameQueue \in Seq({Event} \cup Requests) /\ Event \in {Event} \cup Requests
      BY DEF TypeOK
    <3> QED
      BY <1>5, <2>1, <3>1, AppendIn
  <2> QED
    BY <1>3, <2>1, <2>2, StageSame
<1>14. CASE \/ Initialize \/ EndTick \/ Shutdown \/ EndShutdown \/ StartGateway
            \/ CheckRunning \/ PopTimeout \/ UNCHANGED vars
  <2>1. UNCHANGED <<messages, retried, hand, gameQueue, local, fate>>
    BY <1>14 DEF Initialize, EndTick, Shutdown, EndShutdown, StartGateway, CheckRunning,
                 PopTimeout, vars, queueVars, workerVars, gameVars, historyVars
  <2>2. hand = r => worker' = worker
    <3>1. hand = r => worker \in {"http", "backoff"} /\ game # "boot"
      BY <1>5 DEF PlaceInv, HandInv, ThreadInv
    <3> QED
      BY <1>14, <3>1 DEF Initialize, EndTick, Shutdown, EndShutdown, StartGateway, CheckRunning,
                         PopTimeout, vars, workerVars
  <2> QED
    BY <1>3, <2>1, <2>2, StageSame
<1> QED
  BY <1>6, <1>7, <1>8, <1>9, <1>10, <1>11, <1>12, <1>13, <1>14 DEF Next, TickStep, WorkerStep

\* For any number of requests, the retry, the swap in ProcessGameQueue and Shutdown only ever
\* move a request on: to be tried at most twice, to its callback, to its end.
THEOREM RequestsMoveOn == Spec => OnlyForward
<1>1. Spec => []OrderInv
  <2>1. Init => OrderInv
    BY DEF Init, OrderInv
  <2>2. IInv /\ OrderInv /\ [Next]_vars => OrderInv'
    BY OrderStep DEF IInv
  <2> QED
    BY <2>1, <2>2, Invariance, PTL DEF Spec
<1>2. IInv /\ IInv' /\ OrderInv /\ [Next]_vars
        => [\A r \in Requests : Stage(r)' >= Stage(r)]_vars
  BY ForwardStep
<1> QED
  BY <1>1, <1>2, Invariance, PTL DEF Spec, OnlyForward

-----------------------------------------------------------------------------
\* What the channel promises comes to: a request ends once and as it ended, one that has
\* been made is never taken back, and once the channel is closed nothing moves any more.
PromiseKept ==
  /\ \A r \in Requests :
       /\ ChanOf(r) \in {"answered", "settled"} => ChanOf(r)' = ChanOf(r)
       /\ ChanOf(r) = "pending" => ChanOf(r)' \in {"pending", "answered", "settled"}
  /\ game = "down" => game' = "down" /\ \A r \in Requests : ChanOf(r)' = ChanOf(r)

LEMMA PromiseStep == ASSUME Channel!Next PROVE PromiseKept
<1> DEFINE chan == [r \in Requests |-> ChanOf(r)]
<1>1. CASE Channel!Close
  <2>1. chan' = chan /\ game # "down"
    BY <1>1 DEF Channel!Close
  <2>2. \A r \in Requests : chan'[r] = ChanOf(r)' /\ chan[r] = ChanOf(r)
    OBVIOUS
  <2>3. \A r \in Requests : ChanOf(r)' = ChanOf(r)
    BY <2>1, <2>2
  <2> QED
    BY <2>1, <2>3 DEF PromiseKept
<1>2. ASSUME NEW q \in Requests, Channel!Step(q) PROVE PromiseKept
  <2>1. PICK from, to :
          /\ game # "down" /\ chan[q] = from
          /\ chan' = [chan EXCEPT ![q] = to]
          /\ \/ from = "idle" /\ to = "pending"
             \/ from = "pending" /\ to \in {"answered", "settled"}
    BY <1>2 DEF Channel!Step, Channel!Submit, Channel!Answer, Channel!Settle, Channel!Move
  <2>2. \A r \in Requests : chan'[r] = ChanOf(r)' /\ chan[r] = ChanOf(r)
    OBVIOUS
  <2>3. \A r \in Requests : chan'[r] = IF r = q THEN to ELSE chan[r]
    BY <2>1
  <2> QED
    BY <2>1, <2>2, <2>3 DEF PromiseKept
<1> QED
  BY <1>1, <1>2 DEF Channel!Next

\* Whatever keeps the promise of RestChannel ends no request twice or otherwise than it
\* did, and after Shutdown lets none begin or end: what ServerStatus builds on.
THEOREM PromiseSuffices == Channel!Spec => [][PromiseKept]_(Channel!vars)
BY PromiseStep, PTL DEF Channel!Spec
=============================================================================
