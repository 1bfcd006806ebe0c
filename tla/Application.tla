---------------------------- MODULE Application ----------------------------
(***************************************************************************)
(* The application around the dispatcher: requests that share one Redis    *)
(* client, write to the database, and leave what is to be done after the   *)
(* commit to post-commit actions; and the lifespan that opens the client,  *)
(* shuts the dispatcher down and closes the client.                        *)
(*                                                                         *)
(* A request is named after the one notice it may register.  Requests may  *)
(* still be running when the lifespan ends: the dispatcher is written for  *)
(* that, whatever the server waits for.                                    *)
(***************************************************************************)
EXTENDS BackgroundDispatcher, Sequences

CONSTANT NoRequest     \* nobody holds redis_init_lock

ASSUME NoRequestIsNone == NoRequest \notin Notices

VARIABLES lifespan,    \* whether the server runs the lifespan
          client,      \* whether redis_client is set
          open,        \* Redis clients created and not closed
          initLock,    \* who holds redis_init_lock
          pc,          \* where a request is
          callbacks,   \* its post-commit actions
          committed,   \* history: requests that have committed
          owed         \* history: requests that registered a notice

dispatcherVars == vars
requestVars    == <<pc, callbacks, committed, owed>>
redisVars      == <<client, open, initLock>>
appVars        == <<dispatcherVars, lifespan, redisVars, requestVars>>

\* With a lifespan, init_redis has run before the first request; without one, as
\* in the tests, the first requests run it.
AppInit == /\ Init
           /\ lifespan \in BOOLEAN
           /\ client = lifespan
           /\ open = IF lifespan THEN 1 ELSE 0
           /\ initLock = NoRequest
           /\ pc = [n \in Notices |-> "idle"]
           /\ callbacks = [n \in Notices |-> <<>>]
           /\ committed = {}
           /\ owed = {}

Goto(n, from, to) == pc[n] = from /\ pc' = [pc EXCEPT ![n] = to]

-----------------------------------------------------------------------------
\* get_redis: the client that is there is used; otherwise init_redis makes one.
Arrive(n) ==
    /\ phase = "serving"
    /\ Goto(n, "idle", IF client THEN "work" ELSE "init")
    /\ UNCHANGED <<dispatcherVars, lifespan, redisVars, callbacks, committed, owed>>

\* Mutant: redis_client is not looked at again under the lock.
ConnectAnyway(n) ==
    /\ initLock = NoRequest
    /\ Goto(n, "init", "ping")
    /\ initLock' = n /\ open' = open + 1
    /\ UNCHANGED <<dispatcherVars, lifespan, client, callbacks, committed, owed>>

\* init_redis, under redis_init_lock: the client of whoever held it before is
\* used, or a new one is created and pinged.
Connect(n) ==
    /\ initLock = NoRequest
    /\ \/ /\ client
          /\ Goto(n, "init", "work")
          /\ UNCHANGED <<open, initLock>>
       \/ /\ ~client
          /\ Goto(n, "init", "ping")
          /\ initLock' = n /\ open' = open + 1
    /\ UNCHANGED <<dispatcherVars, lifespan, client, callbacks, committed, owed>>

\* Redis answers, and the client is everybody's.
Pinged(n) ==
    /\ Goto(n, "ping", "work")
    /\ client' = TRUE
    /\ initLock' = NoRequest
    /\ UNCHANGED <<dispatcherVars, lifespan, open, callbacks, committed, owed>>

\* Redis does not: the client is closed, and the request fails.
PingFails(n) ==
    /\ Goto(n, "ping", "over")
    /\ open' = open - 1
    /\ initLock' = NoRequest
    /\ UNCHANGED <<dispatcherVars, lifespan, client, callbacks, committed, owed>>

\* The service registers the invalidation of the cached pages and then the
\* notice, or the first alone, or, if it only reads, nothing.
Work(n) ==
    /\ Goto(n, "work", "commit")
    /\ \E actions \in {<<>>, <<"invalidate">>, <<"invalidate", "notify">>} :
          /\ callbacks' = [callbacks EXCEPT ![n] = actions]
          /\ owed' = IF actions = <<"invalidate", "notify">> THEN owed \cup {n} ELSE owed
    /\ UNCHANGED <<dispatcherVars, lifespan, redisVars, committed>>

\* Mutant: the actions run however the transaction ended.
CommitOrNot(n) ==
    /\ Goto(n, "commit", "callbacks")
    /\ committed' \in {committed, committed \cup {n}}
    /\ UNCHANGED <<dispatcherVars, lifespan, redisVars, callbacks, owed>>

\* get_db: the transaction commits, the session is closed, and post_commit runs.
Commit(n) ==
    /\ Goto(n, "commit", "callbacks")
    /\ committed' = committed \cup {n}
    /\ UNCHANGED <<dispatcherVars, lifespan, redisVars, callbacks, owed>>

\* The service raises, or the commit fails: rollback, and no action runs.
Fail(n) ==
    /\ \/ Goto(n, "work", "over")
       \/ Goto(n, "commit", "over")
    /\ UNCHANGED <<dispatcherVars, lifespan, redisVars, callbacks, committed, owed>>

\* Mutant: an action that fails is the last to run.
InvalidateOrStop(n) ==
    /\ pc[n] = "callbacks" /\ callbacks[n] # <<>> /\ Head(callbacks[n]) = "invalidate"
    /\ \/ callbacks' = [callbacks EXCEPT ![n] = Tail(@)]
       \/ callbacks' = [callbacks EXCEPT ![n] = <<>>]
    /\ UNCHANGED <<dispatcherVars, lifespan, redisVars, pc, committed, owed>>

\* The INCR is applied, or fails; in either case the next action is run.
Invalidate(n) ==
    /\ pc[n] = "callbacks" /\ callbacks[n] # <<>> /\ Head(callbacks[n]) = "invalidate"
    /\ callbacks' = [callbacks EXCEPT ![n] = Tail(@)]
    /\ UNCHANGED <<dispatcherVars, lifespan, redisVars, pc, committed, owed>>

\* The dispatcher takes the notice, or raises, which is logged.
Dispatch(n) ==
    /\ pc[n] = "callbacks" /\ callbacks[n] # <<>> /\ Head(callbacks[n]) = "notify"
    /\ Submit(n) \/ Refuse(n)
    /\ callbacks' = [callbacks EXCEPT ![n] = Tail(@)]
    /\ UNCHANGED <<lifespan, redisVars, pc, committed, owed>>

\* Every action has run.
Finish(n) ==
    /\ callbacks[n] = <<>>
    /\ Goto(n, "callbacks", "over")
    /\ UNCHANGED <<dispatcherVars, lifespan, redisVars, callbacks, committed, owed>>

\* lifespan: the dispatcher is shut down when the server says so.
Close == /\ lifespan
         /\ Shutdown
         /\ UNCHANGED <<lifespan, redisVars, requestVars>>

\* close_redis: the client is closed and forgotten, if there is one.
CloseRedis ==
    /\ Stop
    /\ client' = FALSE
    /\ open' = IF client THEN open - 1 ELSE open
    /\ UNCHANGED <<lifespan, initLock, requestVars>>

-----------------------------------------------------------------------------
Serve(n) == Up /\ \/ Arrive(n) \/ Connect(n) \/ Pinged(n) \/ PingFails(n)
                  \/ Work(n) \/ Commit(n) \/ Fail(n)
RunCallbacks(n) == Up /\ (Invalidate(n) \/ Dispatch(n) \/ Finish(n))

\* The loop, the threads and the shutdown of the dispatcher go their own way.
Background(n) == /\ Loop(n) \/ Thread(n)
                 /\ UNCHANGED <<lifespan, redisVars, requestVars>>
Draining == /\ GraceSuffices \/ GraceEnds \/ Drained
            /\ UNCHANGED <<lifespan, redisVars, requestVars>>

AppNext == \/ \E n \in Notices : Serve(n) \/ RunCallbacks(n) \/ Background(n)
           \/ Close \/ Draining \/ CloseRedis

\* The loop runs what is ready, timers fire, threads take what is queued and their
\* SMTP operations time out.  What has committed is followed by its actions: INCR has
\* a timeout.  Nothing makes a request arrive or the application shut down.
AppFairness ==
    /\ \A n \in Notices :
          /\ WF_appVars(Loop(n) /\ UNCHANGED <<lifespan, redisVars, requestVars>>)
          /\ WF_appVars(Thread(n) /\ UNCHANGED <<lifespan, redisVars, requestVars>>)
          /\ WF_appVars(RunCallbacks(n))
    /\ WF_appVars(Draining \/ CloseRedis)

AppSpec == AppInit /\ [][AppNext]_appVars
AppFairSpec == AppSpec /\ AppFairness

-----------------------------------------------------------------------------
AppTypeOK ==
    /\ TypeOK
    /\ lifespan \in BOOLEAN /\ client \in BOOLEAN
    /\ open \in Nat
    /\ initLock \in Notices \cup {NoRequest}
    /\ pc \in [Notices -> {"idle", "init", "ping", "work", "commit", "callbacks", "over"}]
    /\ callbacks \in [Notices -> {<<>>, <<"invalidate">>, <<"notify">>,
                                  <<"invalidate", "notify">>}]
    /\ committed \subseteq Notices /\ owed \subseteq Notices

\* test_concurrent_get_redis_calls_create_one_client: however many requests find
\* no client at a time and however many pings fail, there is one connection pool,
\* the shared one or the one being tried, and none is left behind.
OneClient == open = IF client \/ initLock # NoRequest THEN 1 ELSE 0

\* No mail is sent about a change that was rolled back.
NoticesAreCommitted == \A n \in Notices : status[n] # "none" => n \in committed \cap owed

\* The notice of a committed request is tried, even if the cache could not be
\* invalidated, unless the application shuts down before it is submitted.
CommittedAreMailed ==
    \A n \in Notices : n \in committed \cap owed ~>
       SendOver(n) \/ status[n] = "refused" \/ phase = "stopped"

\* The notice of a committed request is still among its actions or has reached the
\* dispatcher, however the action before it ended; it is refused only by a shutdown.
NoticesHandedOver ==
    /\ \A n \in committed \cap owed : status[n] = "none" =>
          pc[n] = "callbacks" /\ callbacks[n] \in {<<"notify">>, <<"invalidate", "notify">>}
    /\ \A n \in Notices : status[n] = "refused" => phase # "serving"
-----------------------------------------------------------------------------
\* redis_init_lock is held by the request that pings a client of its own.
LockHeld ==
    /\ \A n \in Notices : pc[n] = "ping" <=> initLock = n
    /\ initLock # NoRequest => ~client

\* A notice waits among the actions of a request that registered it, and actions
\* run for a request that has committed.
ActionsOwed ==
    \A n \in Notices :
       /\ callbacks[n] \in {<<"notify">>, <<"invalidate", "notify">>} => n \in owed
       /\ pc[n] = "callbacks" => n \in committed

AppIInv == AppTypeOK /\ LockHeld /\ OneClient /\ ActionsOwed /\ NoticesAreCommitted

\* What a request has registered and committed at each of its steps.
Progress ==
    \A n \in Notices :
       /\ pc[n] \in {"idle", "init", "ping", "work"} => n \notin owed
       /\ n \in committed => pc[n] \in {"callbacks", "over"}
       /\ pc[n] = "commit" /\ n \in owed => callbacks[n] = <<"invalidate", "notify">>
=============================================================================
