------------------------- MODULE ApplicationProofs -------------------------
(***************************************************************************)
(* Proofs about BackgroundDispatcher and Application, for any notices and  *)
(* requests, any number of threads, with or without a lifespan.            *)
(*                                                                         *)
(* The dispatcher first.  A notice's task is in _tasks while it runs, so   *)
(* the shutdown takes over every running task, and nothing is accepted     *)
(* after that; a task is over only when its send is.  What the shutdown    *)
(* has waited for is then all there is.                                    *)
(*                                                                         *)
(* Every step of the application is a step of the dispatcher or leaves it  *)
(* alone, so that the same holds there.  A client is opened only under     *)
(* redis_init_lock while there is no shared one, and a notice reaches the  *)
(* dispatcher only from the actions of a request that has committed.       *)
(***************************************************************************)
EXTENDS Application, TLAPS

USE NoRequestIsNone DEF Up, Running, Done, SendOver

-----------------------------------------------------------------------------
(* The dispatcher.                                                         *)

\* Before anything is submitted.
LEMMA InitIInv == Init => IInv
BY DEF Init, IInv, TypeOK, Sends, Tracked

\* A request submits a notice, or is refused while the application stops.
LEMMA RequestSteps ==
    ASSUME IInv, NEW n \in Notices, Request(n)
    PROVE  IInv'
<1>1. CASE Submit(n)
  <2>1. TypeOK'
    BY <1>1 DEF IInv, TypeOK, Submit
  <2>2. Sends'
    BY <1>1 DEF IInv, TypeOK, Sends, Submit
  <2>3. Tracked'
    BY <1>1 DEF IInv, TypeOK, Tracked, Submit
  <2>4. QED
    BY <2>1, <2>2, <2>3 DEF IInv
<1>2. CASE Refuse(n)
  <2>1. TypeOK'
    BY <1>2 DEF IInv, TypeOK, Refuse
  <2>2. Sends'
    BY <1>2 DEF IInv, TypeOK, Sends, Refuse
  <2>3. Tracked'
    BY <1>2 DEF IInv, TypeOK, Tracked, Refuse
  <2>4. QED
    BY <2>1, <2>2, <2>3 DEF IInv
<1>3. QED
  BY <1>1, <1>2 DEF Request

\* The event loop runs a step of a task or of its send.
LEMMA LoopSteps ==
    ASSUME IInv, NEW n \in Notices, Loop(n)
    PROVE  IInv'
<1>1. TypeOK'
  BY DEF IInv, TypeOK, Loop, Begin, Enqueue, Resume, SeeCancel, Drain, Discard
<1>2. Sends'
  <2>1. CASE Begin(n)
    BY <2>1 DEF IInv, TypeOK, Sends, Begin
  <2>2. CASE Enqueue(n)
    BY <2>2 DEF IInv, TypeOK, Sends, Enqueue
  <2>3. CASE Resume(n)
    BY <2>3 DEF IInv, TypeOK, Sends, Resume
  <2>4. CASE SeeCancel(n)
    BY <2>4 DEF IInv, TypeOK, Sends, SeeCancel
  <2>5. CASE Drain(n)
    BY <2>5 DEF IInv, TypeOK, Sends, Drain
  <2>6. CASE Discard(n)
    BY <2>6 DEF IInv, TypeOK, Sends, Discard
  <2>7. QED
    BY <2>1, <2>2, <2>3, <2>4, <2>5, <2>6 DEF Loop
<1>3. Tracked'
  <2>1. CASE Begin(n)
    BY <2>1 DEF IInv, TypeOK, Tracked, Begin
  <2>2. CASE Enqueue(n)
    BY <2>2 DEF IInv, TypeOK, Tracked, Enqueue
  <2>3. CASE Resume(n)
    BY <2>3 DEF IInv, TypeOK, Tracked, Resume
  <2>4. CASE SeeCancel(n)
    BY <2>4 DEF IInv, TypeOK, Tracked, SeeCancel
  <2>5. CASE Drain(n)
    BY <2>5 DEF IInv, TypeOK, Tracked, Drain
  <2>6. CASE Discard(n)
    BY <2>6 DEF IInv, TypeOK, Tracked, Discard
  <2>7. QED
    BY <2>1, <2>2, <2>3, <2>4, <2>5, <2>6 DEF Loop
<1>4. QED
  BY <1>1, <1>2, <1>3 DEF IInv

\* A thread takes up a conversation, or ends it: the task does not notice yet.
LEMMA ThreadSteps ==
    ASSUME IInv, NEW n \in Notices, Thread(n)
    PROVE  IInv'
<1>1. TypeOK'
  BY DEF IInv, TypeOK, Thread, Converse, EndConversation
<1>2. Sends'
  <2>1. CASE Converse(n)
    BY <2>1 DEF IInv, TypeOK, Sends, Converse
  <2>2. CASE EndConversation(n)
    BY <2>2 DEF IInv, TypeOK, Sends, EndConversation
  <2>3. QED
    BY <2>1, <2>2 DEF Thread
<1>3. Tracked'
  BY DEF IInv, TypeOK, Tracked, Thread, Converse, EndConversation
<1>4. QED
  BY <1>1, <1>2, <1>3 DEF IInv

\* The shutdown begins: it takes over all running tasks, or there are none.
LEMMA ShutdownSteps ==
    ASSUME IInv, Shutdown
    PROVE  IInv'
<1>1. TypeOK'
  BY DEF IInv, TypeOK, Shutdown, taskVars
<1>2. Sends'
  BY DEF IInv, Sends, Shutdown, taskVars
<1>3. Tracked'
  BY DEF IInv, TypeOK, Tracked, Shutdown, taskVars
<1>4. QED
  BY <1>1, <1>2, <1>3 DEF IInv

\* The shutdown goes on: tasks are given up on only when they are over.
LEMMA ClosingSteps ==
    ASSUME IInv, Closing
    PROVE  IInv'
<1>1. TypeOK'
  BY DEF IInv, TypeOK, Closing, GraceSuffices, GraceEnds, Drained, Stop, taskVars,
         Unfinished
<1>2. Sends'
  BY DEF IInv, Sends, Closing, GraceSuffices, GraceEnds, Drained, Stop, taskVars
<1>3. Tracked'
  BY DEF IInv, TypeOK, Tracked, Closing, GraceSuffices, GraceEnds, Drained, Stop,
         taskVars, Unfinished
<1>4. QED
  BY <1>1, <1>2, <1>3 DEF IInv

\* A step that changes nothing.
LEMMA StutterIInv ==
    ASSUME IInv, UNCHANGED vars
    PROVE  IInv'
BY DEF IInv, TypeOK, Sends, Tracked, vars, taskVars

\* The inductive invariant of the dispatcher (background.py).
THEOREM Invariance == Spec => []IInv
<1>1. IInv /\ [Next]_vars => IInv'
  BY RequestSteps, LoopSteps, ThreadSteps, ShutdownSteps, ClosingSteps, StutterIInv
  DEF Next
<1>2. QED
  BY InitIInv, <1>1, PTL DEF Spec

\* Every variable of the dispatcher keeps its type.
THEOREM TypeCorrectness == Spec => []TypeOK
<1>1. IInv => TypeOK
  BY DEF IInv
<1>2. QED
  BY Invariance, <1>1, PTL

\* When shutdown (background.py) returns, no task runs and no thread is sending.
THEOREM Quiescence == Spec => []QuietAfterShutdown
<1>1. IInv => QuietAfterShutdown
  BY DEF IInv, TypeOK, Sends, Tracked, QuietAfterShutdown
<1>2. QED
  BY Invariance, <1>1, PTL

\* No notice that submit accepted is dropped by the shutdown: its mail was tried.
THEOREM NothingDropped == Spec => []AcceptedAreTried
<1>1. IInv => AcceptedAreTried
  BY DEF IInv, TypeOK, Sends, Tracked, AcceptedAreTried
<1>2. QED
  BY Invariance, <1>1, PTL

-----------------------------------------------------------------------------
(* The application around it.                                              *)

\* Before the first request.
LEMMA AppInitIInv == AppInit => AppIInv
BY DEF AppInit, Init, AppIInv, AppTypeOK, TypeOK, LockHeld, OneClient, ActionsOwed,
       NoticesAreCommitted

-----------------------------------------------------------------------------
\* Requests run on their own, but for submitting their notice.
LEMMA ServeStep ==
    ASSUME NEW n \in Notices, Serve(n)
    PROVE  UNCHANGED vars
BY DEF Serve, Arrive, Connect, Pinged, PingFails, Work, Commit, Fail, dispatcherVars

\* The actions of a request submit its notice, or leave the dispatcher alone.
LEMMA CallbackStep ==
    ASSUME NEW n \in Notices, RunCallbacks(n)
    PROVE  Request(n) \/ UNCHANGED vars
BY DEF RunCallbacks, Invalidate, Dispatch, Finish, Refuse, Request, dispatcherVars

\* Every step of the application is a step of the dispatcher, or none of its own.
LEMMA DispatcherStep ==
    ASSUME [AppNext]_appVars
    PROVE  [Next]_vars
<1>1. ASSUME NEW n \in Notices, Serve(n)
      PROVE  UNCHANGED vars
  BY <1>1, ServeStep
<1>2. ASSUME NEW n \in Notices, RunCallbacks(n)
      PROVE  [Next]_vars
  BY <1>2, CallbackStep DEF Next
<1>3. ASSUME NEW n \in Notices, Background(n)
      PROVE  Next
  BY <1>3 DEF Background, Next
<1>4. CASE Close
  BY <1>4 DEF Close, Next
<1>5. CASE Draining
  BY <1>5 DEF Draining, Next, Closing
<1>6. CASE CloseRedis
  BY <1>6 DEF CloseRedis, Next, Closing
<1>7. CASE UNCHANGED appVars
  BY <1>7 DEF appVars, dispatcherVars
<1>8. QED
  BY <1>1, <1>2, <1>3, <1>4, <1>5, <1>6, <1>7 DEF AppNext

\* The application uses the dispatcher (background.py) as its module says it is
\* used: submissions and a shutdown at any time, in any order.
LEMMA AppRefinement == AppSpec => Spec
<1>1. AppInit => Init
  BY DEF AppInit
<1>2. QED
  BY <1>1, DispatcherStep, PTL DEF AppSpec, Spec

\* When shutdown returns within the application, nothing of it is left running.
THEOREM AppQuiescence == AppSpec => []QuietAfterShutdown
BY AppRefinement, Quiescence, PTL

\* Every notice the dispatcher accepted from a request was tried by the end.
THEOREM AppNothingDropped == AppSpec => []AcceptedAreTried
BY AppRefinement, NothingDropped, PTL
-----------------------------------------------------------------------------
\* What the actions of a request may be once the first of them has run.
LEMMA RestOfActions ==
    ASSUME NEW cb \in {<<>>, <<"invalidate">>, <<"notify">>, <<"invalidate", "notify">>},
           cb # <<>>
    PROVE  /\ Tail(cb) \in {<<>>, <<"notify">>}
           /\ Tail(cb) = <<"notify">> => cb = <<"invalidate", "notify">>
           /\ Head(cb) = "notify" => cb = <<"notify">>
<1>1. CASE cb = <<"invalidate">>
  BY <1>1
<1>2. CASE cb = <<"notify">>
  BY <1>2
<1>3. CASE cb = <<"invalidate", "notify">>
  BY <1>3
<1>4. QED
  BY <1>1, <1>2, <1>3

\* The dispatcher keeps the types of its own variables.
LEMMA DispatcherTypes ==
    ASSUME IInv, [AppNext]_appVars
    PROVE  IInv'
BY DispatcherStep, RequestSteps, LoopSteps, ThreadSteps, ShutdownSteps, ClosingSteps,
   StutterIInv DEF Next

\* A request serves its client up to the end of its transaction.
LEMMA ServeKeeps ==
    ASSUME AppIInv, TypeOK', NEW n \in Notices, Serve(n)
    PROVE  AppIInv'
<1>. USE DEF AppIInv
<1>1. UNCHANGED vars
  BY ServeStep
<1>2. CASE Arrive(n)
  <2>1. AppTypeOK' /\ LockHeld' /\ OneClient'
    BY <1>2 DEF AppTypeOK, LockHeld, OneClient, Arrive, Goto, redisVars
  <2>2. ActionsOwed' /\ NoticesAreCommitted'
    BY <1>1, <1>2 DEF AppTypeOK, ActionsOwed, NoticesAreCommitted, Arrive, Goto, vars, taskVars
  <2>3. QED
    BY <2>1, <2>2
<1>3. CASE Connect(n)
  <2>1. AppTypeOK' /\ LockHeld' /\ OneClient'
    BY <1>3 DEF AppTypeOK, LockHeld, OneClient, Connect, Goto
  <2>2. ActionsOwed' /\ NoticesAreCommitted'
    BY <1>1, <1>3 DEF AppTypeOK, ActionsOwed, NoticesAreCommitted, Connect, Goto, vars, taskVars
  <2>3. QED
    BY <2>1, <2>2
<1>4. CASE Pinged(n)
  <2>1. AppTypeOK' /\ LockHeld' /\ OneClient'
    BY <1>4 DEF AppTypeOK, LockHeld, OneClient, Pinged, Goto
  <2>2. ActionsOwed' /\ NoticesAreCommitted'
    BY <1>1, <1>4 DEF AppTypeOK, ActionsOwed, NoticesAreCommitted, Pinged, Goto, vars, taskVars
  <2>3. QED
    BY <2>1, <2>2
<1>5. CASE PingFails(n)
  <2>1. AppTypeOK' /\ LockHeld' /\ OneClient'
    BY <1>5 DEF AppTypeOK, LockHeld, OneClient, PingFails, Goto
  <2>2. ActionsOwed' /\ NoticesAreCommitted'
    BY <1>1, <1>5 DEF AppTypeOK, ActionsOwed, NoticesAreCommitted, PingFails, Goto, vars, taskVars
  <2>3. QED
    BY <2>1, <2>2
<1>6. CASE Work(n)
  <2>1. AppTypeOK' /\ LockHeld' /\ OneClient'
    BY <1>6 DEF AppTypeOK, LockHeld, OneClient, Work, Goto, redisVars
  <2>2. ActionsOwed' /\ NoticesAreCommitted'
    BY <1>1, <1>6 DEF AppTypeOK, ActionsOwed, NoticesAreCommitted, Work, Goto, vars, taskVars
  <2>3. QED
    BY <2>1, <2>2
<1>7. CASE Commit(n)
  <2>1. AppTypeOK' /\ LockHeld' /\ OneClient'
    BY <1>7 DEF AppTypeOK, LockHeld, OneClient, Commit, Goto, redisVars
  <2>2. ActionsOwed' /\ NoticesAreCommitted'
    BY <1>1, <1>7 DEF AppTypeOK, ActionsOwed, NoticesAreCommitted, Commit, Goto, vars, taskVars
  <2>3. QED
    BY <2>1, <2>2
<1>8. CASE Fail(n)
  <2>1. AppTypeOK' /\ LockHeld' /\ OneClient'
    BY <1>8 DEF AppTypeOK, LockHeld, OneClient, Fail, Goto, redisVars
  <2>2. ActionsOwed' /\ NoticesAreCommitted'
    BY <1>1, <1>8 DEF AppTypeOK, ActionsOwed, NoticesAreCommitted, Fail, Goto, vars, taskVars
  <2>3. QED
    BY <2>1, <2>2
<1>9. QED
  BY <1>2, <1>3, <1>4, <1>5, <1>6, <1>7, <1>8 DEF Serve

\* The actions run one after the other, and only the second submits a notice.
LEMMA CallbacksKeep ==
    ASSUME AppIInv, TypeOK', NEW n \in Notices, RunCallbacks(n)
    PROVE  AppIInv'
<1>. USE DEF AppIInv
<1>1. UNCHANGED <<client, open, initLock, lifespan, committed, owed>>
  BY DEF RunCallbacks, Invalidate, Dispatch, Finish, redisVars
<1>2. LockHeld' /\ OneClient'
  BY <1>1 DEF AppTypeOK, LockHeld, OneClient, RunCallbacks, Invalidate, Dispatch, Finish, Goto
<1>3. CASE Invalidate(n)
  <2>1. Tail(callbacks[n]) \in {<<>>, <<"notify">>}
        /\ (Tail(callbacks[n]) = <<"notify">> => callbacks[n] = <<"invalidate", "notify">>)
    BY <1>3, RestOfActions DEF Invalidate, AppTypeOK
  <2>2. AppTypeOK'
    BY <1>1, <1>3, <2>1 DEF AppTypeOK, Invalidate
  <2>3. ActionsOwed'
    BY <1>1, <1>3, <2>1 DEF AppTypeOK, ActionsOwed, Invalidate
  <2>5. NoticesAreCommitted'
    BY <1>1, <1>3 DEF NoticesAreCommitted, Invalidate, dispatcherVars, vars, taskVars
  <2>6. QED
    BY <1>2, <2>2, <2>3, <2>5
<1>4. CASE Dispatch(n)
  <2>1. /\ Tail(callbacks[n]) \in {<<>>, <<"notify">>}
        /\ Tail(callbacks[n]) = <<"notify">> => callbacks[n] = <<"invalidate", "notify">>
        /\ callbacks[n] = <<"notify">>
    BY <1>4, RestOfActions DEF Dispatch, AppTypeOK
  <2>2. AppTypeOK'
    BY <1>1, <1>4, <2>1 DEF AppTypeOK, Dispatch
  <2>3. ActionsOwed'
    BY <1>4, <2>1 DEF AppTypeOK, ActionsOwed, Dispatch
  <2>4. n \in committed \cap owed
    BY <1>4, <2>1 DEF ActionsOwed, Dispatch
  <2>5. NoticesAreCommitted'
    BY <1>1, <1>4, <2>4 DEF AppTypeOK, TypeOK, NoticesAreCommitted, Dispatch, Submit, Refuse
  <2>6. QED
    BY <1>2, <2>2, <2>3, <2>5
<1>5. CASE Finish(n)
  <2>1. AppTypeOK'
    BY <1>1, <1>5 DEF AppTypeOK, Finish, Goto
  <2>2. ActionsOwed' /\ NoticesAreCommitted'
    BY <1>5 DEF AppTypeOK, ActionsOwed, NoticesAreCommitted, Finish, Goto, dispatcherVars, vars,
                taskVars
  <2>3. QED
    BY <1>2, <2>1, <2>2
<1>6. QED
  BY <1>3, <1>4, <1>5 DEF RunCallbacks

\* The dispatcher and its shutdown run without the requests.
LEMMA OthersKeep ==
    ASSUME AppIInv, IInv, TypeOK',
           (\E n \in Notices : Background(n)) \/ Close \/ Draining \/ CloseRedis
    PROVE  AppIInv'
<1>. USE DEF AppIInv
<1>1. UNCHANGED <<lifespan, initLock, requestVars>>
  BY DEF Background, Close, Draining, CloseRedis, redisVars
<1>2. AppTypeOK' /\ LockHeld' /\ OneClient'
  <2>1. CASE CloseRedis
    <3>1. client' = FALSE /\ open' = IF client THEN open - 1 ELSE open
      BY <2>1 DEF CloseRedis
    <3>2. CASE client
      <4>1. initLock = NoRequest /\ open = 1
        BY <3>2 DEF LockHeld, OneClient
      <4>2. initLock' = NoRequest /\ open' = 0 /\ client' = FALSE
        BY <1>1, <3>1, <3>2, <4>1
      <4>3. AppTypeOK'
        BY <1>1, <4>2 DEF AppTypeOK, requestVars
      <4>4. LockHeld'
        BY <1>1, <3>1 DEF LockHeld, requestVars
      <4>5. OneClient'
        BY <4>2 DEF OneClient
      <4>6. QED
        BY <4>3, <4>4, <4>5
    <3>3. CASE ~client
      BY <1>1, <3>1, <3>3 DEF AppTypeOK, LockHeld, OneClient, requestVars
    <3>4. QED
      BY <3>2, <3>3
  <2>2. CASE ~CloseRedis
    <3>1. UNCHANGED redisVars
      BY <2>2 DEF Background, Close, Draining
    <3>2. QED
      BY <1>1, <3>1 DEF AppTypeOK, LockHeld, OneClient, redisVars, requestVars
  <2>3. QED
    BY <2>1, <2>2
<1>3. ActionsOwed'
  BY <1>1 DEF ActionsOwed, requestVars
<1>4. \A m \in Notices : status[m] = "none" => status'[m] = "none"
  BY DEF IInv, TypeOK, Background, Loop, Thread, Begin, Enqueue, Resume, SeeCancel, Drain, Discard,
         Converse, EndConversation, Close, Shutdown, Draining, GraceSuffices, GraceEnds,
         Drained, CloseRedis, Stop, taskVars
<1>5. NoticesAreCommitted'
  BY <1>1, <1>4 DEF NoticesAreCommitted, requestVars
<1>6. QED
  BY <1>2, <1>3, <1>5

\* The inductive invariant of the application: who holds redis_init_lock, and
\* what the actions of a request stand for (session.py, post_commit.py).
THEOREM AppInvariance == AppSpec => [](AppIInv /\ IInv)
<1>1. AppInit => AppIInv /\ IInv
  BY AppInitIInv, InitIInv DEF AppInit
<1>2. ASSUME AppIInv, IInv, [AppNext]_appVars
      PROVE  AppIInv' /\ IInv'
  <2>1. IInv'
    BY <1>2, DispatcherTypes
  <2>2. TypeOK'
    BY <2>1 DEF IInv
  <2>3. CASE UNCHANGED appVars
    <3>1. AppTypeOK' /\ LockHeld' /\ OneClient' /\ ActionsOwed'
      BY <1>2, <2>2, <2>3 DEF appVars, redisVars, requestVars, AppIInv, AppTypeOK, LockHeld,
                              OneClient, ActionsOwed
    <3>2. NoticesAreCommitted'
      BY <1>2, <2>3 DEF appVars, dispatcherVars, vars, taskVars, requestVars, AppIInv,
                        NoticesAreCommitted
    <3>3. QED
      BY <2>1, <3>1, <3>2 DEF AppIInv
  <2>4. QED
    BY <1>2, <2>1, <2>2, <2>3, ServeKeeps, CallbacksKeep, OthersKeep DEF AppNext
<1>3. QED
  BY <1>1, <1>2, PTL DEF AppSpec

\* Every variable of the application keeps its type.
THEOREM AppTypes == AppSpec => []AppTypeOK
<1>1. AppIInv => AppTypeOK
  BY DEF AppIInv
<1>2. QED
  BY AppInvariance, <1>1, PTL

\* One Redis client is open at most, and none is left behind (init_redis).
THEOREM AppOneClient == AppSpec => []OneClient
<1>1. AppIInv => OneClient
  BY DEF AppIInv
<1>2. QED
  BY AppInvariance, <1>1, PTL

\* A notice is submitted only for a committed change (get_db, PostCommitActions).
THEOREM AppNoticesAreCommitted == AppSpec => []NoticesAreCommitted
<1>1. AppIInv => NoticesAreCommitted
  BY DEF AppIInv
<1>2. QED
  BY AppInvariance, <1>1, PTL
-----------------------------------------------------------------------------
(* What becomes of the notice of a committed request.                      *)

\* A request that has its notice among its actions has it there until it submits it.
LEMMA ServeHandsOver ==
    ASSUME AppIInv, Progress, NoticesHandedOver, NEW n \in Notices, Serve(n)
    PROVE  Progress' /\ NoticesHandedOver'
<1>1. UNCHANGED <<status, phase>>
  BY ServeStep DEF vars, taskVars
<1>2. /\ AppTypeOK
      /\ \A m \in Notices : m # n => /\ pc'[m] = pc[m] /\ callbacks'[m] = callbacks[m]
                                     /\ m \in owed' <=> m \in owed
                                     /\ m \in committed' <=> m \in committed
  BY DEF AppIInv, AppTypeOK, Serve, Arrive, Connect, Pinged, PingFails, Work, Commit, Fail, Goto
<1>3. /\ pc[n] \in {"idle", "init", "ping", "work", "commit"}
      /\ pc'[n] \in {"init", "ping", "work", "commit", "callbacks", "over"}
      /\ n \notin committed
  BY <1>2 DEF AppTypeOK, Progress, Serve, Arrive, Connect, Pinged, PingFails, Work, Commit, Fail,
              Goto
<1>4. /\ pc'[n] \in {"init", "ping", "work"} => n \notin owed'
      /\ n \in committed' => pc'[n] = "callbacks"
      /\ pc'[n] = "commit" /\ n \in owed' => callbacks'[n] = <<"invalidate", "notify">>
      /\ n \in committed' /\ n \in owed' => callbacks'[n] = <<"invalidate", "notify">>
  <2>1. CASE Work(n)
    BY <1>2, <1>3, <2>1 DEF AppTypeOK, Progress, Work, Goto
  <2>2. CASE Commit(n)
    BY <1>2, <1>3, <2>2 DEF AppTypeOK, Progress, Commit, Goto
  <2>3. CASE Fail(n)
    BY <1>2, <1>3, <2>3 DEF AppTypeOK, Progress, Fail, Goto
  <2>4. CASE Arrive(n) \/ Connect(n) \/ Pinged(n) \/ PingFails(n)
    BY <1>2, <1>3, <2>4 DEF AppTypeOK, Progress, Arrive, Connect, Pinged, PingFails, Goto
  <2> QED
    BY <2>1, <2>2, <2>3, <2>4 DEF Serve
<1>5. Progress'
  BY <1>2, <1>3, <1>4 DEF Progress
<1>6. NoticesHandedOver'
  <2>1. ASSUME NEW m \in committed' \cap owed', status'[m] = "none"
        PROVE  pc'[m] = "callbacks" /\ callbacks'[m] \in {<<"notify">>, <<"invalidate", "notify">>}
    <3>1. m \in Notices
      BY <1>2, <2>1 DEF AppTypeOK, Serve, Arrive, Connect, Pinged, PingFails, Work, Commit, Fail
    <3> QED
      BY <1>1, <1>2, <1>4, <2>1, <3>1 DEF NoticesHandedOver
  <2> QED
    BY <1>1, <2>1 DEF NoticesHandedOver
<1> QED
  BY <1>5, <1>6

\* The invalidation leaves the notice to be run, and the notice reaches the dispatcher.
LEMMA CallbacksHandOver ==
    ASSUME AppIInv, IInv, Progress, NoticesHandedOver, NEW n \in Notices, RunCallbacks(n)
    PROVE  Progress' /\ NoticesHandedOver'
<1>1. /\ AppTypeOK /\ TypeOK /\ pc[n] = "callbacks"
      /\ UNCHANGED <<committed, owed, phase>>
  BY DEF AppIInv, AppTypeOK, RunCallbacks, Invalidate, Dispatch, Finish, Goto, Submit, Refuse,
         dispatcherVars, vars
<1>2. /\ pc'[n] \in {"callbacks", "over"}
      /\ \A m \in Notices : m # n => /\ pc'[m] = pc[m] /\ callbacks'[m] = callbacks[m]
                                     /\ status'[m] = status[m]
  BY <1>1 DEF AppTypeOK, TypeOK, RunCallbacks, Invalidate, Dispatch, Finish, Goto, Submit,
              Refuse, dispatcherVars, vars, taskVars
<1>3. Progress'
  BY <1>1, <1>2 DEF Progress, AppTypeOK
<1>4. n \in committed \cap owed /\ status'[n] = "none" =>
         pc'[n] = "callbacks" /\ callbacks'[n] \in {<<"notify">>, <<"invalidate", "notify">>}
  <2>1. CASE Invalidate(n)
    <3>1. /\ UNCHANGED <<pc, status>> /\ Head(callbacks[n]) = "invalidate"
          /\ callbacks'[n] = Tail(callbacks[n])
      BY <1>1, <2>1 DEF AppTypeOK, Invalidate, dispatcherVars, vars, taskVars
    <3>2. n \in committed \cap owed /\ status[n] = "none" =>
             callbacks[n] \in {<<"notify">>, <<"invalidate", "notify">>}
      BY DEF NoticesHandedOver
    <3>3. Head(<<"notify">>) = "notify" /\ Tail(<<"invalidate", "notify">>) = <<"notify">>
      OBVIOUS
    <3> QED
      BY <1>1, <3>1, <3>2, <3>3
  <2>2. CASE Dispatch(n)
    BY <1>1, <2>2 DEF TypeOK, Dispatch, Submit, Refuse
  <2>3. CASE Finish(n)
    <3>1. callbacks[n] = <<>> /\ UNCHANGED status
      BY <2>3 DEF Finish, dispatcherVars, vars, taskVars
    <3>2. ~(n \in committed \cap owed /\ status[n] = "none")
      BY <3>1 DEF NoticesHandedOver
    <3> QED
      BY <3>1, <3>2
  <2> QED
    BY <2>1, <2>2, <2>3 DEF RunCallbacks
<1>5. status'[n] = "refused" => phase # "serving"
  <2>1. CASE Dispatch(n)
    BY <1>1, <2>1 DEF IInv, TypeOK, Tracked, NoticesHandedOver, Dispatch, Submit, Refuse
  <2>2. CASE Invalidate(n) \/ Finish(n)
    BY <2>2 DEF NoticesHandedOver, Invalidate, Finish, dispatcherVars, vars, taskVars
  <2> QED
    BY <2>1, <2>2 DEF RunCallbacks
<1>6. NoticesHandedOver'
  <2>1. ASSUME NEW m \in committed \cap owed, status'[m] = "none"
        PROVE  pc'[m] = "callbacks" /\ callbacks'[m] \in {<<"notify">>, <<"invalidate", "notify">>}
    <3>1. m \in Notices
      BY <1>1 DEF AppTypeOK
    <3> QED
      BY <1>2, <1>4, <2>1, <3>1 DEF NoticesHandedOver
  <2>2. ASSUME NEW m \in Notices, status'[m] = "refused" PROVE phase # "serving"
    BY <1>2, <1>5, <2>2 DEF NoticesHandedOver
  <2> QED
    BY <1>1, <2>1, <2>2 DEF NoticesHandedOver
<1> QED
  BY <1>3, <1>6

\* The dispatcher takes up no notice that was not submitted, refuses none, and does not reopen.
LEMMA OthersHandOver ==
    ASSUME AppIInv, IInv, Progress, NoticesHandedOver,
           (\E n \in Notices : Background(n)) \/ Close \/ Draining \/ CloseRedis
    PROVE  Progress' /\ NoticesHandedOver'
<1>1. UNCHANGED requestVars
  BY DEF Background, Close, Draining, CloseRedis
<1>2. /\ \A m \in Notices : /\ status'[m] = "none" => status[m] = "none"
                            /\ status'[m] = "refused" => status[m] = "refused"
      /\ phase # "serving" => phase' # "serving"
  BY DEF IInv, TypeOK, Background, Loop, Thread, Begin, Enqueue, Resume, SeeCancel, Drain, Discard,
         Converse, EndConversation, Close, Shutdown, Draining, GraceSuffices, GraceEnds,
         Drained, CloseRedis, Stop, taskVars
<1>3. Progress'
  BY <1>1 DEF Progress, requestVars
<1>4. \A m \in committed \cap owed : m \in Notices
  BY DEF AppIInv, AppTypeOK
<1>5. NoticesHandedOver'
  BY <1>1, <1>2, <1>4 DEF NoticesHandedOver, requestVars
<1> QED
  BY <1>3, <1>5

\* A committed request hands its notice over (PostCommitActions.run), whatever became of the
\* invalidation before it, and the dispatcher refuses it only while it shuts down.
THEOREM AppHandsOver == AppSpec => []NoticesHandedOver
<1>1. AppInit => Progress /\ NoticesHandedOver
  BY DEF AppInit, Init, Progress, NoticesHandedOver
<1>2. ASSUME AppIInv, IInv, Progress, NoticesHandedOver, [AppNext]_appVars
      PROVE  Progress' /\ NoticesHandedOver'
  <2>1. CASE UNCHANGED appVars
    BY <1>2, <2>1 DEF appVars, dispatcherVars, vars, taskVars, requestVars, Progress,
                      NoticesHandedOver
  <2> QED
    BY <1>2, <2>1, ServeHandsOver, CallbacksHandOver, OthersHandOver DEF AppNext
<1> QED
  BY AppInvariance, <1>1, <1>2, PTL DEF AppSpec
=============================================================================
