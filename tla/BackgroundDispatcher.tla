------------------------ MODULE BackgroundDispatcher ------------------------
(***************************************************************************)
(* The dispatcher of assignment notices, the mail notifier it runs, and    *)
(* the shutdown of the application.                                        *)
(*                                                                         *)
(* A notice becomes an asyncio task.  The task starts a second one, the    *)
(* send, which hands a blocking SMTP conversation to a thread, and waits   *)
(* for it behind a shield.  Cancelling the task does not reach the send:   *)
(* the notifier waits for it and only then lets the cancellation through.  *)
(* The event loop takes one step at a time; threads run on their own.      *)
(***************************************************************************)
EXTENDS FiniteSets, Naturals

CONSTANTS Notices,     \* notices that post-commit actions may submit
          Threads      \* size of the loop's default executor

ASSUME ExecutorSize == Threads \in Nat \ {0}

VARIABLES accepting,   \* _accepting_tasks
          tasks,       \* _tasks
          status,      \* where the task of each notice is
          send,        \* where its send is
          cancelling,  \* tasks that cancel() was called on and that have yet to see it
          phase,       \* where the shutdown is
          watched      \* the tasks that the shutdown waits for

taskVars == <<tasks, status, send, cancelling>>
vars == <<accepting, taskVars, phase, watched>>

Init == /\ accepting = TRUE
        /\ tasks = {}
        /\ status = [n \in Notices |-> "none"]
        /\ send = [n \in Notices |-> "none"]
        /\ cancelling = {}
        /\ phase = "serving"
        /\ watched = {}

\* A task ends when it returns or is cancelled: _run lets no failure escape.
Running(n)  == status[n] \in {"ready", "waiting", "draining"}
Done(n)     == status[n] \in {"returned", "cancelled"}
SendOver(n) == send[n] \in {"sent", "lost"}

-----------------------------------------------------------------------------
\* submit: a task is created, to begin at a later step of the loop.
Submit(n) ==
    /\ accepting /\ status[n] = "none"
    /\ status' = [status EXCEPT ![n] = "ready"]
    /\ tasks' = tasks \cup {n}
    /\ UNCHANGED <<accepting, send, cancelling, phase, watched>>

\* submit during or after the shutdown raises; the post-commit action logs it.
Refuse(n) ==
    /\ ~accepting /\ status[n] = "none"
    /\ status' = [status EXCEPT ![n] = "refused"]
    /\ UNCHANGED <<accepting, tasks, send, cancelling, phase, watched>>

\* notify_task_assigned: the send is created, and the task waits for it.
Begin(n) ==
    /\ status[n] = "ready"
    /\ status' = [status EXCEPT ![n] = "waiting"]
    /\ send' = [send EXCEPT ![n] = "ready"]
    /\ UNCHANGED <<accepting, tasks, cancelling, phase, watched>>

\* asyncio.to_thread: the conversation is queued for a thread.
Enqueue(n) ==
    /\ send[n] = "ready"
    /\ send' = [send EXCEPT ![n] = "queued"]
    /\ UNCHANGED <<accepting, tasks, status, cancelling, phase, watched>>

\* A thread of the executor takes it up.
Converse(n) ==
    /\ send[n] = "queued"
    /\ Cardinality({m \in Notices : send[m] = "conversing"}) < Threads
    /\ send' = [send EXCEPT ![n] = "conversing"]
    /\ UNCHANGED <<accepting, tasks, status, cancelling, phase, watched>>

\* Mutant: without a timeout, a silent server is waited for.
NoTimeout(n) ==
    /\ send[n] = "conversing"
    /\ \E outcome \in {"sent", "hung"} : send' = [send EXCEPT ![n] = outcome]
    /\ UNCHANGED <<accepting, tasks, status, cancelling, phase, watched>>

\* _send_message returns, or raises: each SMTP operation has a timeout.
EndConversation(n) ==
    /\ send[n] = "conversing"
    /\ \E outcome \in {"sent", "lost"} : send' = [send EXCEPT ![n] = outcome]
    /\ UNCHANGED <<accepting, tasks, status, cancelling, phase, watched>>

\* Mutant: a failure of the send escapes from the task.
ResumeRaising(n) ==
    /\ status[n] = "waiting" /\ n \notin cancelling
    /\ SendOver(n)
    /\ status' = [status EXCEPT ![n] = IF send[n] = "sent" THEN "returned" ELSE "raised"]
    /\ UNCHANGED <<accepting, tasks, send, cancelling, phase, watched>>

\* The task sees the outcome of the send; _run logs a failure and returns.
Resume(n) ==
    /\ status[n] = "waiting" /\ n \notin cancelling
    /\ SendOver(n)
    /\ status' = [status EXCEPT ![n] = "returned"]
    /\ UNCHANGED <<accepting, tasks, send, cancelling, phase, watched>>

\* Mutant: the cancellation is let through at once.
LetThrough(n) ==
    /\ status[n] = "waiting" /\ n \in cancelling
    /\ cancelling' = cancelling \ {n}
    /\ status' = [status EXCEPT ![n] = "cancelled"]
    /\ UNCHANGED <<accepting, tasks, send, phase, watched>>

\* Mutant: there is no shield, and the send is cancelled unless it has a thread.
CancelSend(n) ==
    /\ status[n] = "waiting" /\ n \in cancelling
    /\ cancelling' = cancelling \ {n}
    /\ status' = [status EXCEPT ![n] = "cancelled"]
    /\ send' = [send EXCEPT ![n] = IF @ \in {"ready", "queued"} THEN "none" ELSE @]
    /\ UNCHANGED <<accepting, tasks, phase, watched>>

\* The task sees the cancellation at the shield, and waits for the send.
SeeCancel(n) ==
    /\ status[n] = "waiting" /\ n \in cancelling
    /\ cancelling' = cancelling \ {n}
    /\ status' = [status EXCEPT ![n] = "draining"]
    /\ UNCHANGED <<accepting, tasks, send, phase, watched>>

\* The send is over, however it ended: the cancellation is raised again.
Drain(n) ==
    /\ status[n] = "draining"
    /\ SendOver(n)
    /\ status' = [status EXCEPT ![n] = "cancelled"]
    /\ UNCHANGED <<accepting, tasks, send, cancelling, phase, watched>>

\* The done callback of the task.
Discard(n) ==
    /\ n \in tasks /\ Done(n)
    /\ tasks' = tasks \ {n}
    /\ UNCHANGED <<accepting, status, send, cancelling, phase, watched>>

-----------------------------------------------------------------------------
\* shutdown: no task is accepted any more; those there are get time to end.
Shutdown ==
    /\ phase = "serving"
    /\ accepting' = FALSE
    /\ watched' = tasks
    /\ phase' = IF tasks = {} THEN "drained" ELSE "grace"
    /\ UNCHANGED taskVars

Unfinished == {n \in watched : ~Done(n)}

\* asyncio.wait: every task ended within the grace period.
GraceSuffices ==
    /\ phase = "grace" /\ Unfinished = {}
    /\ phase' = "drained"
    /\ UNCHANGED <<accepting, taskVars, watched>>

\* asyncio.wait times out: the remaining tasks are cancelled.  They have begun,
\* since the loop runs what is ready before it runs a timer.
GraceEnds ==
    /\ phase = "grace" /\ Unfinished # {}
    /\ \A n \in watched : status[n] # "ready"
    /\ cancelling' = Unfinished
    /\ watched' = Unfinished
    /\ phase' = "cancelling"
    /\ UNCHANGED <<accepting, tasks, status, send>>

\* asyncio.gather: every cancelled task has ended.
Drained ==
    /\ phase = "cancelling" /\ Unfinished = {}
    /\ phase' = "drained"
    /\ UNCHANGED <<accepting, taskVars, watched>>

\* lifespan: Redis is closed, and the application has stopped.
Stop ==
    /\ phase = "drained"
    /\ phase' = "stopped"
    /\ UNCHANGED <<accepting, taskVars, watched>>

-----------------------------------------------------------------------------
\* After the lifespan the loop is closed and the process ends.
Up == phase # "stopped"

Loop(n) == Up /\ \/ Begin(n) \/ Enqueue(n) \/ Resume(n) \/ SeeCancel(n) \/ Drain(n)
                 \/ Discard(n)
Thread(n) == Up /\ (Converse(n) \/ EndConversation(n))
Request(n) == Up /\ (Submit(n) \/ Refuse(n))
Closing == GraceSuffices \/ GraceEnds \/ Drained \/ Stop

Next == \/ \E n \in Notices : Request(n) \/ Loop(n) \/ Thread(n)
        \/ Shutdown \/ Closing

Spec == Init /\ [][Next]_vars

-----------------------------------------------------------------------------
TypeOK ==
    /\ accepting \in BOOLEAN
    /\ tasks \subseteq Notices /\ cancelling \subseteq Notices /\ watched \subseteq Notices
    /\ status \in [Notices -> {"none", "refused", "ready", "waiting", "draining",
                               "returned", "cancelled"}]
    /\ send \in [Notices -> {"none", "ready", "queued", "conversing", "sent", "lost"}]
    /\ phase \in {"serving", "grace", "cancelling", "drained", "stopped"}

\* When shutdown returns, no task is running and no thread is still talking to
\* the mail server, not even for a task that was cancelled.
QuietAfterShutdown ==
    phase \in {"drained", "stopped"} =>
       \A n \in Notices : ~Running(n) /\ send[n] \in {"none", "sent", "lost"}

\* A notice that was accepted has been tried when the application stops: the end
\* of the grace period cuts the task short, but not its mail.
AcceptedAreTried ==
    phase = "stopped" =>
       \A n \in Notices : status[n] \in {"none", "refused"} \/ SendOver(n)

\* Whatever shutdown waits for ends, and the application stops.
ShutdownEnds == phase = "grace" ~> phase = "stopped"

-----------------------------------------------------------------------------
\* A task and its send agree: the send is there from the first step of the task
\* on, and over by the last.
Sends ==
    \A n \in Notices :
       /\ send[n] = "none" <=> status[n] \in {"none", "refused", "ready"}
       /\ Done(n) => SendOver(n)

\* Running tasks are kept, and shutdown has taken over those it has to wait for.
Tracked ==
    /\ \A n \in Notices : Running(n) => n \in tasks
    /\ accepting <=> phase = "serving"
    /\ phase # "serving" => \A n \in Notices : Running(n) => n \in watched
    /\ phase \in {"drained", "stopped"} => \A n \in watched : Done(n)

IInv == TypeOK /\ Sends /\ Tracked
=============================================================================
