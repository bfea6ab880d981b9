----------------------------- MODULE Lifecycle ------------------------------
(***************************************************************************)
(* How a server is started and ended: main() of usercentersvr with         *)
(* initSystem and exitSystem, and the two threads it starts, CEpollThread  *)
(* (Net) and CWorkThread (Work), which both are CEupuThread objects.       *)
(*                                                                         *)
(* A new thread waits in pause() for SIGUSR1, which is blocked in every    *)
(* thread, so that a signal sent before the wait is still pending then.    *)
(* start() returns before the thread runs; the flags m_bOperate and        *)
(* m_bIsExit are plain members that both threads write without a lock.     *)
(*                                                                         *)
(* Use of a deleted object is undefined: it is recorded in dangling, and   *)
(* the thread that did it is followed no further.                          *)
(***************************************************************************)
EXTENDS Naturals, FiniteSets

CONSTANT
    LoopEnds    \* FALSE: the loop of main() never ends, as it is written;
                \* TRUE: it may end, and exitSystem stops running threads

Net == "net"
Work == "work"
Thread == {Net, Work}

VARIABLES
    main,       \* where main() is, and the thread it starts
    obj,        \* g_epollthread and g_workthread: the objects they point to
    operate,    \* m_bOperate
    isExit,     \* m_bIsExit
    signalled,  \* threads SIGUSR1 is pending for
    at,         \* where a thread is
    manager,    \* m_pInstance of CGlobalMgr: a number, 0 for NULL
    held,       \* the manager whose queues the worker got in run()
    made,       \* history: the managers made so far
    undetached, \* history: threads pthread_detach failed for
    stopped,    \* history: threads stop() was called for
    dangling    \* history: what a thread used after it was deleted

flags == <<operate, isExit>>
managers == <<manager, made>>
history == <<undetached, stopped, dangling>>
threads == <<at, signalled, held>>
vars == <<main, obj, flags, threads, managers, history>>

At(step) == main.step = step
Goto(step) == main' = [main EXCEPT !.step = step]
Start(t) == main' = [step |-> "create", thread |-> t]

\* Mutant of GetInstance: m_pInstance is not looked at.
GetInstanceAnew ==
    /\ made' = made + 1
    /\ manager' = made + 1

\* CGlobalMgr::getInstance makes a manager when there is none.
GetInstance ==
    /\ made' = IF manager = 0 THEN made + 1 ELSE made
    /\ manager' = IF manager = 0 THEN made + 1 ELSE manager

Init ==
    /\ main = [step |-> "config", thread |-> Net]
    /\ obj = [t \in Thread |-> "null"]
    /\ operate = [t \in Thread |-> FALSE]
    /\ isExit = [t \in Thread |-> TRUE]
    /\ at = [t \in Thread |-> "absent"]
    /\ signalled = {}
    /\ manager = 0 /\ held = 0 /\ made = 0
    /\ undetached = {} /\ stopped = {} /\ dangling = {}

-----------------------------------------------------------------------------
(* initSystem.                                                             *)

ReadConfig ==
    /\ At("config")
    /\ Goto("manager") \/ Goto("exit")
    /\ UNCHANGED <<obj, flags, threads, managers, history>>

InitManager ==
    /\ At("manager")
    /\ GetInstance
    /\ Goto("net")
    /\ UNCHANGED <<obj, flags, threads, history>>

\* new CEpollThread, or new CWorkThread, which is started at once.
NewObject(t) ==
    /\ At(t)
    /\ obj' = [obj EXCEPT ![t] = "made"]
    /\ IF t = Net THEN Goto("listen") ELSE Start(Work)
    /\ UNCHANGED <<flags, threads, managers, history>>

\* doListen, then start().
Listen ==
    /\ At("listen")
    /\ Start(Net)
    /\ UNCHANGED <<obj, flags, threads, managers, history>>

\* startup() fails in epoll_create or in doListen: usercentersvr keeps the object.
StartupFails ==
    /\ At("listen")
    /\ Goto("exit")
    /\ UNCHANGED <<obj, flags, threads, managers, history>>

\* CEupuThread::start, its five steps: the thread may run from the first on.
Create ==
    /\ At("create")
    /\ at' = [at EXCEPT ![main.thread] = "pause"]
    /\ Goto("detach")
    /\ UNCHANGED <<obj, flags, signalled, held, managers, history>>

\* pthread_create fails.  For Work, initSystem deletes both objects.
CreateFails ==
    /\ At("create")
    /\ obj' = IF main.thread = Work THEN [t \in Thread |-> "deleted"] ELSE obj
    /\ Goto("exit")
    /\ UNCHANGED <<flags, threads, managers, history>>

\* When it fails the flags are left as they are and start() returns true.
Detach ==
    /\ At("detach")
    /\ \/ Goto("operate") /\ UNCHANGED undetached
       \/ Goto("continue") /\ undetached' = undetached \cup {main.thread}
    /\ UNCHANGED <<obj, flags, threads, managers, stopped, dangling>>

SetOperate ==
    /\ At("operate")
    /\ operate' = [operate EXCEPT ![main.thread] = TRUE]
    /\ Goto("exitflag")
    /\ UNCHANGED <<obj, isExit, threads, managers, history>>

\* Mutant of ClearExit: start() leaves m_bIsExit to the thread.
ClearExitLater ==
    /\ At("exitflag")
    /\ Goto("continue")
    /\ UNCHANGED <<obj, flags, threads, managers, history>>

ClearExit ==
    /\ At("exitflag")
    /\ isExit' = [isExit EXCEPT ![main.thread] = FALSE]
    /\ Goto("continue")
    /\ UNCHANGED <<obj, operate, threads, managers, history>>

\* continues(): pthread_kill(m_pid, SIGUSR1).  Then Work is next, or the loop.
Continue ==
    /\ At("continue")
    /\ signalled' = signalled \cup {main.thread}
    /\ Goto(IF main.thread = Net THEN Work ELSE "running")
    /\ UNCHANGED <<obj, flags, at, held, managers, history>>

-----------------------------------------------------------------------------
(* exitSystem.                                                             *)

EndLoop ==
    /\ At("running") /\ LoopEnds
    /\ Goto("exit")
    /\ UNCHANGED <<obj, flags, threads, managers, history>>

\* m_bOperate = false in stop() of a thread that has an object.
Stop(t) ==
    IF obj[t] = "made"
    THEN /\ operate' = [operate EXCEPT ![t] = FALSE]
         /\ stopped' = stopped \cup {t}
    ELSE UNCHANGED <<operate, stopped>>

\* Mutant of StopWork: the object is deleted when stop() returns true.
StopWorkDeletes ==
    /\ At("exit")
    /\ Stop(Work)
    /\ obj' = IF obj[Work] = "made" THEN [obj EXCEPT ![Work] = "deleted"] ELSE obj
    /\ Goto("stopnet")
    /\ UNCHANGED <<isExit, threads, managers, undetached, dangling>>

\* CWorkBaseThread::stop waits ten microseconds at most.
StopWork ==
    /\ At("exit")
    /\ Stop(Work)
    /\ Goto("stopnet")
    /\ UNCHANGED <<obj, isExit, threads, managers, undetached, dangling>>

\* CEpollThread::stop, up to its loop.
StopNet ==
    /\ At("stopnet")
    /\ Stop(Net)
    /\ Goto(IF obj[Net] = "made" THEN "waitnet" ELSE "release")
    /\ UNCHANGED <<obj, isExit, threads, managers, undetached, dangling>>

WaitNet ==
    /\ At("waitnet")
    /\ isExit[Net]
    /\ Goto("release")
    /\ UNCHANGED <<obj, flags, threads, managers, history>>

\* getInstance() first makes the manager that release() then deletes.
ReleaseManager ==
    /\ At("release")
    /\ manager' = 0
    /\ made' = IF manager = 0 THEN made + 1 ELSE made
    /\ Goto("sleep")
    /\ UNCHANGED <<obj, flags, threads, history>>

\* sleep(1) is over and main() returns: no thread runs any more.
EndProcess ==
    /\ At("sleep")
    /\ Goto("done")
    /\ UNCHANGED <<obj, flags, threads, managers, history>>

-----------------------------------------------------------------------------
(* A thread.                                                               *)

\* A step of run() that uses the object and no deleted part.
Uses(t) == ~At("done") /\ obj[t] # "deleted"

\* Mutant of Resume: the thread does not wait.
ResumeAtOnce(t) ==
    /\ Uses(t)
    /\ at[t] = "pause"
    /\ at' = [at EXCEPT ![t] = "enter"]
    /\ signalled' = signalled \ {t}
    /\ UNCHANGED <<main, obj, flags, held, managers, history>>

\* sigwait() returns.
Resume(t) ==
    /\ Uses(t)
    /\ at[t] = "pause" /\ t \in signalled
    /\ at' = [at EXCEPT ![t] = "enter"]
    /\ signalled' = signalled \ {t}
    /\ UNCHANGED <<main, obj, flags, held, managers, history>>

\* m_bIsExit = false; the worker gets its queues.
Enter(t) ==
    /\ Uses(t)
    /\ at[t] = "enter"
    /\ isExit' = [isExit EXCEPT ![t] = FALSE]
    /\ at' = [at EXCEPT ![t] = "loop"]
    /\ IF t = Work
       THEN GetInstance /\ held' = manager'
       ELSE UNCHANGED <<managers, held>>
    /\ UNCHANGED <<main, obj, operate, signalled, history>>

\* m_bOperate is still set.  Net goes once round its loop and asks for the manager
\* whenever it needs it; the worker goes to its queue.
Turn(t) ==
    /\ Uses(t)
    /\ at[t] = "loop" /\ operate[t]
    /\ IF t = Net
       THEN GetInstance /\ UNCHANGED at
       ELSE at' = [at EXCEPT ![t] = "drain"] /\ UNCHANGED managers
    /\ UNCHANGED <<main, obj, flags, signalled, held, history>>

\* isEmptyWithoutLock or outQueue of the queue the worker holds: it takes messages
\* for as long as there are any, and does not look at m_bOperate meanwhile.
OutQueue(t) ==
    /\ Uses(t)
    /\ at[t] = "drain" /\ held = manager
    /\ \E next \in {"message", "loop"} : at' = [at EXCEPT ![t] = next]
    /\ UNCHANGED <<main, obj, flags, signalled, held, managers, history>>

\* processMessage asks for the manager when it sends, and run() when it rejects.
ProcessMessage(t) ==
    /\ Uses(t)
    /\ at[t] = "message"
    /\ GetInstance \/ UNCHANGED managers
    /\ at' = [at EXCEPT ![t] = "drain"]
    /\ UNCHANGED <<main, obj, flags, signalled, held, history>>

LeaveLoop(t) ==
    /\ Uses(t)
    /\ at[t] = "loop" /\ ~operate[t]
    /\ at' = [at EXCEPT ![t] = "leave"]
    /\ UNCHANGED <<main, obj, flags, signalled, held, managers, history>>

\* Mutant of Ended: m_bIsExit stays false.
EndedSilently(t) ==
    /\ Uses(t)
    /\ at[t] = "leave"
    /\ at' = [at EXCEPT ![t] = "gone"]
    /\ UNCHANGED <<main, obj, flags, signalled, held, managers, history>>

Ended(t) ==
    /\ Uses(t)
    /\ at[t] = "leave"
    /\ isExit' = [isExit EXCEPT ![t] = TRUE]
    /\ at' = [at EXCEPT ![t] = "gone"]
    /\ UNCHANGED <<main, obj, operate, signalled, held, managers, history>>

\* The thread uses its object, or the worker the queues, after the delete.
Dangles(t) ==
    /\ ~At("done")
    /\ \/ /\ obj[t] = "deleted"
          /\ \/ at[t] \in {"enter", "loop", "drain", "message", "leave"}
             \/ at[t] = "pause" /\ t \in signalled
          /\ dangling' = dangling \cup {<<t, "object">>}
       \/ /\ at[t] = "drain" /\ held # manager
          /\ obj[t] # "deleted"
          /\ dangling' = dangling \cup {<<t, "manager">>}
    /\ at' = [at EXCEPT ![t] = "undefined"]
    /\ UNCHANGED <<main, obj, flags, signalled, held, managers, undetached, stopped>>

-----------------------------------------------------------------------------

MainThread ==
    \/ ReadConfig \/ InitManager \/ Listen \/ StartupFails
    \/ \E t \in Thread : NewObject(t)
    \/ Create \/ CreateFails \/ Detach \/ SetOperate \/ ClearExit \/ Continue
    \/ EndLoop \/ StopWork \/ StopNet \/ WaitNet \/ ReleaseManager \/ EndProcess

Run(t) ==
    \/ Resume(t) \/ Enter(t) \/ Turn(t) \/ OutQueue(t) \/ ProcessMessage(t)
    \/ LeaveLoop(t) \/ Ended(t) \/ Dangles(t)

Next == MainThread \/ \E t \in Thread : Run(t)

Spec == Init /\ [][Next]_vars

\* The scheduler lets every thread go on; nothing ends the loop of main().
Fairness ==
    /\ WF_vars(MainThread /\ ~At("running"))
    /\ \A t \in Thread : WF_vars(Run(t))

FairSpec == Spec /\ Fairness

-----------------------------------------------------------------------------

TypeOK ==
    /\ main.thread \in Thread
    /\ obj \in [Thread -> {"null", "made", "deleted"}]
    /\ operate \in [Thread -> BOOLEAN] /\ isExit \in [Thread -> BOOLEAN]
    /\ signalled \subseteq Thread
    /\ at \in [Thread -> {"absent", "pause", "enter", "loop", "drain", "message",
                          "leave", "gone", "undefined"}]
    /\ made \in 0 .. 2 /\ manager \in 0 .. made /\ held \in 0 .. made

\* A thread whose start() succeeded does not find m_bOperate still false and
\* end: it ends after stop() only (start() against run()).
EndsWhenStopped ==
    \A t \in Thread :
        at[t] \in {"leave", "gone"} => t \in stopped \cup undetached

\* When exitSystem goes on to delete the manager, the network thread has left
\* its loop: stop() cannot take a thread that was not running yet for one that
\* has ended (m_bIsExit in start(), run() and stop()).
NetEndsFirst ==
    main.step \in {"release", "sleep", "done"} /\ obj[Net] = "made" =>
        at[Net] \in {"absent", "gone"} \/ Net \in undetached

\* The object of a thread is deleted under it in one case only: pthread_create
\* failed for the worker, and initSystem deletes the running network thread.  The
\* manager is deleted under a worker only that was told to stop: it goes on with
\* its queue while there are messages, and stop() does not wait for it.
ObjectsOutliveThreads ==
    /\ \A t \in Thread : <<t, "object">> \in dangling => t = Net /\ at[Work] = "absent"
    /\ \A t \in Thread : <<t, "manager">> \in dangling => t = Work /\ t \in stopped

\* exitSystem comes to its end: its wait for the network thread is not for
\* ever, and no start leaves a thread waiting for a signal that was sent.
ExitEnds == At("exit") ~> At("done")
=============================================================================
