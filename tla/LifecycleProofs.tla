-------------------------- MODULE LifecycleProofs ---------------------------
(***************************************************************************)
(* Proofs about how the threads of a server are started and ended.         *)
(*                                                                         *)
(* main() goes through its steps once, so where it is says which objects   *)
(* and managers there are (Objects, Managers) and which threads still wait *)
(* for their flags (Starts); a thread runs with the flags start() gave it  *)
(* and leaves its loop after stop() has taken them back (Flags).  The      *)
(* worker's queues are those of the manager until exitSystem deletes it    *)
(* (Holding).                                                              *)
(***************************************************************************)
EXTENDS Lifecycle, TLAPS

USE DEF Net, Work, Thread

-----------------------------------------------------------------------------

StartSteps == {"create", "detach", "operate", "exitflag", "continue"}
EndSteps == {"exit", "stopnet", "waitnet", "release", "sleep", "done"}
Steps == {"config", "manager", Net, "listen", Work, "running"}
           \cup StartSteps \cup EndSteps
Places == {"absent", "pause", "enter", "loop", "drain", "message", "leave", "gone",
           "undefined"}

Types ==
    /\ main \in [step : Steps, thread : Thread]
    /\ obj \in [Thread -> {"null", "made", "deleted"}]
    /\ operate \in [Thread -> BOOLEAN] /\ isExit \in [Thread -> BOOLEAN]
    /\ signalled \subseteq Thread /\ undetached \subseteq Thread /\ stopped \subseteq Thread
    /\ at \in [Thread -> Places]
    /\ manager \in Nat /\ made \in Nat /\ held \in 0 .. made

\* There is one manager while main() is between initSystem and exitSystem; one
\* thread may make a second one after release().
Managers ==
    /\ main.step \in {"config", "manager"} => manager = 0 /\ made = 0
    /\ main.step \in Steps \ ({"config", "manager"} \cup EndSteps) =>
          manager = 1 /\ made = 1
    /\ main.step \in EndSteps \ {"sleep", "done"} =>
          \/ manager = 1 /\ made = 1
          \/ /\ manager = 0 /\ made = 0
             /\ obj = [t \in Thread |-> "null"]
    /\ main.step \in {"sleep", "done"} =>
          <<manager, made>> \in {<<0, 1>>, <<2, 2>>}

\* main() is starting t, or has not come to it.
Starting(t) == main.thread = t /\ main.step \in StartSteps \ {"create"}
Before(t) ==
    \/ main.step \in {"config", "manager", Net, "listen"}
    \/ t = Work /\ main.step = Work
    \/ t = Work /\ main.thread = Net /\ main.step \in StartSteps
    \/ main.step = "create" /\ main.thread = t

Objects ==
    /\ main.step \in {"config", "manager", Net} => obj[Net] = "null"
    /\ main.step \in {"listen", Work, "running"} \cup StartSteps => obj[Net] = "made"
    /\ Before(Work) /\ ~(main.step = "create" /\ main.thread = Work) => obj[Work] = "null"
    /\ main.step = "create" => obj[main.thread] = "made"
    /\ Starting(Work) \/ main.step = "running" => obj[Work] = "made"
    /\ \A t \in Thread : obj[t] = "null" => at[t] = "absent"
    /\ \A t \in Thread : obj[t] = "deleted" =>
          main.step \in EndSteps /\ at[Work] = "absent"

\* A thread waits until start() has done with it.
Starts ==
    \A t \in Thread :
        /\ Before(t) \/ at[t] = "absent" => at[t] = "absent" /\ t \notin signalled
        /\ Starting(t) => at[t] = "pause" /\ t \notin signalled

\* What a thread finds in the flags when it runs.
Flags ==
    \A t \in Thread :
        /\ t \in signalled \/ at[t] \in {"enter", "loop", "drain", "message", "leave", "gone"} =>
              operate[t] \/ t \in stopped \cup undetached
        /\ Starting(t) /\ main.step \in {"exitflag", "continue"} =>
              operate[t] \/ t \in undetached
        /\ at[t] \in {"pause", "enter", "loop", "drain", "message", "leave"}
              /\ ~(Starting(t) /\ main.step # "continue") =>
              ~isExit[t] \/ t \in undetached

Deleted ==
    /\ \A t \in Thread : <<t, "object">> \in dangling => obj[t] = "deleted" /\ t = Net
    /\ at[Net] = "undefined" => obj[Net] = "deleted"

\* The worker holds the queues of the manager until exitSystem, which has called
\* stop() for the worker by then, deletes it.
Holding ==
    /\ at[Net] \notin {"drain", "message"}
    /\ at[Work] \in {"loop", "drain", "message"} /\ main.step \notin {"sleep", "done"} =>
          held = manager
    /\ main.step \in EndSteps \ {"exit"} /\ obj[Work] = "made" => Work \in stopped
    /\ \A t \in Thread : <<t, "manager">> \in dangling => t = Work /\ t \in stopped

LifeInv ==
    /\ Types /\ Managers /\ Objects /\ Starts /\ Flags /\ Deleted /\ Holding
    /\ EndsWhenStopped /\ NetEndsFirst

-----------------------------------------------------------------------------

LEMMA InitLifeInv ==
    ASSUME Init
    PROVE  LifeInv
<1>. USE DEF Init
<1>1. Types
  BY DEF Types, Steps, StartSteps, EndSteps, Places
<1>2. Managers /\ Objects
  BY DEF Managers, Objects, Steps, StartSteps, EndSteps, Before, Starting
<1>3. Starts /\ Flags /\ Deleted /\ Holding
  BY DEF Starts, Flags, Deleted, Holding, StartSteps, Before, Starting
<1>4. EndsWhenStopped /\ NetEndsFirst
  BY DEF EndsWhenStopped, NetEndsFirst
<1>. QED  BY <1>1, <1>2, <1>3, <1>4 DEF LifeInv

\* What stop() does to the flag of one thread.
LEMMA StopTypes ==
    ASSUME Types, NEW t \in Thread, Stop(t)
    PROVE  operate' \in [Thread -> BOOLEAN] /\ stopped' \subseteq Thread
BY DEF Types, Stop

LEMMA MainLifeInv ==
    ASSUME LifeInv, MainThread
    PROVE  LifeInv'
<1>. USE DEF LifeInv, Types, Managers, Objects, Starts, Flags, Deleted, Holding, EndsWhenStopped,
             NetEndsFirst, Before, Starting, Steps, StartSteps, EndSteps, Places,
             At, Goto, Start, flags, managers, history, threads
<1>1. CASE ReadConfig
  BY <1>1 DEF ReadConfig
<1>2. CASE InitManager
  BY <1>2 DEF InitManager, GetInstance
<1>3. CASE Listen
  BY <1>3 DEF Listen
<1>4. CASE StartupFails
  BY <1>4 DEF StartupFails
<1>5. ASSUME NEW t \in Thread, NewObject(t) PROVE LifeInv'
  BY <1>5 DEF NewObject
<1>6. CASE Create
  <2>. USE <1>6 DEF Create
  <2>1. Types' /\ Managers'
    OBVIOUS
  <2>2. ASSUME main.thread = Net PROVE Objects' /\ Starts'
    <3>1. /\ main' = [step |-> "detach", thread |-> Net] /\ obj' = obj
          /\ at[Net] = "absent" /\ at[Work] = "absent"
          /\ Net \notin signalled /\ Work \notin signalled
          /\ at' = [at EXCEPT ![Net] = "pause"]
          /\ obj[Net] = "made" /\ obj[Work] = "null"
      BY <2>2
    <3>. QED  BY <2>2, <3>1
  <2>3. ASSUME main.thread = Work PROVE Objects' /\ Starts'
    <3>1. /\ main' = [step |-> "detach", thread |-> Work] /\ obj' = obj
          /\ at[Work] = "absent" /\ Work \notin signalled
          /\ at' = [at EXCEPT ![Work] = "pause"]
          /\ obj[Net] = "made" /\ obj[Work] = "made"
      BY <2>3
    <3>. QED  BY <2>3, <3>1
  <2>4. Objects' /\ Starts'
    BY <2>2, <2>3
  <2>5. Flags'
    OBVIOUS
  <2>6. Deleted' /\ Holding' /\ EndsWhenStopped' /\ NetEndsFirst'
    OBVIOUS
  <2>. QED  BY <2>1, <2>4, <2>5, <2>6
<1>7. CASE CreateFails
  BY <1>7 DEF CreateFails
<1>8. CASE Detach
  BY <1>8 DEF Detach
<1>9. CASE SetOperate
  BY <1>9 DEF SetOperate
<1>10. CASE ClearExit
  BY <1>10 DEF ClearExit
<1>11. CASE Continue
  BY <1>11 DEF Continue
<1>12. CASE EndLoop
  BY <1>12 DEF EndLoop
<1>13. CASE StopWork
  <2>. USE <1>13 DEF StopWork
  <2>0. operate' \in [Thread -> BOOLEAN] /\ stopped' \subseteq Thread
    BY StopTypes
  <2>1. Types' /\ Managers'
    BY <2>0
  <2>. USE DEF Stop
  <2>2. Objects' /\ Starts'
    OBVIOUS
  <2>3. Flags'
    OBVIOUS
  <2>4. Deleted' /\ Holding' /\ EndsWhenStopped' /\ NetEndsFirst'
    OBVIOUS
  <2>. QED  BY <2>1, <2>2, <2>3, <2>4
<1>14. CASE StopNet
  <2>. USE <1>14 DEF StopNet
  <2>0. operate' \in [Thread -> BOOLEAN] /\ stopped' \subseteq Thread
    BY StopTypes
  <2>1. Types' /\ Managers'
    BY <2>0
  <2>. USE DEF Stop
  <2>2. Objects' /\ Starts'
    OBVIOUS
  <2>3. Flags'
    OBVIOUS
  <2>4. Deleted' /\ Holding' /\ EndsWhenStopped' /\ NetEndsFirst'
    OBVIOUS
  <2>. QED  BY <2>1, <2>2, <2>3, <2>4
<1>15. CASE WaitNet
  BY <1>15 DEF WaitNet
<1>16. CASE ReleaseManager
  BY <1>16 DEF ReleaseManager
<1>17. CASE EndProcess
  BY <1>17 DEF EndProcess
<1>. QED
  BY <1>1, <1>2, <1>3, <1>4, <1>5, <1>6, <1>7, <1>8, <1>9, <1>10, <1>11, <1>12, <1>13,
     <1>14, <1>15, <1>16, <1>17 DEF MainThread

LEMMA ThreadLifeInv ==
    ASSUME LifeInv, NEW t \in Thread, Run(t)
    PROVE  LifeInv'
<1>. USE DEF LifeInv, Types, Managers, Objects, Starts, Flags, Deleted, Holding, EndsWhenStopped,
             NetEndsFirst, Before, Starting, Steps, StartSteps, EndSteps, Places,
             At, flags, managers, history, Uses
<1>1. CASE Resume(t)
  BY <1>1 DEF Resume
<1>2. CASE Enter(t)
  BY <1>2 DEF Enter, GetInstance
<1>3. CASE Turn(t)
  BY <1>3 DEF Turn, GetInstance, threads
<1>4. CASE OutQueue(t)
  BY <1>4 DEF OutQueue
<1>5. CASE ProcessMessage(t)
  BY <1>5 DEF ProcessMessage, GetInstance
<1>6. CASE LeaveLoop(t)
  BY <1>6 DEF LeaveLoop
<1>7. CASE Ended(t)
  BY <1>7 DEF Ended
<1>8. CASE Dangles(t)
  BY <1>8 DEF Dangles
<1>. QED  BY <1>1, <1>2, <1>3, <1>4, <1>5, <1>6, <1>7, <1>8 DEF Run

LEMMA NextLifeInv ==
    ASSUME LifeInv, [Next]_vars
    PROVE  LifeInv'
<1>1. CASE MainThread
  BY <1>1, MainLifeInv
<1>2. ASSUME NEW t \in Thread, Run(t) PROVE LifeInv'
  BY <1>2, ThreadLifeInv
<1>3. CASE UNCHANGED vars
  BY <1>3 DEF vars, flags, threads, managers, history, LifeInv, Types, Managers, Objects,
             Starts, Flags, Deleted, Holding, EndsWhenStopped, NetEndsFirst, Before, Starting
<1>. QED  BY <1>1, <1>2, <1>3 DEF Next

\* LifeInv says all that is promised.
LEMMA LifeInvProperties ==
    ASSUME LifeInv
    PROVE  TypeOK /\ EndsWhenStopped /\ NetEndsFirst /\ ObjectsOutliveThreads
<1>1. made \in 0 .. 2 /\ manager \in 0 .. made
  BY DEF LifeInv, Types, Managers, Steps, StartSteps, EndSteps
<1>2. TypeOK
  BY <1>1 DEF LifeInv, Types, TypeOK, Places
<1>3. ObjectsOutliveThreads
  BY DEF LifeInv, Objects, Deleted, Holding, ObjectsOutliveThreads
<1>. QED  BY <1>2, <1>3 DEF LifeInv

\* How a server is started and ended: what main() has made, the flags of the
\* threads and what is deleted, as LifeInv has it.
THEOREM LifeInvCorrect == Spec => []LifeInv
BY InitLifeInv, NextLifeInv, PTL DEF Spec
=============================================================================
