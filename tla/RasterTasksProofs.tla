--------------------------- MODULE RasterTasksProofs ---------------------------
(***************************************************************************)
(* Proofs about RasterTasks for every number of cores and of frames: its   *)
(* types, that a processed frame is complete, that no worker runs outside  *)
(* a render, that no wakeup is lost, and the refinement of ForkJoin.       *)
(***************************************************************************)
EXTENDS RasterTasks, TLAPS

Alive(i) == isRunning[i] /\ ~exitThread[i] /\ wpc[i] \in {"lock", "wait", "work", "check"}

\* the client has given task i its work for this frame, and not begun another
Forked(i) == (cpc = "execute" /\ i < c) \/ cpc \in {"finish", "fwait"}

\* every worker the client relies on is there
WorkersAlive ==
  /\ cpc \in {"idle", "execute", "finish", "fwait", "process"} => \A i \in Core : Alive(i)
  /\ cpc = "start" => \A i \in Core : i < c => Alive(i)
  /\ cpc = "execute" => frame # None

\* work that is pending is this frame's, and the client will still wait for it
WorkIsCurrent ==
  \A i \in Core : work[i] # None =>
    /\ work[i] = frame
    /\ Forked(i)
    /\ cpc \in {"finish", "fwait"} => c <= i

\* a worker works only on pending work, and draws it before it takes it away
WorkIsDrawn ==
  \A i \in Core :
    /\ wpc[i] = "work" => work[i] # None
    /\ Forked(i) /\ work[i] = None => drawn[i] = frame

\* a waiting thread waits for something that has not happened yet
WaitIsJust ==
  /\ \A i \in Core : wpc[i] = "wait" => work[i] = None /\ ~exitThread[i]
  /\ cpc = "fwait" => work[c] # None

Inv == TypeOK /\ WorkersAlive /\ WorkIsCurrent /\ WorkIsDrawn /\ WaitIsJust /\ FrameComplete

USE NAssumption, MaxFrameAssumption DEF Core, None

\* Before the rasterizer is opened the invariant holds.
LEMMA InitInv == Init => Inv
  BY DEF Init, Inv, TypeOK, WorkersAlive, WorkIsCurrent, WorkIsDrawn, WaitIsJust,
         FrameComplete, Forked, Alive

\* A step of a worker keeps the invariant (taskProc).
LEMMA WorkerInv == ASSUME Inv, NEW i \in Core, Worker(i) PROVE Inv'
<1>1. CASE WorkerTest(i)
  BY <1>1 DEF WorkerTest, Inv, TypeOK, WorkersAlive, WorkIsCurrent, WorkIsDrawn, WaitIsJust,
         FrameComplete, Forked, Alive, client, task
<1>2. CASE WorkerSpurious(i)
  BY <1>2 DEF WorkerSpurious, Inv, TypeOK, WorkersAlive, WorkIsCurrent, WorkIsDrawn, WaitIsJust,
         FrameComplete, Forked, Alive, client, task
<1>3. CASE WorkerDone(i)
  <2>0. TypeOK /\ WorkersAlive /\ WorkIsCurrent /\ WorkIsDrawn /\ WaitIsJust BY DEF Inv
  <2>1. /\ wpc[i] = "work" /\ work[i] = frame /\ Forked(i)
        /\ \/ cpc = "fwait" /\ c = i /\ cpc' = "finish"
           \/ ~(cpc = "fwait" /\ c = i) /\ cpc' = cpc
    BY <1>3, <2>0 DEF WorkerDone, WorkIsDrawn, WorkIsCurrent
  <2>2. /\ drawn' = [drawn EXCEPT ![i] = frame] /\ ret' = [ret EXCEPT ![i] = frame]
        /\ work' = [work EXCEPT ![i] = None] /\ wpc' = [wpc EXCEPT ![i] = "check"]
        /\ UNCHANGED <<c, frame, isRunning, exitThread>>
    BY <1>3, <2>1 DEF WorkerDone
  <2>11. TypeOK' BY <2>0, <2>1, <2>2, SMTT(60) DEF TypeOK
  <2>12. WorkersAlive' BY <2>0, <2>1, <2>2 DEF TypeOK, WorkersAlive, Alive
  <2>13. WorkIsCurrent' BY <2>0, <2>1, <2>2 DEF TypeOK, WorkIsCurrent, Forked
  <2>14. WorkIsDrawn' BY <2>0, <2>1, <2>2 DEF TypeOK, WorkIsDrawn, WorkIsCurrent, Forked
  <2>15. WaitIsJust' BY <2>0, <2>1, <2>2 DEF TypeOK, WaitIsJust
  <2>16. FrameComplete' BY <2>0, <2>1, <2>2 DEF TypeOK, FrameComplete, Forked
  <2> QED BY <2>11, <2>12, <2>13, <2>14, <2>15, <2>16 DEF Inv
<1>4. CASE WorkerLoop(i)
  BY <1>4 DEF WorkerLoop, Inv, TypeOK, WorkersAlive, WorkIsCurrent, WorkIsDrawn, WaitIsJust,
         FrameComplete, Forked, Alive, client, task
<1> QED BY <1>1, <1>2, <1>3, <1>4 DEF Worker

\* A step of the client keeps the invariant (SoftRastRender, execute, finish, shutdown).
LEMMA ClientInv == ASSUME Inv, Client PROVE Inv'
<1>1. CASE SoftRastInit
  BY <1>1 DEF SoftRastInit, Inv, TypeOK, WorkersAlive, WorkIsCurrent, WorkIsDrawn, WaitIsJust,
         FrameComplete, Forked, Alive, client, task
<1>2. CASE Start
  <2>0. TypeOK /\ WorkersAlive /\ WorkIsCurrent /\ WorkIsDrawn /\ WaitIsJust BY DEF Inv
  <2>1. /\ cpc = "start" /\ c \in Core
        /\ \/ c + 1 < N /\ cpc' = "start" /\ c' = c + 1
           \/ c + 1 = N /\ cpc' = "idle" /\ c' = 0
    BY <1>2, <2>0 DEF Start, NextTask, TypeOK
  <2>2. /\ work' = [work EXCEPT ![c] = None] /\ ret' = [ret EXCEPT ![c] = None]
        /\ exitThread' = [exitThread EXCEPT ![c] = FALSE]
        /\ wpc' = [wpc EXCEPT ![c] = "lock"]
        /\ isRunning' = [isRunning EXCEPT ![c] = TRUE] /\ UNCHANGED <<frame, drawn>>
    BY <1>2 DEF Start
  <2>11. TypeOK' BY <2>0, <2>1, <2>2, SMTT(60) DEF TypeOK
  <2>12. WorkersAlive'
    <3>1. ASSUME NEW j \in Core, j < c \/ j = c PROVE Alive(j)'
      BY <2>0, <2>1, <2>2, <3>1 DEF TypeOK, WorkersAlive, Alive
    <3>2. \A j \in Core : j < c + 1 => j < c \/ j = c BY <2>1
    <3> QED BY <2>1, <3>1, <3>2 DEF WorkersAlive
  <2>13. WorkIsCurrent' BY <2>0, <2>1, <2>2 DEF TypeOK, WorkIsCurrent, Forked
  <2>14. WorkIsDrawn' BY <2>0, <2>1, <2>2 DEF TypeOK, WorkIsDrawn, WorkIsCurrent, Forked
  <2>15. WaitIsJust' BY <2>0, <2>1, <2>2 DEF TypeOK, WaitIsJust
  <2>16. FrameComplete' BY <2>0, <2>1, <2>2 DEF TypeOK, FrameComplete, WorkIsDrawn, WorkIsCurrent, Forked
  <2> QED BY <2>11, <2>12, <2>13, <2>14, <2>15, <2>16 DEF Inv
<1>3. CASE SoftRastRender
  BY <1>3 DEF SoftRastRender, Inv, TypeOK, WorkersAlive, WorkIsCurrent, WorkIsDrawn, WaitIsJust,
         FrameComplete, Forked, Alive, client, task
<1>4. CASE Execute
  <2>0. TypeOK /\ WorkersAlive /\ WorkIsCurrent /\ WorkIsDrawn /\ WaitIsJust BY DEF Inv
  <2>1. /\ cpc = "execute" /\ c \in Core
        /\ \/ c + 1 < N /\ cpc' = "execute" /\ c' = c + 1
           \/ c + 1 = N /\ cpc' = "finish" /\ c' = 0
    BY <1>4, <2>0 DEF Execute, NextTask, TypeOK
  <2>2. /\ work' = [work EXCEPT ![c] = frame]
        /\ wpc' = [wpc EXCEPT ![c] = IF wpc[c] = "wait" THEN "lock" ELSE wpc[c]]
        /\ wpc[c] # "work" /\ UNCHANGED <<frame, isRunning, ret, exitThread, drawn>>
    BY <1>4, <2>0, <2>1 DEF Execute, MutexFree, SignalWorker, WorkersAlive, Alive
  <2>11. TypeOK' BY <2>0, <2>1, <2>2, SMTT(60) DEF TypeOK
  <2>12. WorkersAlive' BY <2>0, <2>1, <2>2 DEF TypeOK, WorkersAlive, Alive
  <2>13. WorkIsCurrent' BY <2>0, <2>1, <2>2, SMTT(60) DEF TypeOK, WorkIsCurrent, Forked
  <2>14. WorkIsDrawn'
    <3> SUFFICES ASSUME NEW j \in Core
                 PROVE /\ wpc'[j] = "work" => work'[j] # None
                       /\ Forked(j)' /\ work'[j] = None => drawn'[j] = frame'
      BY DEF WorkIsDrawn
    <3>1. CASE j = c BY <2>0, <2>1, <2>2, <3>1 DEF TypeOK, WorkersAlive
    <3>2. CASE j # c
      <4>1. wpc'[j] = wpc[j] /\ work'[j] = work[j] /\ UNCHANGED <<drawn, frame>>
        BY <2>0, <2>2, <3>2 DEF TypeOK
      <4>2. Forked(j)' => Forked(j) BY <2>1, <3>2 DEF Forked
      <4> QED BY <2>0, <4>1, <4>2 DEF WorkIsDrawn
    <3> QED BY <3>1, <3>2
  <2>15. WaitIsJust' BY <2>0, <2>1, <2>2 DEF TypeOK, WaitIsJust
  <2>16. FrameComplete' BY <2>0, <2>1, <2>2 DEF TypeOK, FrameComplete, WorkIsDrawn, WorkIsCurrent, Forked
  <2> QED BY <2>11, <2>12, <2>13, <2>14, <2>15, <2>16 DEF Inv
<1>5. CASE Finish
  <2>0. TypeOK /\ WorkersAlive /\ WorkIsCurrent /\ WorkIsDrawn /\ WaitIsJust BY DEF Inv
  <2>1. /\ cpc = "finish" /\ c \in Core
        /\ \/ work[c] # None /\ cpc' = "fwait" /\ c' = c
           \/ work[c] = None /\ c + 1 < N /\ cpc' = "finish" /\ c' = c + 1
           \/ work[c] = None /\ c + 1 = N /\ cpc' = "process" /\ c' = 0
    BY <1>5, <2>0 DEF Finish, NextTask, TypeOK, WorkersAlive, Alive
  <2>2. UNCHANGED <<frame, wpc, isRunning, work, ret, exitThread, drawn>>
    BY <1>5 DEF Finish, task
  <2>11. TypeOK' BY <2>0, <2>1, <2>2, SMTT(60) DEF TypeOK
  <2>12. WorkersAlive' BY <2>0, <2>1, <2>2 DEF TypeOK, WorkersAlive, Alive
  <2>13. WorkIsCurrent' BY <2>0, <2>1, <2>2, SMTT(60) DEF TypeOK, WorkIsCurrent, Forked
  <2>14. WorkIsDrawn' BY <2>0, <2>1, <2>2 DEF TypeOK, WorkIsDrawn, WorkIsCurrent, Forked
  <2>15. WaitIsJust' BY <2>0, <2>1, <2>2 DEF TypeOK, WaitIsJust
  <2>16. FrameComplete' BY <2>0, <2>1, <2>2 DEF TypeOK, FrameComplete, WorkIsDrawn, WorkIsCurrent, Forked
  <2> QED BY <2>11, <2>12, <2>13, <2>14, <2>15, <2>16 DEF Inv
<1>6. CASE FinishSpurious
  BY <1>6 DEF FinishSpurious, Inv, TypeOK, WorkersAlive, WorkIsCurrent, WorkIsDrawn, WaitIsJust,
         FrameComplete, Forked, Alive, client, task
<1>7. CASE Process
  BY <1>7 DEF Process, Inv, TypeOK, WorkersAlive, WorkIsCurrent, WorkIsDrawn, WaitIsJust,
         FrameComplete, Forked, Alive, client, task
<1>8. CASE SoftRastClose
  BY <1>8 DEF SoftRastClose, Inv, TypeOK, WorkersAlive, WorkIsCurrent, WorkIsDrawn, WaitIsJust,
         FrameComplete, Forked, Alive, client, task
<1>9. CASE Shutdown
  BY <1>9 DEF Shutdown, MutexFree, SignalWorker, Inv, TypeOK, WorkersAlive, WorkIsCurrent, WorkIsDrawn, WaitIsJust,
         FrameComplete, Forked, Alive, client, task
<1>10. CASE Joined
  <2>0. TypeOK /\ WorkersAlive /\ WorkIsCurrent /\ WorkIsDrawn /\ WaitIsJust BY DEF Inv
  <2>1. /\ cpc = "join" /\ c \in Core
        /\ \/ c + 1 < N /\ cpc' = "close" /\ c' = c + 1
           \/ c + 1 = N /\ cpc' = "closed" /\ c' = 0
    BY <1>10, <2>0 DEF Joined, NextTask, TypeOK
  <2>2. /\ UNCHANGED <<frame, wpc, work, ret, exitThread, drawn>>
        /\ isRunning' = [isRunning EXCEPT ![c] = FALSE]
    BY <1>10 DEF Joined
  <2>11. TypeOK' BY <2>0, <2>1, <2>2, SMTT(60) DEF TypeOK
  <2>12. WorkersAlive' BY <2>0, <2>1, <2>2 DEF TypeOK, WorkersAlive, Alive
  <2>13. WorkIsCurrent' BY <2>0, <2>1, <2>2 DEF TypeOK, WorkIsCurrent, Forked
  <2>14. WorkIsDrawn' BY <2>0, <2>1, <2>2 DEF TypeOK, WorkIsDrawn, WorkIsCurrent, Forked
  <2>15. WaitIsJust' BY <2>0, <2>1, <2>2 DEF TypeOK, WaitIsJust
  <2>16. FrameComplete' BY <2>0, <2>1, <2>2 DEF TypeOK, FrameComplete, WorkIsDrawn, WorkIsCurrent, Forked
  <2> QED BY <2>11, <2>12, <2>13, <2>14, <2>15, <2>16 DEF Inv
<1> QED BY <1>1, <1>2, <1>3, <1>4, <1>5, <1>6, <1>7, <1>8, <1>9, <1>10 DEF Client

\* Stuttering keeps the invariant.
LEMMA StutterInv == Inv /\ UNCHANGED vars => Inv'
  BY DEF Inv, TypeOK, WorkersAlive, WorkIsCurrent, WorkIsDrawn, WaitIsJust,
         FrameComplete, Forked, Alive, vars, client, task

\* The invariant holds throughout.
LEMMA SpecInv == Spec => []Inv
<1>1. Inv /\ [Next]_vars => Inv'
  BY WorkerInv, ClientInv, StutterInv DEF Next
<1> QED BY InitInv, <1>1, PTL DEF Spec

\* Types: in particular the client's loop index never leaves the tasks.
THEOREM TypeCorrect == Spec => []TypeOK
  BY SpecInv, PTL DEF Inv

\* SoftRastRender processes a framebuffer only when every band has been drawn for
\* this frame, for any number of cores.
THEOREM FrameIsComplete == Spec => []FrameComplete
  BY SpecInv, PTL DEF Inv

\* The polygon lists are the client's whenever it is not waiting for the tasks.
THEOREM WorkInsideRender == Spec => []NoWorkOutsideRender
<1>1. Inv => NoWorkOutsideRender
  BY DEF Inv, WorkIsDrawn, WorkIsCurrent, Forked, NoWorkOutsideRender
<1> QED BY SpecInv, <1>1, PTL

\* With one condition variable for two directions no thread waits in vain.
THEOREM WakeupsKept == Spec => []NoLostWakeup
<1>1. Inv => NoLostWakeup
  BY DEF Inv, TypeOK, WaitIsJust, WorkersAlive, Alive, NoLostWakeup
<1> QED BY SpecInv, <1>1, PTL

\* The tasks implement ForkJoin: a worker's end is a Draw (or draws the same band
\* again), SoftRastRender forks, Process joins, and everything else is invisible.
THEOREM Refinement == Spec => ImplementsForkJoin
<1> USE DEF Abstract!vars, client, task
<1>1. Init => Abstract!Init
  BY DEF Init, Abstract!Init
<1>2. ASSUME Inv, [Next]_vars
      PROVE [Abstract!Next]_Abstract!vars
  <2>1. CASE \E i \in Core : Worker(i)
    <3> PICK i \in Core : Worker(i) BY <2>1
    <3>1. CASE WorkerDone(i)
      <4>1. work[i] = frame /\ cpc \in {"execute", "finish", "fwait"}
        BY <1>2, <3>1 DEF WorkerDone, Inv, WorkIsDrawn, WorkIsCurrent, Forked
      <4>2. cpc' \in {"execute", "finish", "fwait"} BY <3>1, <4>1 DEF WorkerDone
      <4>3. drawn' = [drawn EXCEPT ![i] = frame] /\ frame' = frame
        BY <3>1, <4>1 DEF WorkerDone
      <4>4. CASE drawn[i] = frame
        <5>1. drawn' = drawn BY <1>2, <4>3, <4>4 DEF Inv, TypeOK
        <5> QED BY <4>1, <4>2, <4>3, <5>1
      <4>5. CASE drawn[i] # frame
        <5>1. Abstract!Draw(i) BY <4>1, <4>2, <4>3, <4>5 DEF Abstract!Draw
        <5> QED BY <5>1 DEF Abstract!Next
      <4> QED BY <4>4, <4>5
    <3>2. CASE WorkerTest(i) \/ WorkerSpurious(i) \/ WorkerLoop(i)
      BY <3>2 DEF WorkerTest, WorkerSpurious, WorkerLoop
    <3> QED BY <3>1, <3>2 DEF Worker
  <2>2. CASE SoftRastRender
    BY <2>2 DEF SoftRastRender, Abstract!Next, Abstract!Fork
  <2>3. CASE Process
    BY <1>2, <2>3 DEF Process, Inv, FrameComplete, Abstract!Next, Abstract!Join
  <2>4. CASE SoftRastInit \/ FinishSpurious \/ SoftRastClose \/ Shutdown
    BY <2>4 DEF SoftRastInit, FinishSpurious, SoftRastClose, Shutdown
  <2>5. CASE Start \/ Execute \/ Finish \/ Joined
    BY <2>5 DEF Start, Execute, Finish, Joined, NextTask
  <2>6. CASE UNCHANGED vars BY <2>6 DEF vars
  <2> QED BY <1>2, <2>1, <2>2, <2>3, <2>4, <2>5, <2>6 DEF Next, Client
<1> QED BY <1>1, <1>2, SpecInv, PTL DEF Spec, ImplementsForkJoin, Abstract!Spec

\* Frames are whole, and workers and client awake when they must be (task.cpp, rasterize.cpp).
THEOREM FramesAreWhole == Spec => []FramesWhole
<1>1. TypeOK /\ FrameComplete /\ NoWorkOutsideRender /\ NoLostWakeup => FramesWhole
  BY DEF FramesWhole
<1> QED
  BY <1>1, TypeCorrect, FrameIsComplete, WorkInsideRender, WakeupsKept, PTL
================================================================================
