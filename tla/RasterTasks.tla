------------------------------ MODULE RasterTasks ------------------------------
(***************************************************************************)
(* The worker threads of the software rasterizer: class Task on pthreads   *)
(* (utils/task.cpp) and its one user, SoftRastRender (rasterize.cpp).      *)
(*                                                                         *)
(* A task has one mutex and ONE condition variable on which both its       *)
(* worker (for work) and its client (for the end of it) wait.  The worker  *)
(* holds the mutex while it runs its work, that is exactly while           *)
(* wpc[i] = "work"; every other critical section is one action.  `work' is *)
(* the frame the worker was asked to draw, None for the null pointer.      *)
(* Bound: MaxFrame frames.                                                 *)
(***************************************************************************)
EXTENDS Naturals

CONSTANTS N,         \* rasterizerCores, 2 or 4 in the code
          MaxFrame

ASSUME NAssumption == N \in Nat \ {0}
ASSUME MaxFrameAssumption == MaxFrame \in Nat

Core == 0 .. N - 1
None == 0

VARIABLES
  cpc, c,        \* the client: where it is, and the i of its loops over the tasks
  frame,         \* the frame it renders
  wpc,           \* the worker threads
  isRunning, work, ret, exitThread,   \* members of Task::Impl
  drawn          \* the frame whose polygons band i of the screen shows

client == <<cpc, c, frame>>
task == <<isRunning, work, ret, exitThread>>
vars == <<client, wpc, task, drawn>>

TypeOK ==
  /\ cpc \in {"closed", "start", "idle", "execute", "finish", "fwait", "process",
              "close", "join"}
  /\ c \in Core
  /\ frame \in 0 .. MaxFrame
  /\ wpc \in [Core -> {"none", "lock", "wait", "work", "check", "done"}]
  /\ isRunning \in [Core -> BOOLEAN]
  /\ work \in [Core -> 0 .. MaxFrame]
  /\ ret \in [Core -> 0 .. MaxFrame]
  /\ exitThread \in [Core -> BOOLEAN]
  /\ drawn \in [Core -> 0 .. MaxFrame]

Init ==
  /\ cpc = "closed" /\ c = 0 /\ frame = 0
  /\ wpc = [i \in Core |-> "none"]
  /\ isRunning = [i \in Core |-> FALSE]
  /\ work = [i \in Core |-> None]
  /\ ret = [i \in Core |-> None]
  /\ exitThread = [i \in Core |-> FALSE]
  /\ drawn = [i \in Core |-> 0]

MutexFree(i) == wpc[i] # "work"

\* pthread_cond_signal by the client: its worker, if it waits, tests again
SignalNone(i) == UNCHANGED wpc   \* mutant: the signal dropped
SignalWorker(i) ==
  wpc' = [wpc EXCEPT ![i] = IF @ = "wait" THEN "lock" ELSE @]

\* the client's loops over the tasks, and what follows the last task
NextTaskOver(again, after) ==   \* mutant: i <= rasterizerCores
  IF c < N THEN cpc' = again /\ c' = c + 1 ELSE cpc' = after /\ c' = 0
NextTask(again, after) ==
  IF c + 1 < N THEN cpc' = again /\ c' = c + 1 ELSE cpc' = after /\ c' = 0

--------------------------------------------------------------------------------
(* The worker: taskProc *)

\* it has the mutex and tests its condition, on entry and after each wait
WorkerTest(i) ==
  /\ wpc[i] = "lock"
  /\ wpc' = [wpc EXCEPT ![i] =
       IF work[i] # None THEN "work" ELSE IF exitThread[i] THEN "check" ELSE "wait"]
  /\ ret' = IF work[i] = None /\ exitThread[i] THEN [ret EXCEPT ![i] = None] ELSE ret
  /\ UNCHANGED <<client, isRunning, work, exitThread, drawn>>

\* a wait may end without a signal
WorkerSpurious(i) ==
  /\ wpc[i] = "wait"
  /\ wpc' = [wpc EXCEPT ![i] = "lock"]
  /\ UNCHANGED <<client, task, drawn>>

\* the work done: the result, the null pointer, the signal, the unlock
WorkerKeepsWork(i) ==   \* mutant: ctx->work = NULL dropped
  /\ wpc[i] = "work"
  /\ drawn' = [drawn EXCEPT ![i] = work[i]]
  /\ ret' = [ret EXCEPT ![i] = work[i]]
  /\ wpc' = [wpc EXCEPT ![i] = "check"]
  /\ cpc' = IF cpc = "fwait" /\ c = i THEN "finish" ELSE cpc
  /\ UNCHANGED <<c, frame, isRunning, work, exitThread>>

WorkerDone(i) ==
  /\ wpc[i] = "work"
  /\ drawn' = [drawn EXCEPT ![i] = work[i]]
  /\ ret' = [ret EXCEPT ![i] = work[i]]
  /\ work' = [work EXCEPT ![i] = None]
  /\ wpc' = [wpc EXCEPT ![i] = "check"]
  /\ cpc' = IF cpc = "fwait" /\ c = i THEN "finish" ELSE cpc
  /\ UNCHANGED <<c, frame, isRunning, exitThread>>

\* while (!exitThread), read without the mutex
WorkerLoop(i) ==
  /\ wpc[i] = "check"
  /\ wpc' = [wpc EXCEPT ![i] = IF exitThread[i] THEN "done" ELSE "lock"]
  /\ UNCHANGED <<client, task, drawn>>

Worker(i) == WorkerTest(i) \/ WorkerSpurious(i) \/ WorkerDone(i) \/ WorkerLoop(i)

--------------------------------------------------------------------------------
(* The client: SoftRastInit, SoftRastRender, SoftRastClose *)

SoftRastInit ==
  /\ cpc = "closed"
  /\ cpc' = "start" /\ c' = 0
  /\ UNCHANGED <<frame, wpc, task, drawn>>

\* Task::start
Start ==
  /\ cpc = "start"
  /\ work' = [work EXCEPT ![c] = None]
  /\ ret' = [ret EXCEPT ![c] = None]
  /\ exitThread' = [exitThread EXCEPT ![c] = FALSE]
  /\ wpc' = [wpc EXCEPT ![c] = "lock"]
  /\ isRunning' = [isRunning EXCEPT ![c] = TRUE]
  /\ NextTask("start", "idle")
  /\ UNCHANGED <<frame, drawn>>

\* SoftRastRender, up to the first execute: the lists of a new frame are set up
SoftRastRender ==
  /\ cpc = "idle"
  /\ frame < MaxFrame
  /\ frame' = frame + 1
  /\ cpc' = "execute" /\ c' = 0
  /\ UNCHANGED <<wpc, task, drawn>>

\* Task::execute
Execute ==
  /\ cpc = "execute"
  /\ MutexFree(c)
  /\ IF isRunning[c]
     THEN work' = [work EXCEPT ![c] = frame] /\ SignalWorker(c)
     ELSE UNCHANGED <<work, wpc>>
  /\ NextTask("execute", "finish")
  /\ UNCHANGED <<frame, isRunning, ret, exitThread, drawn>>

\* Task::finish; the result is not used by the rasterizer
FinishNoWait ==   \* mutant: finish returns without waiting
  /\ cpc = "finish"
  /\ MutexFree(c)
  /\ NextTask("finish", "process")
  /\ UNCHANGED <<frame, wpc, task, drawn>>

Finish ==
  /\ cpc = "finish"
  /\ MutexFree(c)
  /\ IF isRunning[c] /\ work[c] # None
     THEN cpc' = "fwait" /\ UNCHANGED c
     ELSE NextTask("finish", "process")
  /\ UNCHANGED <<frame, wpc, task, drawn>>

FinishSpurious ==
  /\ cpc = "fwait"
  /\ cpc' = "finish"
  /\ UNCHANGED <<c, frame, wpc, task, drawn>>

\* framebufferProcess and the conversion of the screen
Process ==
  /\ cpc = "process"
  /\ cpc' = "idle"
  /\ UNCHANGED <<c, frame, wpc, task, drawn>>

SoftRastClose ==
  /\ cpc = "idle"
  /\ cpc' = "close" /\ c' = 0
  /\ UNCHANGED <<frame, wpc, task, drawn>>

\* Task::shutdown, up to pthread_join
Shutdown ==
  /\ cpc = "close"
  /\ MutexFree(c)
  /\ work' = [work EXCEPT ![c] = None]
  /\ exitThread' = [exitThread EXCEPT ![c] = TRUE]
  /\ SignalWorker(c)
  /\ cpc' = "join"
  /\ UNCHANGED <<c, frame, isRunning, ret, drawn>>

Joined ==
  /\ cpc = "join"
  /\ wpc[c] = "done"
  /\ isRunning' = [isRunning EXCEPT ![c] = FALSE]
  /\ NextTask("close", "closed")
  /\ UNCHANGED <<frame, wpc, work, ret, exitThread, drawn>>

Client ==
  \/ SoftRastInit \/ Start \/ SoftRastRender \/ Execute \/ Finish \/ FinishSpurious
  \/ Process \/ SoftRastClose \/ Shutdown \/ Joined

Next == Client \/ \E i \in Core : Worker(i)

Spec == Init /\ [][Next]_vars

\* A thread that is not blocked runs; spurious wakeups are not owed to anybody,
\* and neither are a new frame, a close or a new start.
Fairness ==
  /\ WF_vars(Start \/ Execute \/ Finish \/ Process \/ Shutdown \/ Joined)
  /\ \A i \in Core : WF_vars(WorkerTest(i) \/ WorkerDone(i) \/ WorkerLoop(i))

FairSpec == Spec /\ Fairness

--------------------------------------------------------------------------------
(* Properties *)

\* When the framebuffer of a frame is processed, every band of it has been drawn,
\* and drawn from the polygons of this frame.
FrameComplete == cpc = "process" => \A i \in Core : drawn[i] = frame

\* The polygon lists the workers read belong to the client: no worker runs while
\* the client may change them or has closed the rasterizer.
NoWorkOutsideRender ==
  \A i \in Core : wpc[i] = "work" => cpc \in {"execute", "finish", "fwait"}

\* One condition variable serves both directions, and a signal nobody waits for is
\* lost: a thread that waits always has its wakeup still to come.
NoLostWakeup ==
  /\ \A i \in Core : wpc[i] = "wait" => work[i] = None /\ ~exitThread[i]
  /\ cpc = "fwait" => work[c] # None /\ wpc[c] \in {"lock", "work", "check"}

\* A frame that is begun is finished.
FrameEnds == cpc = "execute" ~> cpc = "process"

\* Closing joins every worker: none sleeps through the request to exit.
CloseEnds == cpc = "close" ~> cpc = "closed"

\* The frames are whole and the workers awake when they must be (task.cpp, rasterize.cpp).
FramesWhole == TypeOK /\ FrameComplete /\ NoWorkOutsideRender /\ NoLostWakeup

\* Every call of the client returns: rendering and closing (SoftRastRender, SoftRastClose).
CallsEnd == FrameEnds /\ CloseEnds

Abstract == INSTANCE ForkJoin WITH
  Band <- Core,
  rendering <- cpc \in {"execute", "finish", "fwait", "process"}

\* The tasks with their mutexes and signals fork and join frames as ForkJoin says.
ImplementsForkJoin == Abstract!Spec
================================================================================
