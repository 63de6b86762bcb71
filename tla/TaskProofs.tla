----------------------------- MODULE TaskProofs -----------------------------
(***************************************************************************)
(* Proofs about tasks, for any number of tasks, any width of the tid and   *)
(* any programs.                                                           *)
(***************************************************************************)
EXTENDS Task, WellFoundedInduction, TLAPS

(* A task in the middle of task_fork has its ntask. *)
ChildKnown == \A s \in Tasks :
                 pc[s] \in ForkPoints \ {"fork"} => child[s] \in Tasks

TInv == TypeOK /\ ChildKnown

(* As long as no interrupt has come in task_exit, only the code that runs can
   be where task_exit has already moved the foreground; and if none has come in
   the scheduler, every ctx points into its own task's stack, and the code that
   runs is that of the foreground task. *)
StackInv ==
    Without({"exit"}) =>
        /\ \A t \in Tasks : t # esp => pc[t] \notin ExitWindow
        /\ esp # Nowhere =>
              /\ \A t \in Tasks : ctx[t] = t
              /\ esp \in Tasks /\ pc[esp] \notin ExitWindow => fgtask = esp

(* If no interrupt has come in task_yield either, then only the code that
   runs is between its two halves, and no task that is about to leave the
   CPU is still RUNNING. *)
RunInv ==
    Without({"exit", "yield"}) =>
        \A t \in Tasks :
            /\ state[t] = "RUNNING" => esp = t
            /\ pc[t] = "yield_marked" => esp = t
            /\ pc[t] \in {"yield_marked", "exit_stopped", "exit_clear"}
               => state[t] # "RUNNING"

(* Only an interrupt in the scheduler leads nowhere. *)
NowhereKnown == esp = Nowhere => "scheduler" \in mishap

IInv == TInv /\ StackInv /\ RunInv /\ NowhereKnown

(* The stores of task_exit, and those that put a child into the ring. *)
ExitUnlink(s) == ExitNext(s) \/ ExitPrev(s) \/ ExitStop(s) \/ ExitClear(s)
ForkInsert(s) == ForkPrev(s) \/ ForkForward(s) \/ ForkBackward(s) \/ ForkHead(s)

-----------------------------------------------------------------------------
(* The initial state satisfies the invariant. *)
LEMMA InitIInv == Init => IInv
<1>. SUFFICES ASSUME Init PROVE IInv
  OBVIOUS
<1>. USE TaskAssumption
<1>1. 1 \in Tasks /\ 1 \in Tids /\ 0 \in Tids /\ Kernel \notin Tasks
  BY DEF Tasks, Tids, Kernel
<1>2. TypeOK
  BY <1>1 DEF Init, TypeOK, States, Points, NoResult, None
<1>3. ChildKnown
  BY DEF Init, ChildKnown, ForkPoints, Publishing, Linking
<1>6. NowhereKnown
  BY DEF Init, NowhereKnown, Kernel, Nowhere
<1>4. StackInv
  BY <1>1 DEF Init, StackInv, ExitWindow, Nowhere, Kernel
<1>5. RunInv
  BY DEF Init, RunInv
<1>. QED
  BY <1>2, <1>3, <1>4, <1>5, <1>6 DEF IInv, TInv
-----------------------------------------------------------------------------
(* tid++ keeps the counter in range: the modulus is the range of uint8_t. *)
LEMMA CountTidType ==
    ASSUME NEW s \in Tasks, TypeOK, child[s] \in Tasks, CountTid(s)
    PROVE  tid' \in Tids
<1>1. tidOf[child[s]] \in Nat /\ TidSpan \in Nat \ {0}
  BY TaskAssumption DEF TypeOK, Tids
<1>2. (tidOf[child[s]] + 1) % TidSpan \in 0 .. TidSpan - 1
  BY <1>1
<1>. QED
  BY <1>2 DEF CountTid, Tids

-----------------------------------------------------------------------------
(* Every step preserves the types.  Only what the latest task_fork of a task
   allocated needs more than the types: task_fork reads its tid. *)
LEMMA TypeStep == TInv /\ [Next]_vars => TInv'
<1>. SUFFICES ASSUME TInv, [Next]_vars PROVE TInv'
  OBVIOUS
<1>. USE TaskAssumption DEF TInv, TypeOK, ChildKnown
<1>1. CASE UNCHANGED vars
  BY <1>1 DEF vars, ring, forkVars
<1>2. CASE SchedulerSkip
  BY <1>2 DEF SchedulerSkip, ring, forkVars
<1>3. CASE SchedulerDispatch
  BY <1>3 DEF SchedulerDispatch, ring, forkVars, States, Points, ForkPoints,
              Publishing, Linking
<1>4. CASE Interrupt
  BY <1>4 DEF Interrupt, Preempt, ring, forkVars, States, Mishap, Mishaps, Publishing,
              Linking
<1>5. CASE PageFault
  BY <1>5 DEF PageFault, Preempt, ring, forkVars, States
<1>6. CASE InterruptScheduler
  BY <1>6 DEF InterruptScheduler, ring, forkVars, States, Mishaps
<1>7. CASE Runaway
  BY <1>7 DEF Runaway, vars, ring, forkVars
<1>8. ASSUME NEW s \in Tasks, UserStep(s) PROVE TInv'
  <2>1. \E point \in {"user", "yield", "exit", "fork", "wait"} :
            Enter(s, point)
    BY <1>8 DEF UserStep, OtherCall, YieldCall, ExitCall, ForkCall, WaitCall
  <2>. QED
    BY <2>1 DEF Enter, ring, forkVars, Points, ForkPoints, Publishing, Linking
<1>9. ASSUME NEW s \in Tasks, KernelStep(s) PROVE TInv'
  <2>. USE DEF CanRun, Continue, SwitchToScheduler, ring, forkVars, States, Points,
               ForkPoints, Publishing, Linking, ExitWindow
  <2>1. CASE YieldMark(s)
    BY <2>1 DEF YieldMark
  <2>2. CASE YieldSwitch(s)
    BY <2>2 DEF YieldSwitch
  <2>3. CASE ExitForeground(s)
    BY <2>3 DEF ExitForeground
  <2>4. CASE ExitUnlink(s)
    <3>1. CASE ExitNext(s) \/ ExitPrev(s)
      BY <3>1 DEF ExitNext, ExitPrev
    <3>2. CASE ExitStop(s)
      BY <3>2 DEF ExitStop
    <3>3. CASE ExitClear(s)
      BY <3>3 DEF ExitClear
    <3>. QED
      BY <2>4, <3>1, <3>2, <3>3 DEF ExitUnlink
  <2>5. CASE ExitSwitch(s)
    BY <2>5 DEF ExitSwitch
  <2>6. CASE WaitReturn(s)
    BY <2>6 DEF WaitReturn, NoResult
  <2>7. CASE ForkReadTid(s)
    BY <2>7 DEF ForkReadTid, Mishaps
  <2>8. CASE ForkNewDirectory(s)
    <3>1. child[s] \in Tasks
      BY <2>8 DEF ForkNewDirectory
    <3>2. tid' \in Tids
      BY <2>8, <3>1, CountTidType DEF ForkNewDirectory
    <3>. QED
      BY <2>8, <3>1, <3>2 DEF ForkNewDirectory
  <2>9. CASE ForkStack(s) \/ ForkStore(s)
    BY <2>9 DEF ForkStack, ForkStore
  <2>15. CASE ForkInsert(s)
    BY <2>15 DEF ForkInsert, ForkPrev, ForkForward, ForkBackward, ForkHead
  <2>10. CASE ForkPublish(s)
    BY <2>10 DEF ForkPublish
  <2>11. CASE ForkContext(s)
    <3>1. child[s] \in Tasks /\ 0 \in Tids
      BY <2>11 DEF ForkContext, Tids
    <3>2. PICK point \in {"user", "lost"} :
              pc' = [pc EXCEPT ![s] = "fork_end", ![child[s]] = point]
      BY <2>11 DEF ForkContext
    <3>3. pc' \in [Tasks -> Points]
          /\ frame' \in [Tasks -> {"none", "on", "off"}]
          /\ got' \in [Tasks -> {NoResult, -1} \cup Tids]
      BY <2>11, <3>1, <3>2 DEF ForkContext
    <3>4. ChildKnown'
      BY <2>11, <3>1, <3>2 DEF ForkContext
    <3>. QED
      BY <2>11, <3>3, <3>4 DEF ForkContext
  <2>12. CASE ForkReturn(s)
    BY <2>12 DEF ForkReturn
  <2>13. CASE ForkFail(s)
    <3>1. tid' \in Tids
      BY <2>13, CountTidType DEF ForkFail
    <3>. QED
      BY <2>13, <3>1 DEF ForkFail
  <2>14. CASE ForkMapFail(s)
    BY <2>14 DEF ForkMapFail, Tids, Mishaps
  <2>. QED
    BY <1>9, <2>1, <2>2, <2>3, <2>4, <2>5, <2>6, <2>7, <2>8, <2>9, <2>10,
       <2>11, <2>12, <2>13, <2>14, <2>15 DEF KernelStep, Fork, ExitUnlink, ForkInsert
<1>. QED
  BY <1>1, <1>2, <1>3, <1>4, <1>5, <1>6, <1>7, <1>8, <1>9
  DEF Next, Scheduler
-----------------------------------------------------------------------------
(* What has gone wrong stays recorded. *)
LEMMA MishapsStay ==
    ASSUME TInv, [Next]_vars
    PROVE  mishap \subseteq mishap'
<1>1. CASE UNCHANGED vars
  BY <1>1 DEF vars
<1>2. CASE Scheduler
  BY <1>2 DEF Scheduler, SchedulerSkip, SchedulerDispatch
<1>3. CASE Interrupt \/ PageFault \/ InterruptScheduler \/ Runaway
  BY <1>3 DEF Interrupt, PageFault, InterruptScheduler, Runaway, vars
<1>4. ASSUME NEW s \in Tasks, UserStep(s) PROVE mishap \subseteq mishap'
  BY <1>4 DEF UserStep, OtherCall, YieldCall, ExitCall, ForkCall, WaitCall,
              Enter
<1>5. ASSUME NEW s \in Tasks, KernelStep(s) PROVE mishap \subseteq mishap'
  BY <1>5 DEF KernelStep, Fork, YieldMark, YieldSwitch, ExitForeground, ExitUnlink,
              ExitNext, ExitPrev, ExitStop, ExitClear, ExitSwitch, WaitReturn,
              ForkReadTid, ForkNewDirectory, CountTid, ForkStack, ForkStore,
              ForkPublish, ForkInsert, ForkPrev, ForkForward, ForkBackward, ForkHead,
              ForkContext, ForkReturn, ForkFail, ForkMapFail
<1>. QED
  BY <1>1, <1>2, <1>3, <1>4, <1>5 DEF Next

(* The names of stacks and tasks are distinct. *)
LEMMA StackNames == /\ Kernel \notin Tasks /\ Nowhere \notin Tasks
                    /\ Kernel # Nowhere /\ None \notin Tasks
  BY TaskAssumption DEF Tasks, Kernel, Nowhere, None

(* Only an interrupt in the scheduler leads nowhere. *)
LEMMA OnlyWayNowhere ==
    ASSUME TInv, [Next]_vars, esp # Nowhere, esp' = Nowhere
    PROVE  InterruptScheduler
<1>. SUFFICES ASSUME ~InterruptScheduler PROVE FALSE
  OBVIOUS
<1>. USE StackNames DEF TInv, TypeOK
<1>1. CASE UNCHANGED vars \/ Runaway
  BY <1>1 DEF vars, Runaway
<1>2. CASE Scheduler
  BY <1>2 DEF Scheduler, SchedulerSkip, SchedulerDispatch
<1>3. CASE Interrupt \/ PageFault
  BY <1>3 DEF Interrupt, PageFault, Preempt
<1>4. ASSUME NEW s \in Tasks, UserStep(s) PROVE FALSE
  BY <1>4 DEF UserStep, OtherCall, YieldCall, ExitCall, ForkCall, WaitCall,
              Enter
<1>5. ASSUME NEW s \in Tasks, KernelStep(s) PROVE FALSE
  BY <1>5 DEF KernelStep, Fork, CanRun, Continue, SwitchToScheduler, YieldMark,
              YieldSwitch, ExitForeground, ExitUnlink, ExitNext, ExitPrev, ExitStop,
              ExitClear, ExitSwitch, WaitReturn, ForkReadTid, ForkNewDirectory,
              ForkStack, ForkStore, ForkPublish, ForkInsert, ForkPrev, ForkForward,
              ForkBackward, ForkHead, ForkContext, ForkReturn, ForkFail, ForkMapFail
<1>. QED
  BY <1>1, <1>2, <1>3, <1>4, <1>5 DEF Next

(* ... and it is recorded. *)
LEMMA NowhereStep == TInv /\ NowhereKnown /\ [Next]_vars => NowhereKnown'
<1>. SUFFICES ASSUME TInv, NowhereKnown, [Next]_vars, esp' = Nowhere
              PROVE  "scheduler" \in mishap'
  BY DEF NowhereKnown, Nowhere
<1>1. CASE esp = Nowhere
  BY <1>1, MishapsStay DEF NowhereKnown
<1>2. CASE esp # Nowhere
  BY <1>2, OnlyWayNowhere DEF InterruptScheduler
<1>. QED
  BY <1>1, <1>2

(* No step breaks the correspondence of stacks and tasks unless it is one of
   the recorded mishaps.  The code that runs is the foreground task's, so
   both an interrupt and a voluntary switch store a task's own stack. *)
LEMMA StackStep == TInv /\ StackInv /\ [Next]_vars => StackInv'
<1>. SUFFICES ASSUME TInv, StackInv, [Next]_vars,
                     Without({"exit"})'
              PROVE  StackInv'
  BY DEF StackInv
<1>1. /\ \A t \in Tasks : t # esp => pc[t] \notin ExitWindow
      /\ esp # Nowhere =>
            /\ \A t \in Tasks : ctx[t] = t
            /\ esp \in Tasks /\ pc[esp] \notin ExitWindow => fgtask = esp
  BY MishapsStay DEF StackInv, Without
<1>2. Kernel \notin Tasks /\ Nowhere \notin Tasks /\ Kernel # Nowhere
  BY TaskAssumption DEF Tasks, Kernel, Nowhere
<1>. USE <1>1, <1>2 DEF TInv, TypeOK, StackInv
<1>3. CASE UNCHANGED vars
  BY <1>3 DEF vars
<1>4. CASE SchedulerSkip
  BY <1>4 DEF SchedulerSkip
<1>5. CASE SchedulerDispatch
  BY <1>5 DEF SchedulerDispatch, ExitWindow
<1>6. CASE Interrupt
  <2>1. pc[esp] \notin ExitWindow
    BY <1>6 DEF Interrupt, Mishap, Without, ExitWindow, Publishing, Linking
  <2>. QED
    BY <1>6, <2>1 DEF Interrupt, Preempt
<1>7. CASE PageFault
  BY <1>7 DEF PageFault, Preempt, ExitWindow
<1>8. CASE InterruptScheduler
  BY <1>8 DEF InterruptScheduler
<1>9. CASE Runaway
  BY <1>9 DEF Runaway, vars
<1>10. ASSUME NEW s \in Tasks, UserStep(s) PROVE StackInv'
  <2>1. \E point \in {"user", "yield", "exit", "fork", "wait"} :
            Enter(s, point)
    BY <1>10 DEF UserStep, OtherCall, YieldCall, ExitCall, ForkCall, WaitCall
  <2>. QED
    BY <2>1 DEF Enter, CanRun, ExitWindow
<1>11. ASSUME NEW s \in Tasks, KernelStep(s) PROVE StackInv'
  <2>. USE DEF CanRun, Continue, ExitWindow
  <2>1. CASE YieldMark(s)
    BY <2>1 DEF YieldMark
  <2>2. CASE YieldSwitch(s)
    BY <2>2 DEF YieldSwitch, SwitchToScheduler
  <2>3. CASE ExitForeground(s)
    BY <2>3 DEF ExitForeground
  <2>4. CASE ExitUnlink(s)
    BY <2>4 DEF ExitUnlink, ExitNext, ExitPrev, ExitStop, ExitClear
  <2>5. CASE ExitSwitch(s)
    BY <2>5 DEF ExitSwitch, SwitchToScheduler
  <2>6. CASE WaitReturn(s)
    BY <2>6 DEF WaitReturn
  <2>7. CASE \/ ForkReadTid(s) \/ ForkNewDirectory(s)
             \/ ForkStack(s) \/ ForkStore(s)
    BY <2>7 DEF ForkReadTid, ForkNewDirectory, ForkStack, ForkStore
  <2>12. CASE ForkInsert(s)
    BY <2>12 DEF ForkInsert, ForkPrev, ForkForward, ForkBackward, ForkHead
  <2>8. CASE ForkPublish(s)
    BY <2>8 DEF ForkPublish
  <2>9. CASE ForkContext(s)
    BY <2>9 DEF ForkContext
  <2>10. CASE ForkReturn(s) \/ ForkMapFail(s)
    BY <2>10 DEF ForkReturn, ForkMapFail
  <2>11. CASE ForkFail(s)
    BY <2>11 DEF ForkFail
  <2>. QED
    BY <1>11, <2>1, <2>2, <2>3, <2>4, <2>5, <2>6, <2>7, <2>8, <2>9, <2>10,
       <2>11, <2>12 DEF KernelStep, Fork, ExitUnlink, ForkInsert
<1>. QED
  BY <1>3, <1>4, <1>5, <1>6, <1>7, <1>8, <1>9, <1>10, <1>11
  DEF Next, Scheduler

(* A task that leaves the CPU is first made RUNNABLE or STOPPED, and nothing
   makes it RUNNING again before it is dispatched. *)
LEMMA RunStep == TInv /\ StackInv /\ RunInv /\ [Next]_vars => RunInv'
<1>. SUFFICES ASSUME TInv, StackInv, RunInv, [Next]_vars,
                     Without({"exit", "yield"})',
                     NEW t \in Tasks
              PROVE  (/\ state[t] = "RUNNING" => esp = t
                      /\ pc[t] = "yield_marked" => esp = t
                      /\ pc[t] \in {"yield_marked", "exit_stopped", "exit_clear"}
                         => state[t] # "RUNNING")'
  BY DEF RunInv
<1>1. Without({"exit", "yield"}) /\ Without({"exit"})
  BY MishapsStay DEF Without
<1>2. /\ \A u \in Tasks : u # esp => pc[u] \notin ExitWindow
      /\ esp # Nowhere =>
            /\ \A u \in Tasks : ctx[u] = u
            /\ esp \in Tasks /\ pc[esp] \notin ExitWindow => fgtask = esp
  BY <1>1 DEF StackInv
<1>3. \A u \in Tasks : /\ state[u] = "RUNNING" => esp = u
                       /\ pc[u] = "yield_marked" => esp = u
                       /\ pc[u] \in {"yield_marked", "exit_stopped", "exit_clear"}
                          => state[u] # "RUNNING"
  BY <1>1 DEF RunInv
<1>4. Kernel \notin Tasks /\ Nowhere \notin Tasks /\ Kernel # Nowhere
  BY TaskAssumption DEF Tasks, Kernel, Nowhere
<1>. USE <1>2, <1>3, <1>4 DEF TInv, TypeOK
<1>5. CASE UNCHANGED vars
  BY <1>5 DEF vars
<1>6. CASE SchedulerSkip
  BY <1>6 DEF SchedulerSkip
<1>7. CASE SchedulerDispatch
  BY <1>7 DEF SchedulerDispatch, ExitWindow
<1>8. CASE Interrupt
  <2>1. pc[esp] \notin ExitWindow \cup {"yield_marked"}
    BY <1>8 DEF Interrupt, Mishap, Without, ExitWindow, Publishing, Linking
  <2>. QED
    BY <1>8, <2>1 DEF Interrupt, Preempt, ExitWindow
<1>9. CASE PageFault
  BY <1>9 DEF PageFault, Preempt, ExitWindow
<1>10. CASE InterruptScheduler
  BY <1>10 DEF InterruptScheduler
<1>11. CASE Runaway
  BY <1>11 DEF Runaway, vars
<1>12. ASSUME NEW s \in Tasks, UserStep(s) PROVE RunInv'
  <2>1. \E point \in {"user", "yield", "exit", "fork", "wait"} :
            Enter(s, point)
    BY <1>12 DEF UserStep, OtherCall, YieldCall, ExitCall, ForkCall, WaitCall
  <2>. QED
    BY <2>1 DEF Enter, CanRun, ExitWindow, RunInv
<1>13. ASSUME NEW s \in Tasks, KernelStep(s) PROVE RunInv'
  <2>. USE DEF CanRun, Continue, ExitWindow, RunInv
  <2>1. CASE YieldMark(s)
    BY <2>1 DEF YieldMark
  <2>2. CASE YieldSwitch(s)
    BY <2>2 DEF YieldSwitch, SwitchToScheduler
  <2>3. CASE ExitForeground(s)
    BY <2>3 DEF ExitForeground
  <2>4. CASE ExitUnlink(s)
    BY <2>4 DEF ExitUnlink, ExitNext, ExitPrev, ExitStop, ExitClear
  <2>5. CASE ExitSwitch(s)
    BY <2>5 DEF ExitSwitch, SwitchToScheduler
  <2>6. CASE WaitReturn(s)
    BY <2>6 DEF WaitReturn
  <2>7. CASE \/ ForkReadTid(s) \/ ForkNewDirectory(s)
             \/ ForkStack(s) \/ ForkStore(s)
    BY <2>7 DEF ForkReadTid, ForkNewDirectory, ForkStack, ForkStore
  <2>12. CASE ForkInsert(s)
    BY <2>12 DEF ForkInsert, ForkPrev, ForkForward, ForkBackward, ForkHead
  <2>8. CASE ForkPublish(s)
    BY <2>8 DEF ForkPublish, ChildKnown, ForkPoints, Publishing, Linking
  <2>9. CASE ForkContext(s)
    BY <2>9 DEF ForkContext
  <2>10. CASE ForkReturn(s) \/ ForkMapFail(s)
    BY <2>10 DEF ForkReturn, ForkMapFail
  <2>11. CASE ForkFail(s)
    BY <2>11 DEF ForkFail
  <2>. QED
    BY <1>13, <2>1, <2>2, <2>3, <2>4, <2>5, <2>6, <2>7, <2>8, <2>9, <2>10,
       <2>11, <2>12 DEF KernelStep, Fork, ExitUnlink, ForkInsert
<1>. QED
  BY <1>5, <1>6, <1>7, <1>8, <1>9, <1>10, <1>11, <1>12, <1>13
  DEF Next, Scheduler, RunInv

-----------------------------------------------------------------------------
(* The invariant holds in every state of the kernel. *)
THEOREM InvariantHolds == Spec => []IInv
<1>1. IInv /\ [Next]_vars => IInv'
  BY TypeStep, StackStep, RunStep, NowhereStep DEF IInv
<1>. QED
  BY InitIInv, <1>1, PTL DEF Spec

(* The type invariant, for any number of tasks and any programs. *)
THEOREM TypeCorrect == Spec => []TypeOK
<1>1. IInv => TypeOK
  BY DEF IInv, TInv
<1>. QED
  BY InvariantHolds, <1>1, PTL

(* Every task is resumed from its own stack, as long as no interrupt comes
   in the scheduler or in task_exit. *)
THEOREM ContextsAreSafe == Spec => []ContextSafe
<1>1. IInv => ContextSafe
  BY DEF IInv, NowhereKnown, StackInv, ContextSafe, Without,
         ResumedFromOwnStack
<1>. QED
  BY InvariantHolds, <1>1, PTL

(* No task is left RUNNING off the CPU, as long as no interrupt comes in
   task_exit or between the halves of task_yield. *)
THEOREM NobodyIsStranded == Spec => []NoneStranded
<1>1. IInv => NoneStranded
  BY DEF IInv, RunInv, NoneStranded, RunningHasCpu
<1>. QED
  BY InvariantHolds, <1>1, PTL
-----------------------------------------------------------------------------
(* There is no way back from nowhere. *)
LEMMA NowhereStays == TInv /\ [Next]_vars /\ esp = Nowhere => UNCHANGED vars
<1>. SUFFICES ASSUME [Next]_vars, esp = Nowhere PROVE UNCHANGED vars
  OBVIOUS
<1>1. CASE Scheduler
  BY <1>1, StackNames DEF Scheduler, SchedulerSkip, SchedulerDispatch
<1>2. CASE Interrupt \/ PageFault \/ InterruptScheduler
  BY <1>2, StackNames DEF Interrupt, PageFault, InterruptScheduler
<1>3. ASSUME NEW s \in Tasks, UserStep(s) PROVE FALSE
  BY <1>3, StackNames DEF UserStep, OtherCall, YieldCall, ExitCall, ForkCall,
                          WaitCall, Enter, CanRun
<1>4. ASSUME NEW s \in Tasks, KernelStep(s) PROVE FALSE
  BY <1>4, StackNames
  DEF KernelStep, Fork, CanRun, YieldMark, YieldSwitch, ExitForeground, ExitUnlink,
      ExitNext, ExitPrev, ExitStop, ExitClear, ExitSwitch, WaitReturn, ForkReadTid,
      ForkNewDirectory, ForkStack, ForkStore, ForkPublish, ForkInsert, ForkPrev,
      ForkForward, ForkBackward, ForkHead, ForkContext, ForkReturn, ForkFail,
      ForkMapFail
<1>. QED
  BY <1>1, <1>2, <1>3, <1>4 DEF Next, Runaway

-----------------------------------------------------------------------------
(* Who is on which stack, and what is in the ring: for any number of tasks,
   any programs and interrupts anywhere. *)

Unborn(t) == state[t] \in {"free", "new"}

(* From the allocation of ntask until it can run. *)
MidFork == {"fork_tid", "fork_cr3", "fork_store", "fork_ctx"} \cup Publishing

(* The code on the CPU is the foreground task's, but for the end of task_exit,
   and nobody else is going to be resumed on its stack. *)
CpuInv ==
    esp \in Tasks =>
        /\ pc[esp] # "raw"
        /\ pc[esp] \notin ExitWindow => fgtask = esp /\ ctx[esp] = esp
        /\ \A t \in Tasks : state[t] = "RUNNABLE" /\ ctx[t] = esp
                               => t = esp /\ pc[t] = "yield_marked"

(* What is going to be dispatched is resumed on its own stack or finishes
   another's task_exit, and no two on one stack. *)
ReadyInv ==
    \A t \in Tasks : state[t] = "RUNNABLE" =>
        /\ ctx[t] \in Tasks
        /\ ctx[t] = t \/ pc[ctx[t]] \in ExitWindow
        /\ \A u \in Tasks : state[u] = "RUNNABLE" /\ ctx[u] = ctx[t] => u = t

(* What has not been published is not in the ring and has not run. *)
RingInv ==
    /\ \A t \in Tasks : Unborn(t) => ctx[t] = t /\ pc[t] = "raw" /\ prev[t] = t
    /\ ~Unborn(fgtask) /\ ~Unborn(htask)
    /\ \A t \in Tasks : ~Unborn(t) => ~Unborn(next[t]) /\ ~Unborn(prev[t])

(* A task that is being built is new until it is published, has not run a
   program before it is built, and is built by one task. *)
BirthInv ==
    /\ \A t \in Tasks : /\ pc[t] \in {"raw", "lost"}
                              => child[t] = None /\ state[t] # "STOPPED"
                        /\ child[t] # None => state[child[t]] # "free"
    /\ \A s \in Tasks : pc[s] \in MidFork =>
          /\ IF pc[s] \in Publishing
               THEN pc[child[s]] \in {"raw", "lost"} /\ ~Unborn(child[s])
               ELSE state[child[s]] = "new"
          /\ \A p \in Tasks : pc[p] \in MidFork /\ child[p] = child[s] => p = s

OwnerInv == esp # Nowhere => CpuInv /\ ReadyInv /\ RingInv /\ BirthInv

-----------------------------------------------------------------------------
LEMMA InitOwner == Init => OwnerInv
<1>. SUFFICES ASSUME Init PROVE OwnerInv
  OBVIOUS
<1>1. 1 \in Tasks /\ esp \notin Tasks
  BY TaskAssumption DEF Init, Tasks, Kernel
<1>. QED
  BY <1>1 DEF Init, OwnerInv, CpuInv, ReadyInv, RingInv, BirthInv, Unborn, MidFork,
              Publishing, Linking

-----------------------------------------------------------------------------
(* Every dispatch finds what ReadyInv says, every switch and interrupt leaves
   the CPU, and fork and task_exit keep to their own stack. *)
LEMMA CpuStep ==
    ASSUME TInv, CpuInv, ReadyInv, RingInv, BirthInv, [Next]_vars, esp # Nowhere
    PROVE  CpuInv'
<1>. USE StackNames DEF TInv, TypeOK, CpuInv
<1>1. CASE UNCHANGED vars \/ Runaway
  BY <1>1 DEF vars, Runaway
<1>2. CASE SchedulerSkip
  BY <1>2 DEF SchedulerSkip
<1>3. CASE SchedulerDispatch
  BY <1>3 DEF SchedulerDispatch, ReadyInv, ExitWindow
<1>4. CASE Interrupt \/ PageFault \/ InterruptScheduler
  BY <1>4 DEF Interrupt, PageFault, Preempt, InterruptScheduler
<1>5. ASSUME NEW s \in Tasks, UserStep(s) PROVE CpuInv'
  <2>1. \E point \in {"user", "yield", "exit", "fork", "wait"} :
            Enter(s, point)
    BY <1>5 DEF UserStep, OtherCall, YieldCall, ExitCall, ForkCall, WaitCall
  <2>. QED
    BY <2>1 DEF Enter, CanRun, ExitWindow
<1>6. ASSUME NEW s \in Tasks, KernelStep(s) PROVE CpuInv'
  <2>. USE DEF CanRun, Continue, ExitWindow
  <2>1. CASE YieldMark(s)
    BY <2>1 DEF YieldMark
  <2>2. CASE YieldSwitch(s) \/ ExitSwitch(s)
    BY <2>2 DEF YieldSwitch, ExitSwitch, SwitchToScheduler
  <2>3. CASE ExitForeground(s)
    BY <2>3 DEF ExitForeground
  <2>4. CASE ExitUnlink(s)
    BY <2>4 DEF ExitUnlink, ExitNext, ExitPrev, ExitStop, ExitClear
  <2>5. CASE WaitReturn(s)
    BY <2>5 DEF WaitReturn
  <2>6. CASE ForkReadTid(s)
    BY <2>6 DEF ForkReadTid
  <2>7. CASE \/ ForkNewDirectory(s) \/ ForkStack(s) \/ ForkStore(s)
             \/ ForkReturn(s) \/ ForkMapFail(s)
    BY <2>7 DEF ForkNewDirectory, ForkStack, ForkStore, ForkReturn, ForkMapFail
  <2>8. CASE ForkFail(s)
    BY <2>8 DEF ForkFail
  <2>11. CASE ForkInsert(s)
    BY <2>11 DEF ForkInsert, ForkPrev, ForkForward, ForkBackward, ForkHead
  <2>9. CASE ForkPublish(s)
    BY <2>9 DEF ForkPublish, ChildKnown, ForkPoints, Publishing, Linking, BirthInv,
                RingInv, MidFork, Unborn
  <2>10. CASE ForkContext(s)
    BY <2>10 DEF ForkContext, ChildKnown, ForkPoints, Publishing, Linking, BirthInv,
                 MidFork
  <2>. QED
    BY <1>6, <2>1, <2>2, <2>3, <2>4, <2>5, <2>6, <2>7, <2>8, <2>9, <2>10, <2>11
    DEF KernelStep, Fork, ExitUnlink, ForkInsert
<1>. QED
  BY <1>1, <1>2, <1>3, <1>4, <1>5, <1>6 DEF Next, Scheduler

(* What is made RUNNABLE is on the CPU, with its context about to be stored,
   or is new; and task_exit leaves its stack when nobody waits for it. *)
LEMMA ReadyStep ==
    ASSUME TInv, CpuInv, ReadyInv, RingInv, BirthInv, [Next]_vars, esp # Nowhere,
           esp' # Nowhere
    PROVE  ReadyInv'
<1>. USE StackNames DEF TInv, TypeOK, ReadyInv
<1>1. CASE UNCHANGED vars \/ Runaway
  BY <1>1 DEF vars, Runaway
<1>2. CASE SchedulerSkip
  BY <1>2 DEF SchedulerSkip
<1>3. CASE SchedulerDispatch
  BY <1>3 DEF SchedulerDispatch, ExitWindow
<1>4. CASE Interrupt \/ PageFault \/ InterruptScheduler
  <2>1. Preempt(esp) /\ esp \in Tasks
    BY <1>4 DEF Interrupt, PageFault, InterruptScheduler
  <2>2. fgtask \in Tasks /\ (esp = fgtask \/ pc[esp] \in ExitWindow)
    BY <2>1 DEF CpuInv
  <2>3. \A u \in Tasks : state[u] = "RUNNABLE" /\ ctx[u] = esp => u = fgtask
    BY <2>1, <2>2 DEF CpuInv, ExitWindow
  <2>. QED
    BY <2>1, <2>2, <2>3 DEF Preempt
<1>5. ASSUME NEW s \in Tasks, UserStep(s) PROVE ReadyInv'
  <2>1. \E point \in {"user", "yield", "exit", "fork", "wait"} :
            Enter(s, point)
    BY <1>5 DEF UserStep, OtherCall, YieldCall, ExitCall, ForkCall, WaitCall
  <2>. QED
    BY <2>1 DEF Enter, CanRun, ExitWindow, CpuInv
<1>6. ASSUME NEW s \in Tasks, KernelStep(s) PROVE ReadyInv'
  <2>. USE DEF CanRun, Continue, ExitWindow
  <2>1. CASE YieldMark(s)
    BY <2>1 DEF YieldMark, CpuInv
  <2>2. CASE YieldSwitch(s) \/ ExitSwitch(s)
    BY <2>2 DEF YieldSwitch, ExitSwitch, SwitchToScheduler, CpuInv
  <2>3. CASE ExitForeground(s)
    BY <2>3 DEF ExitForeground
  <2>4. CASE ExitUnlink(s)
    BY <2>4 DEF ExitUnlink, ExitNext, ExitPrev, ExitStop, ExitClear
  <2>5. CASE WaitReturn(s)
    BY <2>5 DEF WaitReturn
  <2>6. CASE ForkReadTid(s)
    BY <2>6 DEF ForkReadTid
  <2>7. CASE \/ ForkNewDirectory(s) \/ ForkStack(s) \/ ForkStore(s)
             \/ ForkReturn(s) \/ ForkMapFail(s)
    BY <2>7 DEF ForkNewDirectory, ForkStack, ForkStore, ForkReturn, ForkMapFail
  <2>8. CASE ForkFail(s)
    BY <2>8 DEF ForkFail
  <2>11. CASE ForkInsert(s)
    BY <2>11 DEF ForkInsert, ForkPrev, ForkForward, ForkBackward, ForkHead
  <2>9. CASE ForkPublish(s)
    <3>1. LET c == child[s] IN c \in Tasks /\ ctx[c] = c /\ pc[c] = "raw" /\ c # s
      BY <2>9 DEF ForkPublish, ChildKnown, ForkPoints, Publishing, Linking, BirthInv,
                  RingInv, MidFork, Unborn
    <3>. QED
      BY <2>9, <3>1 DEF ForkPublish
  <2>10. CASE ForkContext(s)
    BY <2>10 DEF ForkContext, ChildKnown, ForkPoints, Publishing, Linking, BirthInv,
                 MidFork
  <2>. QED
    BY <1>6, <2>1, <2>2, <2>3, <2>4, <2>5, <2>6, <2>7, <2>8, <2>9, <2>10, <2>11
    DEF KernelStep, Fork, ExitUnlink, ForkInsert
<1>. QED
  BY <1>1, <1>2, <1>3, <1>4, <1>5, <1>6 DEF Next, Scheduler

(* The ring is linked from published tasks only, and only those run. *)
LEMMA RingStep ==
    ASSUME TInv, CpuInv, ReadyInv, RingInv, BirthInv, [Next]_vars, esp # Nowhere,
           esp' # Nowhere
    PROVE  RingInv'
<1>. USE StackNames DEF TInv, TypeOK, RingInv, Unborn
<1>1. CASE UNCHANGED vars \/ Runaway
  BY <1>1 DEF vars, ring, Runaway
<1>2. CASE SchedulerSkip
  BY <1>2 DEF SchedulerSkip, ring
<1>3. CASE SchedulerDispatch
  <2>1. PICK t \in Tasks : t = next[fgtask]
    OBVIOUS
  <2>2. state[t] = "RUNNABLE" /\ ctx[t] \in Tasks /\ ~Unborn(ctx[t])
    BY <1>3, <2>1 DEF SchedulerDispatch, ReadyInv, ExitWindow
  <2>. QED
    BY <1>3, <2>1, <2>2 DEF SchedulerDispatch, ring
<1>4. CASE Interrupt \/ PageFault \/ InterruptScheduler
  <2>1. Preempt(esp)
    BY <1>4 DEF Interrupt, PageFault, InterruptScheduler
  <2>2. /\ state' = [state EXCEPT ![fgtask] = "RUNNABLE"]
        /\ ctx' = [ctx EXCEPT ![fgtask] = esp]
        /\ fgtask' = fgtask /\ pc' = pc
        /\ next' = next /\ prev' = prev /\ htask' = htask
    BY <2>1 DEF Preempt, ring
  <2>3. \A t \in Tasks : /\ Unborn(t)' <=> Unborn(t)
                         /\ Unborn(t) => ctx'[t] = ctx[t] /\ pc'[t] = pc[t]
    BY <2>2
  <2>4. /\ \A t \in Tasks : Unborn(t)' => ctx'[t] = t /\ pc'[t] = "raw" /\ prev'[t] = t
        /\ ~Unborn(fgtask)' /\ ~Unborn(htask)'
    BY <2>2, <2>3
  <2>5. \A t \in Tasks : ~Unborn(t)' => ~Unborn(next[t])' /\ ~Unborn(prev[t])'
    <3>1. \A t \in Tasks : next'[t] \in Tasks /\ prev'[t] \in Tasks
      BY <2>2
    <3>. QED
      BY <2>2, <2>3, <3>1
  <2>. QED
    BY <2>4, <2>5
<1>5. ASSUME NEW s \in Tasks, UserStep(s) PROVE RingInv'
  <2>1. \E point \in {"user", "yield", "exit", "fork", "wait"} :
            Enter(s, point)
    BY <1>5 DEF UserStep, OtherCall, YieldCall, ExitCall, ForkCall, WaitCall
  <2>. QED
    BY <2>1 DEF Enter, CanRun, ring
<1>6. ASSUME NEW s \in Tasks, KernelStep(s) PROVE RingInv'
  <2>. USE DEF CanRun, Continue, ring
  <2>1. CASE YieldMark(s)
    BY <2>1 DEF YieldMark
  <2>2. CASE YieldSwitch(s) \/ ExitSwitch(s)
    BY <2>2 DEF YieldSwitch, ExitSwitch, SwitchToScheduler
  <2>3. CASE ExitForeground(s)
    BY <2>3 DEF ExitForeground
  <2>4. CASE ExitUnlink(s)
    BY <2>4 DEF ExitUnlink, ExitNext, ExitPrev, ExitStop, ExitClear
  <2>5. CASE WaitReturn(s)
    BY <2>5 DEF WaitReturn
  <2>6. CASE ForkReadTid(s)
    BY <2>6 DEF ForkReadTid
  <2>7. CASE \/ ForkNewDirectory(s) \/ ForkStack(s) \/ ForkStore(s)
             \/ ForkReturn(s) \/ ForkMapFail(s)
    BY <2>7 DEF ForkNewDirectory, ForkStack, ForkStore, ForkReturn, ForkMapFail
  <2>8. CASE ForkFail(s)
    BY <2>8 DEF ForkFail
  <2>11. CASE ForkInsert(s)
    <3>1. child[s] \in Tasks /\ ~Unborn(child[s])
      BY <2>11 DEF ForkInsert, ForkPrev, ForkForward, ForkBackward, ForkHead,
                  ChildKnown, ForkPoints, Publishing, Linking, BirthInv, MidFork
    <3>. QED
      BY <2>11, <3>1 DEF ForkInsert, ForkPrev, ForkForward, ForkBackward, ForkHead
  <2>9. CASE ForkPublish(s)
    <3>1. child[s] \in Tasks
      BY <2>9 DEF ForkPublish, ChildKnown, ForkPoints, Publishing, Linking
    <3>. QED
      BY <2>9, <3>1 DEF ForkPublish
  <2>10. CASE ForkContext(s)
    <3>1. child[s] \in Tasks /\ ~Unborn(child[s]) /\ ~Unborn(s)
      BY <2>10 DEF ForkContext, ChildKnown, ForkPoints, Publishing, Linking, BirthInv,
                   MidFork
    <3>. QED
      BY <2>10, <3>1 DEF ForkContext
  <2>. QED
    BY <1>6, <2>1, <2>2, <2>3, <2>4, <2>5, <2>6, <2>7, <2>8, <2>9, <2>10, <2>11
    DEF KernelStep, Fork, ExitUnlink, ForkInsert
<1>. QED
  BY <1>1, <1>2, <1>3, <1>4, <1>5, <1>6 DEF Next, Scheduler

(* Only task_fork allocates, publishes and builds a task, and it does so to one
   that nobody else is building. *)
LEMMA BirthStep ==
    ASSUME TInv, CpuInv, ReadyInv, RingInv, BirthInv, [Next]_vars, esp # Nowhere,
           esp' # Nowhere
    PROVE  BirthInv'
<1>. USE StackNames DEF TInv, TypeOK, BirthInv, MidFork, Publishing, Linking, Unborn
<1>0. /\ \A s \in Tasks : pc[s] \in MidFork => child[s] \in Tasks
      /\ \A s \in Tasks : child[s] # None => child[s] \in Tasks
  BY DEF ChildKnown, ForkPoints, Publishing, Linking
<1>7. ASSUME NEW s \in Tasks, NEW point \in Points,
             pc' = [pc EXCEPT ![s] = point],
             pc[s] \notin {"raw", "lost"}, point \notin {"raw", "lost"},
             point \in MidFork =>
                pc[s] \in MidFork /\ (point \in Publishing <=> pc[s] \in Publishing),
             UNCHANGED <<state, child>>
      PROVE  BirthInv'
  <2>1. \A t \in Tasks : /\ pc'[t] \in {"raw", "lost"} <=> pc[t] \in {"raw", "lost"}
                         /\ pc'[t] \in MidFork => pc[t] \in MidFork
                         /\ pc'[t] \in MidFork =>
                               (pc'[t] \in Publishing <=> pc[t] \in Publishing)
    BY <1>7
  <2>. HIDE DEF MidFork, Publishing, Linking
  <2>. QED
    BY <1>0, <1>7, <2>1
<1>1. CASE UNCHANGED vars \/ Runaway
  BY <1>1 DEF vars, forkVars, Runaway
<1>2. CASE SchedulerSkip
  BY <1>2 DEF SchedulerSkip, forkVars
<1>3. CASE SchedulerDispatch
  <2>1. PICK t \in Tasks : t = next[fgtask]
    BY DEF RingInv
  <2>2. state[t] = "RUNNABLE" /\ ctx[t] \in Tasks
    BY <1>3, <2>1 DEF SchedulerDispatch, ReadyInv
  <2>. QED
    BY <1>3, <2>1, <2>2 DEF SchedulerDispatch, forkVars
<1>4. CASE Interrupt \/ PageFault \/ InterruptScheduler
  <2>1. Preempt(esp) /\ ~Unborn(fgtask)
    BY <1>4 DEF Interrupt, PageFault, InterruptScheduler, RingInv
  <2>. QED
    BY <2>1 DEF Preempt, forkVars
<1>5. ASSUME NEW s \in Tasks, UserStep(s) PROVE BirthInv'
  <2>1. \E point \in {"user", "yield", "exit", "fork", "wait"} :
            Enter(s, point)
    BY <1>5 DEF UserStep, OtherCall, YieldCall, ExitCall, ForkCall, WaitCall
  <2>. QED
    BY <2>1 DEF Enter, CanRun, forkVars, CpuInv, ExitWindow
<1>6. ASSUME NEW s \in Tasks, KernelStep(s) PROVE BirthInv'
  <2>. USE DEF CanRun, Continue, forkVars
  <2>1. CASE YieldMark(s)
    BY <2>1 DEF YieldMark, CpuInv, RingInv, ExitWindow
  <2>2. CASE YieldSwitch(s) \/ ExitSwitch(s)
    BY <2>2, <1>7 DEF YieldSwitch, ExitSwitch, Points
  <2>3. CASE ExitForeground(s)
    BY <2>3, <1>7 DEF ExitForeground, Points, ExitWindow
  <2>4. CASE ExitUnlink(s)
    <3>1. ~Unborn(s)
      BY <2>4 DEF ExitUnlink, ExitNext, ExitPrev, ExitStop, ExitClear, RingInv
    <3>2. CASE ExitNext(s) \/ ExitPrev(s) \/ ExitClear(s)
      BY <3>2, <1>7 DEF ExitNext, ExitPrev, ExitClear, Points, ExitWindow
    <3>3. CASE ExitStop(s)
      BY <3>1, <3>3 DEF ExitStop
    <3>. QED
      BY <2>4, <3>2, <3>3 DEF ExitUnlink
  <2>5. CASE WaitReturn(s)
    BY <2>5, <1>7 DEF WaitReturn, Points
  <2>6. CASE ForkReadTid(s)
    <3>1. PICK c \in Tasks : /\ state[c] = "free"
                             /\ state' = [state EXCEPT ![c] = "new"]
                             /\ child' = [child EXCEPT ![s] = c]
      BY <2>6 DEF ForkReadTid
    <3>2. pc[c] = "raw" /\ child[c] = None /\ c # s
      BY <2>6, <3>1 DEF ForkReadTid, RingInv
    <3>3. \A p \in Tasks : child[p] # c
      BY <3>1
    <3>. QED
      BY <2>6, <3>1, <3>2, <3>3 DEF ForkReadTid
  <2>7. CASE \/ ForkNewDirectory(s) \/ ForkStack(s) \/ ForkStore(s)
             \/ ForkReturn(s) \/ ForkMapFail(s)
    BY <2>7, <1>7 DEF ForkNewDirectory, ForkStack, ForkStore, ForkReturn, ForkMapFail,
                      Points, ForkPoints, Publishing, Linking
  <2>8. CASE ForkFail(s)
    BY <2>8 DEF ForkFail
  <2>11. CASE ForkInsert(s)
    BY <2>11, <1>7 DEF ForkInsert, ForkPrev, ForkForward, ForkBackward, ForkHead, Points,
                      ForkPoints, Publishing, Linking
  <2>9. CASE ForkPublish(s)
    <3>1. child[s] \in Tasks /\ pc[child[s]] = "raw" /\ child[s] # s
      BY <2>9 DEF ForkPublish, ChildKnown, ForkPoints, Publishing, Linking, RingInv
    <3>. QED
      BY <2>9, <3>1 DEF ForkPublish
  <2>10. CASE ForkContext(s)
    <3>1. child[s] \in Tasks /\ pc[child[s]] \in {"raw", "lost"} /\ child[s] # s
      BY <2>10 DEF ForkContext, ChildKnown, ForkPoints, Publishing, Linking
    <3>2. PICK point \in {"user", "lost"} :
              /\ pc' = [pc EXCEPT ![s] = "fork_end", ![child[s]] = point]
              /\ point = "lost" => pc[child[s]] = "lost"
      BY <2>10 DEF ForkContext
    <3>3. \A p \in Tasks : pc[p] \in MidFork /\ child[p] = child[s] => p = s
      BY <2>10 DEF ForkContext
    <3>4. UNCHANGED <<state, child>>
      BY <2>10 DEF ForkContext
    <3>5. /\ pc'[s] = "fork_end" /\ pc'[child[s]] \in {"user", "lost"}
          /\ \A t \in Tasks \ {s, child[s]} : pc'[t] = pc[t]
      BY <3>1, <3>2
    <3>. QED
      BY <1>0, <2>10, <3>1, <3>2, <3>3, <3>4, <3>5
  <2>. QED
    BY <1>6, <2>1, <2>2, <2>3, <2>4, <2>5, <2>6, <2>7, <2>8, <2>9, <2>10, <2>11
    DEF KernelStep, Fork, ExitUnlink, ForkInsert
<1>. QED
  BY <1>1, <1>2, <1>3, <1>4, <1>5, <1>6 DEF Next, Scheduler

(* What OwnerInv says of the machine holds as long as it says anything. *)
LEMMA OwnerStep == TInv /\ OwnerInv /\ [Next]_vars => OwnerInv'
<1>. SUFFICES ASSUME TInv, OwnerInv, [Next]_vars, esp' # Nowhere
              PROVE  (CpuInv /\ ReadyInv /\ RingInv /\ BirthInv)'
  BY DEF OwnerInv
<1>1. esp # Nowhere
  BY NowhereStays DEF vars
<1>. QED
  BY <1>1, CpuStep, ReadyStep, RingStep, BirthStep DEF OwnerInv

(* ... which is always. *)
LEMMA OwnerHolds == Spec => []OwnerInv
<1>1. IInv /\ OwnerInv /\ [Next]_vars => OwnerInv'
  BY OwnerStep DEF IInv
<1>. QED
  BY InitOwner, InvariantHolds, <1>1, PTL DEF Spec

-----------------------------------------------------------------------------
(* The ring, when the only task that forks is the shell, which waits for each
   child before it forks the next one and never exits. *)
OneShell == Forkers = {1} /\ Shells = {1} /\ 1 \notin Exiters

Building == {"fork_tid", "fork_cr3", "fork_store", "fork_ctx"}
NoChild == htask = 1 \/ state[htask] = "STOPPED"

(* The latest child that has been published, and what lets the shell's own next
   point past it: the stores to the list that are still to come, or those of
   its exit. *)
Newest == IF pc[1] \in Linking THEN htask + 1 ELSE htask
Linked == pc[1] \notin {"fork_next", "fork_prev"}
Unlinked == {"exit_next", "exit_prev"}

(* Every task, dead or alive, points to the one before it. *)
LinkInv ==
    /\ Newest \in Tasks /\ fgtask <= Newest
    /\ \A t \in Tasks : 1 < t /\ t <= Newest => next[t] = t - 1

(* From the shell the scheduler comes to the latest child, if it lives. *)
ReachInv ==
    \A t \in Tasks : Ready(t) /\ ~Joining(t) /\ ~Leaving(t) =>
        t \in {1, fgtask} \/ (t = Newest /\ next[1] = Newest)

(* Every child but the latest has stopped, and the next one is built in the
   structure after it. *)
OrderInv ==
    /\ pc[1] # "fork_next" => prev[Newest] = 1
    /\ ~Linked => prev[htask] = 1 /\ next[1] <= htask
    /\ Linked => next[1] = IF state[Newest] = "STOPPED" \/ pc[Newest] \in Unlinked
                             THEN Newest - 1 ELSE Newest
    /\ Ready(1) /\ ~Unborn(Newest)
    /\ \A t \in Tasks : 1 < t /\ t < Newest => state[t] = "STOPPED"
    /\ \A t \in Tasks : Newest < t =>
          /\ Unborn(t)
          /\ state[t] = "new"
             => exhausted \/ (pc[1] \in Building /\ t = Newest + 1)

(* Only the shell forks, and only it and its latest child run. *)
CodeInv ==
    /\ pc[1] \notin {"exit"} \cup ExitWindow
    /\ \A t \in Tasks : pc[t] \in ForkPoints \cup {"wait"} => t = 1
    /\ esp \in Tasks =>
          /\ esp \in {1, Newest}
          /\ IF pc[esp] \in {"exit_stopped", "exit_clear"}
               THEN state[esp] = "STOPPED" ELSE Ready(esp)

(* The shell forks when no child is alive, and has the tid of the latest one
   until it has seen it stop. *)
CallInv ==
    /\ pc[1] \in Building =>
          /\ tidOf[child[1]] # 0
          /\ exhausted \/ (child[1] = htask + 1 /\ state[child[1]] = "new")
    /\ pc[1] \in Linking => NoChild
    /\ pc[1] \in Publishing \cup {"fork_end"} =>
          child[1] = Newest /\ Newest # 1 /\ tidOf[Newest] # 0
    /\ pc[1] \in ForkPoints => got[1] \in {NoResult, 0}
    /\ got[1] \in {-1, 0} => exhausted
    /\ got[1] \in Tids \ {0} =>
          got[1] = tidOf[htask] /\ (NoChild \/ is_running[got[1]])
    /\ got[1] = NoResult /\ pc[1] \notin {"fork_mid", "fork_end"}
          => NoChild \/ exhausted

ShellInv ==
    Without({"wrap", "exit"}) =>
        /\ LinkInv /\ ReachInv
        /\ esp # Nowhere => OrderInv /\ CodeInv /\ CallInv

(* What the steps below start from. *)
LEMMA ShellFacts ==
    ASSUME TInv, StackInv, OwnerInv, ShellInv, [Next]_vars, esp # Nowhere,
           Without({"wrap", "exit"})'
    PROVE  /\ LinkInv /\ OrderInv /\ CodeInv /\ CallInv
           /\ Without({"wrap", "exit"})
           /\ \A t \in Tasks : t # esp => pc[t] \notin ExitWindow
           /\ \A t \in Tasks : ctx[t] = t
           /\ esp \in Tasks /\ pc[esp] \notin ExitWindow => fgtask = esp
           /\ 1 \in Tasks
           /\ \A t \in Tasks : t \in Int /\ 1 <= t /\ t <= MaxTasks
<1>1. Without({"wrap", "exit"}) /\ Without({"exit"})
  BY MishapsStay DEF Without
<1>2. 1 \in Tasks /\ \A t \in Tasks : t \in Int /\ 1 <= t /\ t <= MaxTasks
  BY TaskAssumption DEF Tasks
<1>. QED
  BY <1>1, <1>2 DEF StackInv, ShellInv

(* Before the shell's first fork, only the shell is in the ring. *)
LEMMA InitShell == Init => ShellInv
<1>. SUFFICES ASSUME Init PROVE ShellInv
  OBVIOUS
<1>1. 1 \in Tasks /\ \A t \in Tasks : t \in Int /\ 1 <= t /\ t <= MaxTasks
  BY TaskAssumption DEF Tasks
<1>2. esp \notin Tasks /\ esp # Nowhere
  BY StackNames DEF Init
<1>3. Newest = 1 /\ htask = 1 /\ Linked
  BY <1>1 DEF Init, Newest, Linking, Linked
<1>4. LinkInv
  BY <1>1, <1>3 DEF Init, LinkInv
<1>5. ReachInv
  BY <1>1, <1>3 DEF Init, ReachInv, Ready
<1>6. OrderInv
  BY <1>1, <1>3 DEF Init, OrderInv, Ready, Unborn, Unlinked
<1>7. CodeInv
  BY <1>1, <1>2 DEF Init, CodeInv, ExitWindow, ForkPoints, Publishing, Linking
<1>8. CallInv
  BY <1>1 DEF Init, CallInv, ForkPoints, Publishing, Linking, Building, NoResult,
              NoChild, Tids
<1>. QED
  BY <1>4, <1>5, <1>6, <1>7, <1>8 DEF ShellInv

(* What is alive is the shell or the latest child, and it is in reach, unless
   the stores that put it there are still to come, or it is on its way out. *)
LEMMA ReachFromOrder ==
    ASSUME TInv, LinkInv, OrderInv, CallInv,
           \A t \in Tasks : t # esp => pc[t] \notin ExitWindow
    PROVE  /\ \A t \in Tasks : Ready(t) => t \in {1, Newest}
           /\ ReachInv
<1>1. \A t \in Tasks : t \in Int /\ 1 <= t
  BY DEF Tasks
<1>2. Newest \in Tasks
  BY DEF LinkInv
<1>3. \A t \in Tasks : Ready(t) => t \in {1, Newest}
  BY <1>1, <1>2 DEF OrderInv, Ready, Unborn
<1>4. ASSUME Ready(Newest), ~Joining(Newest), ~Leaving(Newest), Newest # 1
      PROVE  next[1] = Newest
  <2>1. Linked
    <3>1. ~Linked => child[1] = Newest /\ pc[1] \in {"fork_next", "fork_prev"}
      BY DEF Linked, CallInv, Publishing, Linking
    <3>2. 1 \in Tasks
      BY <1>1, TaskAssumption DEF Tasks
    <3>. QED
      BY <1>4, <3>1, <3>2 DEF Joining
  <2>2. pc[Newest] \notin Unlinked
    BY <1>2, <1>4 DEF Leaving, Unlinked, ExitWindow
  <2>. QED
    BY <1>4, <2>1, <2>2 DEF OrderInv, Ready
<1>. QED
  BY <1>3, <1>4 DEF ReachInv

(* ... in every state, the next one included. *)
LEMMA ReachNext ==
    (/\ TInv /\ LinkInv /\ OrderInv /\ CallInv
     /\ \A t \in Tasks : t # esp => pc[t] \notin ExitWindow)' => ReachInv'
<1>1. /\ TInv /\ LinkInv /\ OrderInv /\ CallInv
      /\ \A t \in Tasks : t # esp => pc[t] \notin ExitWindow
      => ReachInv
  BY ReachFromOrder
<1>. QED
  BY <1>1, PTL

(* A task that exits is the latest child, and it was not while its own links
   were being set. *)
LEMMA Leaver ==
    ASSUME TInv, OwnerInv, CodeInv, CallInv, esp # Nowhere,
           NEW s \in Tasks, esp = s, pc[s] \in {"exit"} \cup ExitWindow
    PROVE  s # 1 /\ s = Newest /\ s = htask /\ pc[1] \notin Publishing
<1>1. s # 1 /\ s = Newest
  BY DEF CodeInv
<1>2. pc[1] \notin Publishing
  <2>1. SUFFICES ASSUME pc[1] \in Publishing PROVE FALSE
    OBVIOUS
  <2>2. child[1] = s /\ 1 \in Tasks
    BY <1>1, <2>1, TaskAssumption DEF CallInv, Tasks
  <2>3. pc[s] \in {"raw", "lost"}
    BY <2>1, <2>2 DEF OwnerInv, BirthInv, MidFork
  <2>. QED
    BY <2>3 DEF ExitWindow
<1>. QED
  BY <1>1, <1>2 DEF Newest, Publishing

(* The latest child is another one only when one is published. *)
LEMMA NewestStep ==
    ASSUME TInv, CodeInv, CallInv, [Next]_vars, esp # Nowhere,
           esp \in Tasks /\ pc[esp] \notin ExitWindow => fgtask = esp
    PROVE  \/ Newest' = Newest
           \/ ForkPublish(1) /\ Newest = htask /\ Newest' = htask + 1
<1>. DEFINE Goal == \/ Newest' = Newest
                    \/ ForkPublish(1) /\ Newest = htask /\ Newest' = htask + 1
<1>0. 1 \in Tasks /\ pc \in [Tasks -> Points] /\ htask \in Int
  BY TaskAssumption DEF TInv, TypeOK, Tasks
<1>s. ASSUME htask' = htask, pc'[1] \in Linking <=> pc[1] \in Linking PROVE Goal
  BY <1>s DEF Newest, Linking
<1>1. ASSUME \/ UNCHANGED vars \/ Runaway \/ SchedulerSkip
             \/ Interrupt \/ PageFault \/ InterruptScheduler
      PROVE  Goal
  BY <1>1, <1>s DEF vars, ring, Runaway, SchedulerSkip, Interrupt, PageFault,
                    Preempt, InterruptScheduler
<1>2. CASE SchedulerDispatch
  <2>1. htask' = htask /\ (pc'[1] = pc[1] \/ (pc[1] = "raw" /\ pc'[1] = "lost"))
    BY <1>0, <1>2 DEF SchedulerDispatch, ring
  <2>. QED
    BY <1>s, <2>1 DEF Linking
<1>3. ASSUME NEW s \in Tasks, UserStep(s) PROVE Goal
  <2>1. PICK point \in {"user", "yield", "exit", "fork", "wait"} :
            Enter(s, point)
    BY <1>3 DEF UserStep, OtherCall, YieldCall, ExitCall, ForkCall, WaitCall
  <2>2. \/ pc[1] \notin Linking /\ pc'[1] \notin Linking
        \/ pc'[1] = pc[1]
    <3>1. CASE fgtask = 1
      <4>1. pc'[1] = point
        BY <1>0, <2>1, <3>1 DEF Enter
      <4>. QED
        BY <2>1, <3>1, <4>1 DEF Enter, CanRun, Linking, ExitWindow
    <3>2. CASE fgtask # 1
      BY <2>1, <3>2 DEF Enter
    <3>. QED
      BY <3>1, <3>2
  <2>. QED
    BY <1>s, <2>1, <2>2 DEF Enter, ring
<1>4. ASSUME NEW s \in Tasks, KernelStep(s) PROVE Goal
  <2>. USE DEF CanRun, Continue
  <2>0. \A t \in Tasks : pc[t] \in ForkPoints => t = 1
    BY DEF CodeInv
  <2>1. CASE \/ YieldMark(s) \/ YieldSwitch(s) \/ ExitForeground(s)
             \/ ExitUnlink(s) \/ ExitSwitch(s) \/ WaitReturn(s)
    <3>1. /\ htask' = htask
          /\ pc'[1] = pc[1] \/ (pc[1] \notin Linking /\ pc'[1] \notin Linking)
      BY <1>0, <2>1 DEF YieldMark, YieldSwitch, ExitForeground, ExitUnlink, ExitNext,
                        ExitPrev, ExitStop, ExitClear, ExitSwitch, WaitReturn,
                        SwitchToScheduler, ring, Linking
    <3>. QED
      BY <1>s, <3>1
  <2>2. CASE \/ ForkReadTid(s) \/ ForkNewDirectory(s) \/ ForkStack(s)
             \/ ForkStore(s) \/ ForkReturn(s) \/ ForkFail(s) \/ ForkMapFail(s)
    <3>1. htask' = htask /\ pc[1] \notin Linking /\ pc'[1] \notin Linking
      <4>1. s = 1
        BY <2>0, <2>2 DEF ForkReadTid, ForkNewDirectory, ForkStack, ForkStore,
                          ForkReturn, ForkFail, ForkMapFail, ForkPoints, Publishing
      <4>. QED
        BY <1>0, <2>2, <4>1 DEF ForkReadTid, ForkNewDirectory, ForkStack, ForkStore,
                                ForkReturn, ForkFail, ForkMapFail, Linking, ring
    <3>. QED
      BY <1>s, <3>1
  <2>3. CASE ForkPublish(s)
    <3>1. s = 1
      BY <2>0, <2>3 DEF ForkPublish, ForkPoints
    <3>. QED
      BY <1>0, <2>3, <3>1 DEF ForkPublish, Newest, Linking
  <2>4. CASE ForkPrev(s) \/ ForkForward(s) \/ ForkBackward(s)
    <3>1. s = 1
      BY <2>0, <2>4 DEF ForkPrev, ForkForward, ForkBackward, ForkPoints, Publishing,
                        Linking
    <3>. QED
      BY <1>0, <1>s, <2>4, <3>1 DEF ForkPrev, ForkForward, ForkBackward, Linking
  <2>5. CASE ForkHead(s)
    <3>1. s = 1
      BY <2>0, <2>5 DEF ForkHead, ForkPoints, Publishing, Linking
    <3>. QED
      BY <1>0, <2>5, <3>1 DEF ForkHead, CallInv, Publishing, Newest, Linking
  <2>6. CASE ForkContext(s)
    <3>1. s = 1 /\ htask' = htask /\ pc[1] = "fork_mid"
      BY <2>0, <2>6 DEF ForkContext, ForkPoints, Publishing, ring
    <3>2. pc'[1] \notin Linking
      BY <1>0, <2>6, <3>1 DEF ForkContext, Linking
    <3>. QED
      BY <1>s, <3>1, <3>2 DEF Linking
  <2>. QED
    BY <1>4, <2>1, <2>2, <2>3, <2>4, <2>5, <2>6
    DEF KernelStep, Fork, ExitUnlink, ForkInsert
<1>. QED
  BY <1>1, <1>2, <1>3, <1>4 DEF Next, Scheduler

(* A child that exits points the shell to its predecessor and stays where it
   is; the next child is put between the shell and it. *)
LEMMA LinkStep ==
    ASSUME OneShell, TInv, TInv', StackInv, OwnerInv, ShellInv, [Next]_vars,
           esp # Nowhere, Without({"wrap", "exit"})'
    PROVE  LinkInv'
<1>0. /\ LinkInv /\ OrderInv /\ CodeInv /\ CallInv
      /\ \A t \in Tasks : t # esp => pc[t] \notin ExitWindow
      /\ esp \in Tasks /\ pc[esp] \notin ExitWindow => fgtask = esp
      /\ 1 \in Tasks
      /\ \A t \in Tasks : t \in Int /\ 1 <= t /\ t <= MaxTasks
  BY ShellFacts
<1>1. /\ fgtask \in Tasks /\ htask \in Tasks /\ next \in [Tasks -> Tasks]
      /\ prev \in [Tasks -> Tasks] /\ Newest \in Tasks /\ htask <= Newest
      /\ fgtask <= Newest
      /\ \A t \in Tasks : 1 < t /\ t <= Newest => next[t] = t - 1
  BY <1>0 DEF TInv, TypeOK, LinkInv, Newest
<1>2. Newest' = Newest \/ (ForkPublish(1) /\ Newest = htask /\ Newest' = htask + 1)
  BY <1>0, NewestStep
<1>n. \A s \in Tasks : ForkPublish(s) => s = 1
  BY <1>0 DEF ForkPublish, CanRun, CodeInv, ForkPoints
<1>s. ASSUME Newest' = Newest, fgtask' <= Newest,
             \A t \in Tasks : t # 1 => next'[t] = next[t]
      PROVE  LinkInv'
  BY <1>0, <1>1, <1>s DEF LinkInv
<1>3. CASE ForkPublish(1)
  <2>1. /\ Newest' = htask + 1 \/ Newest' = Newest
        /\ next' = [next EXCEPT ![child[1]] = htask] /\ fgtask' = fgtask
        /\ child[1] \in Tasks /\ child[1] = htask + 1 /\ Newest = htask
    BY <1>0, <1>2, <1>3 DEF ForkPublish, CanRun, Continue, CallInv, Building, TInv,
                            ChildKnown, ForkPoints, Newest, Linking
  <2>2. \A t \in Tasks : 1 < t /\ t <= htask + 1 => next'[t] = t - 1
    <3>1. next'[htask + 1] = htask
      BY <1>1, <2>1
    <3>2. \A t \in Tasks : t # htask + 1 => next'[t] = next[t]
      BY <1>1, <2>1
    <3>. QED
      BY <1>0, <1>1, <2>1, <3>1, <3>2
  <2>. QED
    BY <1>0, <1>1, <2>1, <2>2 DEF LinkInv
<1>4. CASE Scheduler
  <2>1. next[fgtask] <= Newest
    <3>1. CASE fgtask = 1
      <4>1. next[1] \in {Newest - 1, Newest} \/ next[1] <= htask
        BY <1>0 DEF OrderInv
      <4>2. Newest \in Int /\ htask \in Int /\ next[1] \in Int
        BY <1>0, <1>1
      <4>. QED
        BY <1>1, <3>1, <4>1, <4>2
    <3>2. CASE fgtask # 1
      BY <1>0, <1>1, <3>2
    <3>. QED
      BY <3>1, <3>2
  <2>2. ~ForkPublish(1)
    BY <1>0, <1>4, StackNames DEF Scheduler, SchedulerSkip, SchedulerDispatch,
                                  ForkPublish, CanRun
  <2>. QED
    BY <1>2, <1>4, <1>s, <2>1, <2>2
    DEF Scheduler, SchedulerSkip, SchedulerDispatch, ring
<1>5. ASSUME ~ForkPublish(1), UNCHANGED <<fgtask, next>> PROVE LinkInv'
  BY <1>1, <1>2, <1>5, <1>s
<1>6. ASSUME ~ForkPublish(1), ~Scheduler, [Next]_vars PROVE LinkInv'
  <2>1. CASE \/ UNCHANGED vars \/ Runaway \/ Interrupt \/ PageFault
             \/ InterruptScheduler \/ \E s \in Tasks : UserStep(s)
    BY <1>5, <1>6, <2>1
    DEF vars, ring, Runaway, Interrupt, PageFault, Preempt, InterruptScheduler,
        UserStep, OtherCall, YieldCall, ExitCall, ForkCall, WaitCall, Enter
  <2>2. ASSUME NEW s \in Tasks, KernelStep(s) PROVE LinkInv'
    <3>. USE DEF CanRun, Continue
    <3>1. CASE ExitForeground(s)
      <4>1. s = Newest /\ s # 1
        BY <1>0, <3>1, Leaver DEF ExitForeground
      <4>2. next[s] = s - 1 /\ fgtask' = next[s] /\ next' = next
        BY <1>0, <1>1, <3>1, <4>1 DEF ExitForeground, ring
      <4>. QED
        BY <1>0, <1>2, <1>6, <1>s, <4>1, <4>2
    <3>2. CASE ExitNext(s)
      <4>1. s = Newest /\ s # 1 /\ pc[1] \notin Publishing
        BY <1>0, <3>2, Leaver DEF ExitNext, ExitWindow
      <4>2. prev[s] = 1
        BY <1>0, <4>1 DEF OrderInv, Publishing, Linking
      <4>. QED
        BY <1>1, <1>2, <1>6, <1>s, <3>2, <4>2 DEF ExitNext
    <3>3. CASE ForkForward(s)
      <4>1. s = 1
        BY <1>0, <3>3 DEF ForkForward, CodeInv, ForkPoints, Publishing, Linking
      <4>2. prev[htask] = 1
        BY <1>0, <3>3, <4>1 DEF ForkForward, OrderInv, Linked
      <4>. QED
        BY <1>1, <1>2, <1>6, <1>s, <3>3, <4>2 DEF ForkForward
    <3>4. CASE \/ YieldMark(s) \/ YieldSwitch(s) \/ ExitPrev(s) \/ ExitStop(s)
               \/ ExitClear(s) \/ ExitSwitch(s) \/ WaitReturn(s)
               \/ ForkReadTid(s) \/ ForkNewDirectory(s) \/ ForkStack(s)
               \/ ForkStore(s) \/ ForkPrev(s) \/ ForkBackward(s) \/ ForkHead(s)
               \/ ForkContext(s) \/ ForkReturn(s) \/ ForkFail(s) \/ ForkMapFail(s)
      BY <1>5, <1>6, <3>4
      DEF YieldMark, YieldSwitch, ExitPrev, ExitStop, ExitClear, ExitSwitch,
          SwitchToScheduler, WaitReturn, ForkReadTid, ForkNewDirectory, ForkStack,
          ForkStore, ForkPrev, ForkBackward, ForkHead, ForkContext, ForkReturn,
          ForkFail, ForkMapFail, ring
    <3>. QED
      BY <1>6, <1>n, <2>2, <3>1, <3>2, <3>3, <3>4 DEF KernelStep, Fork
  <2>. QED
    BY <1>6, <2>1, <2>2 DEF Next
<1>. QED
  BY <1>3, <1>4, <1>6

(* Until memory is exhausted, a child is built in the structure after its
   elder's. *)
LEMMA NextFree ==
    ASSUME TInv, LinkInv, OrderInv, ~exhausted, pc[1] = "fork",
           NEW c \in Tasks, state[c] = "free",
           \A d \in Tasks : d < c => state[d] # "free"
    PROVE  /\ Newest = htask /\ c = htask + 1
           /\ \A t \in Tasks : htask < t => state[t] = "free"
<1>0. Newest \in Tasks /\ \A t \in Tasks : t \in Int /\ 1 <= t /\ t <= MaxTasks
  BY TaskAssumption DEF LinkInv, Tasks
<1>1. Newest = htask
  BY DEF Newest, Linking
<1>2. \A t \in Tasks : htask < t => state[t] = "free"
  BY <1>1 DEF OrderInv, Unborn, Building
<1>3. htask < c
  BY <1>0, <1>1 DEF OrderInv, Ready, Unborn
<1>4. htask + 1 \in Tasks
  BY <1>0, <1>1, <1>3, TaskAssumption DEF Tasks
<1>5. ~(htask + 1 < c)
  BY <1>0, <1>1, <1>2, <1>4
<1>. QED
  BY <1>0, <1>1, <1>2, <1>3, <1>5

(* A task that is dispatched, interrupted or yields is alive before and after;
   a child that stops is the latest, and the next one is published only when
   it has. *)
LEMMA OrderStep ==
    ASSUME OneShell, TInv, StackInv, OwnerInv, ShellInv, [Next]_vars,
           esp # Nowhere, Without({"wrap", "exit"})', esp' # Nowhere
    PROVE  OrderInv'
<1>0. /\ LinkInv /\ OrderInv /\ CodeInv /\ CallInv
      /\ \A t \in Tasks : t # esp => pc[t] \notin ExitWindow
      /\ esp \in Tasks /\ pc[esp] \notin ExitWindow => fgtask = esp
      /\ 1 \in Tasks
      /\ \A t \in Tasks : t \in Int /\ 1 <= t /\ t <= MaxTasks
  BY ShellFacts
<1>1. \A t \in Tasks : Ready(t) => t \in {1, Newest}
  BY <1>0, ReachFromOrder
<1>2. Newest' = Newest \/ (ForkPublish(1) /\ Newest = htask /\ Newest' = htask + 1)
  BY <1>0, NewestStep
<1>t. /\ state \in [Tasks -> States] /\ pc \in [Tasks -> Points]
      /\ next \in [Tasks -> Tasks] /\ prev \in [Tasks -> Tasks]
      /\ htask \in Tasks /\ fgtask \in Tasks /\ Newest \in Tasks
      /\ htask \in Int /\ Newest \in Int
  BY <1>0 DEF TInv, TypeOK, LinkInv
(* The latest child is the same before and after. *)
<1>n. ASSUME ~ForkPublish(1) PROVE Newest' = Newest
  BY <1>2, <1>n
(* A step that moves at most a living task between the scheduler and the CPU,
   and leaves the list and those who change it as they are. *)
<1>a. ASSUME ~ForkPublish(1), NEW t \in Tasks, NEW x \in {"RUNNABLE", "RUNNING"},
             \/ Ready(t) /\ state' = [state EXCEPT ![t] = x]
             \/ UNCHANGED state,
             UNCHANGED <<ring, exhausted>>,
             pc[1] \in Building => pc'[1] \in Building,
             (pc'[1] = "fork_next") <=> (pc[1] = "fork_next"),
             Linked' <=> Linked,
             \A u \in Tasks : pc'[u] \in Unlinked <=> pc[u] \in Unlinked
      PROVE  OrderInv'
  <2>1. UNCHANGED <<htask, next, prev, exhausted>> /\ Newest' = Newest
    BY <1>a, <1>n DEF ring
  <2>2. /\ \A u \in Tasks : Ready(u) => Ready(u)'
        /\ \A u \in Tasks : (state'[u] = "STOPPED") <=> (state[u] = "STOPPED")
        /\ \A u \in Tasks : (state'[u] = "free") <=> (state[u] = "free")
        /\ \A u \in Tasks : (state'[u] = "new") <=> (state[u] = "new")
    BY <1>a, <1>t DEF Ready
  <2>. HIDE DEF Building, Unlinked, Newest, Linked, Ready
  <2>. QED
    BY <1>0, <1>a, <1>t, <2>1, <2>2 DEF OrderInv, Unborn
<1>3. CASE UNCHANGED vars \/ Runaway \/ SchedulerSkip
  <2>1. UNCHANGED <<state, pc, ring, exhausted>>
    BY <1>3 DEF vars, forkVars, Runaway, SchedulerSkip
  <2>2. ~ForkPublish(1)
    BY <1>0, <1>t, <2>1 DEF ForkPublish, CanRun, Continue
  <2>. QED
    BY <1>0, <1>a, <2>1, <2>2 DEF Linked
<1>4. CASE SchedulerDispatch
  <2>. DEFINE t == next[fgtask]
  <2>1. /\ t \in Tasks /\ Ready(t)
        /\ state' = [state EXCEPT ![t] = "RUNNING"]
        /\ UNCHANGED <<ring, exhausted>> /\ ~ForkPublish(1)
    BY <1>0, <1>4, <1>t, StackNames DEF SchedulerDispatch, Ready, forkVars,
                                        ForkPublish, CanRun
  <2>. HIDE DEF t
  <2>2. \A u \in Tasks : pc'[u] = pc[u] \/ (pc[u] = "raw" /\ pc'[u] = "lost")
    <3>1. PICK r : pc' = [pc EXCEPT ![r] = IF @ = "raw" THEN "lost" ELSE @]
      BY <1>4 DEF SchedulerDispatch
    <3>. QED
      BY <1>t, <3>1
  <2>. QED
    BY <1>0, <1>a, <2>1, <2>2 DEF Building, Unlinked, Linked
<1>5. CASE Interrupt \/ PageFault
  <2>1. esp \in Tasks /\ pc[esp] \notin ExitWindow
    BY <1>5 DEF Interrupt, Mishap, Without, PageFault, ExitWindow, Publishing, Linking
  <2>2. /\ Ready(esp)
        /\ state' = [state EXCEPT ![esp] = "RUNNABLE"]
        /\ UNCHANGED <<pc, ring, exhausted>>
    BY <1>0, <1>5, <2>1 DEF Interrupt, PageFault, Preempt, forkVars, CodeInv,
                            ExitWindow
  <2>3. ~ForkPublish(1)
    BY <1>5, <1>t, <2>1, StackNames DEF Interrupt, PageFault, Preempt, ForkPublish,
                                        CanRun, Continue
  <2>. QED
    BY <1>0, <1>a, <2>1, <2>2, <2>3 DEF Linked
<1>6. CASE InterruptScheduler
  BY <1>6 DEF InterruptScheduler
<1>7. ASSUME NEW s \in Tasks, UserStep(s) PROVE OrderInv'
  <2>1. PICK point \in {"user", "yield", "exit", "fork", "wait"} :
            Enter(s, point)
    BY <1>7 DEF UserStep, OtherCall, YieldCall, ExitCall, ForkCall, WaitCall
  <2>2. /\ pc[s] = "user" /\ pc' = [pc EXCEPT ![s] = point] /\ esp = s
        /\ UNCHANGED <<state, ring, exhausted>>
    BY <1>0, <2>1 DEF Enter, CanRun, ExitWindow, forkVars
  <2>3. ~ForkPublish(1)
    BY <2>2 DEF ForkPublish, CanRun
  <2>. QED
    BY <1>0, <1>a, <1>t, <2>2, <2>3 DEF Building, Unlinked, Linked
<1>8. ASSUME NEW s \in Tasks, KernelStep(s) PROVE OrderInv'
  <2>. USE DEF CanRun, Continue
  <2>0. \A t \in Tasks : pc[t] \in ForkPoints => t = 1
    BY <1>0 DEF CodeInv
  <2>1. CASE YieldMark(s)
    <3>1. /\ Ready(s) /\ pc[s] = "yield" /\ pc' = [pc EXCEPT ![s] = "yield_marked"]
          /\ state' = [state EXCEPT ![s] = "RUNNABLE"]
          /\ UNCHANGED <<ring, exhausted>> /\ ~ForkPublish(1)
      BY <1>0, <2>1 DEF YieldMark, CodeInv, ExitWindow, forkVars, ForkPublish
    <3>. QED
      BY <1>0, <1>a, <1>t, <3>1 DEF Building, Unlinked, Linked
  <2>2. CASE \/ YieldSwitch(s) \/ ExitForeground(s) \/ ExitClear(s)
             \/ ExitSwitch(s) \/ WaitReturn(s)
    <3>1. /\ UNCHANGED <<state, ring, exhausted>> /\ ~ForkPublish(1)
          /\ pc[s] \notin Building \cup Unlinked \cup {"fork_next", "fork_prev"}
          /\ pc'[s] \notin Building \cup Unlinked \cup {"fork_next", "fork_prev"}
          /\ \A u \in Tasks : u # s => pc'[u] = pc[u]
      BY <1>t, <2>2 DEF YieldSwitch, ExitSwitch, SwitchToScheduler, ExitForeground,
                  ExitClear, WaitReturn, forkVars, ForkPublish, Building, Unlinked
    <3>. HIDE DEF Building, Unlinked
    <3>2. /\ \A u \in Tasks : pc'[u] \in Unlinked <=> pc[u] \in Unlinked
          /\ pc[1] \in Building => pc'[1] \in Building
          /\ (pc'[1] = "fork_next") <=> (pc[1] = "fork_next")
          /\ Linked' <=> Linked
      BY <1>0, <3>1 DEF Linked
    <3>. QED
      BY <1>a, <3>1, <3>2
  <2>3. CASE ExitNext(s) \/ ExitPrev(s) \/ ExitStop(s)
    <3>1. s = Newest /\ s = htask /\ s # 1 /\ pc[1] \notin Publishing
      BY <1>0, <2>3, Leaver DEF ExitNext, ExitPrev, ExitStop, ExitWindow
    <3>2. /\ next[s] = s - 1 /\ prev[s] = 1 /\ Linked /\ s - 1 # s
          /\ pc[1] \notin {"fork_next", "fork_prev"}
      BY <1>0, <1>t, <3>1 DEF OrderInv, LinkInv, Publishing, Linking, Linked
    <3>3. /\ pc'[1] = pc[1] /\ pc[s] \in {"exit_fg", "exit_next", "exit_prev"}
          /\ Newest' = Newest /\ UNCHANGED <<htask, exhausted>> /\ Linked'
          /\ prev'[s] = 1 /\ next'[1] = s - 1
          /\ pc'[s] \in Unlinked \/ state'[s] = "STOPPED"
          /\ \A t \in Tasks : t # s => state'[t] = state[t]
          /\ state'[s] \in {state[s], "STOPPED"}
      <4>1. ~ForkPublish(1)
        BY <2>3, <3>1 DEF ExitNext, ExitPrev, ExitStop, ForkPublish
      <4>2. CASE ExitNext(s)
        BY <1>n, <1>t, <1>0, <3>1, <3>2, <4>1, <4>2
        DEF ExitNext, Linked, Unlinked, forkVars
      <4>3. CASE ExitPrev(s)
        BY <1>n, <1>t, <1>0, <3>1, <3>2, <4>1, <4>3
        DEF ExitPrev, Linked, Unlinked, forkVars, OrderInv
      <4>4. CASE ExitStop(s)
        BY <1>n, <1>t, <1>0, <3>1, <3>2, <4>1, <4>4
        DEF ExitStop, Linked, Unlinked, forkVars, OrderInv, ring
      <4>. QED
        BY <2>3, <4>2, <4>3, <4>4
    <3>. HIDE DEF Newest, Linked, Unlinked, Building, CanRun, Continue
    <3>. QED
      BY <1>0, <1>t, <3>1, <3>2, <3>3 DEF OrderInv, Ready, Unborn
  <2>4. CASE ForkReadTid(s)
    <3>1. s = 1 /\ ~exhausted /\ pc[1] = "fork"
      BY <2>0, <2>4 DEF ForkReadTid, ForkPoints
    <3>2. PICK c \in Tasks : /\ state[c] = "free"
                             /\ \A d \in Tasks : d < c => state[d] # "free"
                             /\ state' = [state EXCEPT ![c] = "new"]
      BY <2>4 DEF ForkReadTid
    <3>3. /\ c = htask + 1 /\ Newest = htask
          /\ \A t \in Tasks : htask < t => state[t] = "free"
      BY <1>0, <3>1, <3>2, NextFree
    <3>4. /\ pc'[1] = "fork_tid" /\ pc' = [pc EXCEPT ![1] = "fork_tid"]
          /\ UNCHANGED <<htask, next, prev>> /\ Newest' = Newest
      BY <1>n, <1>t, <1>0, <2>4, <3>1 DEF ForkReadTid, ForkPublish, ring
    <3>5. /\ \A t \in Tasks : t # c => state'[t] = state[t]
          /\ state'[c] = "new"
      BY <1>t, <3>2
    <3>6. Linked /\ Linked' /\ pc'[1] \in Building
      BY <3>1, <3>4 DEF Linked, Building
    <3>7. \A u \in Tasks : pc'[u] \in Unlinked <=> pc[u] \in Unlinked
      BY <1>t, <3>1, <3>4 DEF Unlinked
    <3>. HIDE DEF Newest, Linked, Unlinked, Building, CanRun, Continue
    <3>. QED
      BY <1>0, <1>t, <3>1, <3>3, <3>4, <3>5, <3>6, <3>7 DEF OrderInv, Ready, Unborn
  <2>5. CASE \/ ForkNewDirectory(s) \/ ForkStack(s) \/ ForkStore(s)
    <3>1. /\ UNCHANGED <<state, ring, exhausted>> /\ ~ForkPublish(1)
          /\ \E p, q \in Building : pc[s] = p /\ pc' = [pc EXCEPT ![s] = q]
      BY <2>5 DEF ForkNewDirectory, ForkStack, ForkStore, forkVars, Building,
                  ForkPublish
    <3>. QED
      BY <1>a, <1>t, <3>1 DEF Building, Unlinked, Linked
  <2>6. CASE ForkContext(s)
    <3>1. s = 1 /\ pc[1] = "fork_mid"
      BY <2>0, <2>6 DEF ForkContext, ForkPoints, Publishing
    <3>2. /\ UNCHANGED <<state, ring, exhausted>> /\ ~ForkPublish(1)
          /\ child[1] \in Tasks /\ pc[child[1]] \in {"raw", "lost"} /\ child[1] # 1
      BY <1>0, <2>6, <3>1 DEF ForkContext, ForkPublish, TInv, ChildKnown, ForkPoints,
                              Publishing, OwnerInv, BirthInv, MidFork
    <3>3. PICK point \in {"user", "lost"} :
              pc' = [pc EXCEPT ![1] = "fork_end", ![child[1]] = point]
      BY <2>6, <3>1 DEF ForkContext
    <3>. QED
      BY <1>0, <1>a, <1>t, <3>1, <3>2, <3>3 DEF Building, Unlinked, Linked
  <2>7. CASE ForkReturn(s)
    <3>1. /\ UNCHANGED <<state, ring, exhausted>> /\ ~ForkPublish(1)
          /\ pc[s] = "fork_end" /\ pc' = [pc EXCEPT ![s] = "user"]
      BY <2>7 DEF ForkReturn, ForkPublish
    <3>. QED
      BY <1>a, <1>t, <3>1 DEF Building, Unlinked, Linked
  <2>8. CASE ForkFail(s) \/ ForkMapFail(s)
    <3>1. UNCHANGED <<state, ring>> /\ exhausted' /\ ~ForkPublish(1)
      BY <1>t, <2>0, <2>8 DEF ForkFail, ForkMapFail, ForkPublish, ForkPoints, Publishing
    <3>2. /\ s = 1 /\ pc[1] \in {"fork_mid", "fork"} \cup Building
          /\ pc' = [pc EXCEPT ![1] = "user"]
      BY <2>0, <2>8 DEF ForkFail, ForkMapFail, ForkPoints, Publishing, Building
    <3>3. Linked /\ Linked' /\ \A u \in Tasks : pc'[u] \in Unlinked <=> pc[u] \in Unlinked
      BY <1>t, <1>0, <3>2 DEF Linked, Unlinked, Building
    <3>4. Newest' = Newest /\ pc[1] # "fork_next" /\ UNCHANGED <<htask, next, prev>>
      BY <1>n, <3>1, <3>3 DEF Linked, ring
    <3>. HIDE DEF Newest, Linked, Unlinked, Building, CanRun, Continue
    <3>. QED
      BY <1>0, <1>t, <3>1, <3>3, <3>4 DEF OrderInv, Ready, Unborn
  <2>9. CASE ForkPublish(s)
    <3>1. s = 1 /\ ~exhausted /\ pc[1] = "fork_ctx" /\ Newest = htask
      BY <2>0, <2>9 DEF ForkPublish, ForkPoints, Newest, Linking
    <3>2. child[1] = htask + 1 /\ htask + 1 \in Tasks /\ NoChild
      BY <1>0, <3>1 DEF CallInv, Building, ForkPoints, TInv, ChildKnown
    <3>3. /\ next' = [next EXCEPT ![htask + 1] = htask]
          /\ state' = [state EXCEPT ![htask + 1] = "RUNNABLE"]
          /\ UNCHANGED <<htask, prev, exhausted>> /\ pc'[1] = "fork_next"
      BY <1>0, <1>t, <2>9, <3>1, <3>2 DEF ForkPublish, forkVars
    <3>4. Newest' = htask + 1 /\ ~Linked'
      BY <3>3 DEF Newest, Linking, Linked
    <3>5. prev'[htask] = 1 /\ next'[1] <= htask
      <4>1. next[1] \in {htask, htask - 1} /\ prev[htask] = 1
        BY <1>0, <3>1 DEF OrderInv, Linked
      <4>2. 1 # htask + 1
        BY <1>0, <1>t
      <4>3. next'[1] = next[1]
        BY <1>0, <1>t, <3>2, <3>3, <4>2
      <4>. QED
        BY <1>t, <3>3, <4>1, <4>3
    <3>6. /\ state'[htask + 1] = "RUNNABLE"
          /\ \A t \in Tasks : t # htask + 1 => state'[t] = state[t]
      BY <1>t, <3>2, <3>3
    <3>7. ASSUME NEW t \in Tasks, 1 < t, t < htask + 1
          PROVE  state'[t] = "STOPPED"
      <4>1. t <= htask /\ t # htask + 1
        BY <1>0, <1>t, <3>7
      <4>. QED
        BY <1>0, <1>t, <3>1, <3>2, <3>6, <3>7, <4>1 DEF OrderInv, NoChild
    <3>8. ASSUME NEW t \in Tasks, htask + 1 < t
          PROVE  state'[t] = "free"
      <4>1. htask < t /\ t # htask + 1
        BY <1>0, <1>t, <3>8
      <4>. QED
        BY <1>0, <3>1, <3>6, <4>1 DEF OrderInv, Unborn
    <3>9. Ready(1)'
      <4>1. 1 # htask + 1
        BY <1>0, <1>t
      <4>. QED
        BY <1>0, <3>6, <4>1 DEF OrderInv, Ready
    <3>. HIDE DEF Newest, Linked, Unlinked, Building, CanRun, Continue, Ready
    <3>. QED
      BY <3>3, <3>4, <3>5, <3>6, <3>7, <3>8, <3>9 DEF OrderInv, Unborn
  <2>10. CASE ForkInsert(s)
    <3>1. s = 1 /\ pc[1] \in Linking
      BY <2>0, <2>10 DEF ForkInsert, ForkPrev, ForkForward, ForkBackward, ForkHead,
                         ForkPoints, Publishing, Linking
    <3>2. /\ child[1] = Newest /\ Newest = htask + 1 /\ htask # Newest
          /\ pc[Newest] \in {"raw", "lost"} /\ state[Newest] # "STOPPED"
      BY <1>0, <1>t, <3>1 DEF CallInv, Newest, Publishing, OwnerInv, BirthInv, MidFork
    <3>3. /\ Newest' = Newest /\ UNCHANGED <<state, exhausted>>
          /\ \E q \in Publishing : pc' = [pc EXCEPT ![1] = q]
      <4>1. ~ForkPublish(1)
        BY <3>1 DEF ForkPublish, Linking
      <4>. QED
        BY <1>n, <2>10, <3>1, <4>1 DEF ForkInsert, ForkPrev, ForkForward, ForkBackward,
                                      ForkHead, forkVars, Publishing, Linking
    <3>4. /\ pc'[1] # "fork_next" /\ pc[1] \notin Building
          /\ prev'[Newest] = 1
          /\ ~Linked' => prev'[htask'] = 1 /\ next'[1] <= htask'
          /\ Linked' => next'[1] = Newest
      <4>1. CASE ForkPrev(s)
        BY <1>0, <1>t, <3>1, <3>2, <4>1 DEF ForkPrev, OrderInv, Linked, Building
      <4>2. CASE ForkForward(s)
        BY <1>0, <1>t, <3>1, <3>2, <4>2 DEF ForkForward, OrderInv, Linked, Building
      <4>3. CASE ForkBackward(s)
        BY <1>0, <1>t, <3>1, <3>2, <4>3
        DEF ForkBackward, OrderInv, Linked, Building, Unlinked
      <4>4. CASE ForkHead(s)
        BY <1>0, <1>t, <3>1, <3>2, <4>4
        DEF ForkHead, OrderInv, Linked, Building, Unlinked
      <4>. QED
        BY <2>10, <4>1, <4>2, <4>3, <4>4 DEF ForkInsert
    <3>5. state'[Newest] # "STOPPED" /\ pc'[Newest] \notin Unlinked
      BY <1>0, <1>t, <3>1, <3>2, <3>3 DEF Unlinked
    <3>. HIDE DEF Newest, Linked, Unlinked, Building, CanRun, Continue
    <3>. QED
      BY <1>0, <3>3, <3>4, <3>5 DEF OrderInv, Ready, Unborn
  <2>. QED
    BY <1>8, <2>1, <2>2, <2>3, <2>4, <2>5, <2>6, <2>7, <2>8, <2>9, <2>10
    DEF KernelStep, Fork, ForkInsert
<1>. QED
  BY <1>3, <1>4, <1>5, <1>6, <1>7, <1>8 DEF Next, Scheduler

(* A program that is no shell never gets to fork or to wait, and a child that
   has stopped is not resumed. *)
LEMMA CodeStep ==
    ASSUME OneShell, TInv, StackInv, OwnerInv, ShellInv, [Next]_vars,
           esp # Nowhere, Without({"wrap", "exit"})', esp' # Nowhere
    PROVE  CodeInv'
<1>0. /\ LinkInv /\ OrderInv /\ CodeInv /\ CallInv
      /\ \A t \in Tasks : t # esp => pc[t] \notin ExitWindow
      /\ \A t \in Tasks : ctx[t] = t
      /\ esp \in Tasks /\ pc[esp] \notin ExitWindow => fgtask = esp
      /\ 1 \in Tasks
      /\ \A t \in Tasks : t \in Int /\ 1 <= t /\ t <= MaxTasks
  BY ShellFacts
<1>1. \A t \in Tasks : Ready(t) => t \in {1, Newest}
  BY <1>0, ReachFromOrder
<1>n. Newest' = Newest \/ ForkPublish(1)
  BY <1>0, NewestStep
<1>. USE <1>0, StackNames DEF TInv, TypeOK, CodeInv
<1>2. CASE UNCHANGED vars \/ Runaway \/ SchedulerSkip
  <2>1. UNCHANGED <<state, pc, esp>> /\ ~ForkPublish(1)
    <3>1. UNCHANGED <<state, pc, esp>>
      BY <1>2 DEF vars, Runaway, SchedulerSkip
    <3>. QED
      BY <3>1 DEF ForkPublish, CanRun, Continue
  <2>. QED
    BY <1>n, <2>1 DEF Ready
<1>3. CASE SchedulerDispatch
  <2>. DEFINE t == next[fgtask]
  <2>1. /\ t \in Tasks /\ Ready(t) /\ esp = Kernel /\ esp' = t
        /\ state' = [state EXCEPT ![t] = "RUNNING"]
        /\ pc' = [pc EXCEPT ![t] = IF @ = "raw" THEN "lost" ELSE @]
        /\ ~ForkPublish(1)
    BY <1>3 DEF SchedulerDispatch, Ready, ForkPublish, CanRun
  <2>. HIDE DEF t
  <2>2. t \in {1, Newest} /\ Newest' = Newest
    BY <1>1, <1>n, <2>1
  <2>3. state'[t] = "RUNNING" /\ pc'[t] \notin {"exit_stopped", "exit_clear"}
    BY <2>1 DEF ExitWindow
  <2>4. /\ pc'[1] \notin {"exit"} \cup ExitWindow
        /\ \A u \in Tasks : pc'[u] \in ForkPoints \cup {"wait"} => u = 1
    BY <2>1 DEF ExitWindow, ForkPoints, Publishing, Linking
  <2>. QED
    BY <2>1, <2>2, <2>3, <2>4 DEF Ready
<1>4. CASE Interrupt \/ PageFault
  BY <1>4 DEF Interrupt, PageFault, Preempt
<1>5. CASE InterruptScheduler
  BY <1>5 DEF InterruptScheduler
<1>6. ASSUME NEW s \in Tasks, UserStep(s) PROVE CodeInv'
  <2>1. PICK point \in {"user", "yield", "exit", "fork", "wait"} :
            /\ Enter(s, point)
            /\ point = "exit" => s # 1
            /\ point \in {"fork", "wait"} => s = 1
    BY <1>6 DEF UserStep, OtherCall, YieldCall, ExitCall, ForkCall, WaitCall,
                OneShell
  <2>2. /\ esp = s /\ fgtask = s /\ esp' = s /\ Ready(s)
        /\ pc' = [pc EXCEPT ![s] = point]
        /\ UNCHANGED state /\ ~ForkPublish(1)
    BY <2>1 DEF Enter, CanRun, ExitWindow, ForkPublish
  <2>. QED
    BY <1>n, <2>1, <2>2 DEF ForkPoints, Publishing, Linking, ExitWindow, Ready
<1>7. ASSUME NEW s \in Tasks, KernelStep(s) PROVE CodeInv'
  <2>. USE DEF CanRun, Continue, Ready
  <2>n. ~ForkPublish(s) => Newest' = Newest
    <3>1. s # 1 => ~ForkPublish(1)
      BY <1>7 DEF KernelStep, Fork, YieldMark, YieldSwitch, ExitForeground, ExitNext,
                  ExitPrev, ExitStop, ExitClear, ExitSwitch, WaitReturn, ForkReadTid,
                  ForkNewDirectory, ForkStack, ForkStore, ForkPublish, ForkPrev,
                  ForkForward, ForkBackward, ForkHead, ForkContext, ForkReturn,
                  ForkFail, ForkMapFail
    <3>. QED
      BY <1>n, <3>1
  <2>0. esp = s /\ \A u \in Tasks : pc[u] \in ForkPoints \cup {"wait"} => u = 1
    BY <1>7 DEF KernelStep, Fork, YieldMark, YieldSwitch, ExitForeground, ExitNext,
                ExitPrev, ExitStop, ExitClear, ExitSwitch, WaitReturn, ForkReadTid,
                ForkNewDirectory, ForkStack, ForkStore, ForkPublish, ForkPrev,
                ForkForward, ForkBackward, ForkHead, ForkContext, ForkReturn,
                ForkFail, ForkMapFail
(* The code of s moves on to where it may be. *)
  <2>s. ASSUME ~ForkPublish(s), NEW q, pc' = [pc EXCEPT ![s] = q],
               q \in ForkPoints \cup {"wait"} => s = 1,
               q \in {"exit"} \cup ExitWindow => s # 1,
               \/ esp' = Kernel
               \/ esp' = s /\ (IF q \in {"exit_stopped", "exit_clear"}
                                 THEN state'[s] = "STOPPED" ELSE Ready(s)')
        PROVE  CodeInv'
    <3>1. pc'[s] = q /\ \A u \in Tasks : u # s => pc'[u] = pc[u]
      BY <2>s
    <3>. HIDE DEF ForkPoints, ExitWindow, Newest
    <3>2. s \in {1, Newest'}
      BY <2>0, <2>n, <2>s
    <3>. QED
      BY <2>0, <2>s, <3>1, <3>2
  <2>1. CASE YieldMark(s)
    BY <2>s, <2>1 DEF YieldMark, ForkPublish, ForkPoints, Publishing, Linking, ExitWindow
  <2>2. CASE YieldSwitch(s) \/ ExitSwitch(s)
    BY <2>s, <2>2 DEF YieldSwitch, ExitSwitch, SwitchToScheduler, ForkPublish,
                      ForkPoints, Publishing, Linking, ExitWindow
  <2>3. CASE \/ ExitForeground(s) \/ ExitNext(s) \/ ExitPrev(s) \/ ExitStop(s)
             \/ ExitClear(s)
    <3>1. s # 1
      BY <2>3 DEF ExitForeground, ExitNext, ExitPrev, ExitStop, ExitClear, ExitWindow
    <3>2. esp' = s /\ ~ForkPublish(s)
      BY <2>0, <2>3 DEF ExitForeground, ExitNext, ExitPrev, ExitStop, ExitClear,
                        ForkPublish
    <3>3. PICK q \in ExitWindow : /\ pc' = [pc EXCEPT ![s] = q]
                                  /\ IF q \in {"exit_stopped", "exit_clear"}
                                       THEN state'[s] = "STOPPED" ELSE Ready(s)'
      BY <2>0, <2>3 DEF ExitForeground, ExitNext, ExitPrev, ExitStop, ExitClear,
                        ExitWindow
    <3>4. q \notin ForkPoints \cup {"wait"}
      BY DEF ExitWindow, ForkPoints, Publishing, Linking
    <3>. QED
      BY <2>s, <3>1, <3>2, <3>3, <3>4
  <2>4. CASE WaitReturn(s)
    <3>1. /\ Ready(s)' /\ esp' = s /\ ~ForkPublish(s)
          /\ \E q \in {"user", "spin"} : pc' = [pc EXCEPT ![s] = q]
      BY <2>0, <2>4 DEF WaitReturn, ForkPublish
    <3>. QED
      BY <2>s, <3>1 DEF ForkPoints, Publishing, Linking, ExitWindow
  <2>5. CASE ForkReadTid(s)
    <3>1. PICK c \in Tasks : state[c] = "free"
                             /\ state' = [state EXCEPT ![c] = "new"]
      BY <2>5 DEF ForkReadTid
    <3>2. s = 1 /\ esp' = s /\ ~ForkPublish(s) /\ pc' = [pc EXCEPT ![s] = "fork_tid"]
      BY <2>0, <2>5 DEF ForkReadTid, ForkPublish, ForkPoints
    <3>3. Ready(s)'
      BY <2>0, <2>5, <3>1 DEF ForkReadTid
    <3>. QED
      BY <2>s, <3>2, <3>3 DEF ExitWindow
  <2>6. CASE \/ ForkNewDirectory(s) \/ ForkStack(s) \/ ForkStore(s) \/ ForkInsert(s)
             \/ ForkReturn(s) \/ ForkFail(s) \/ ForkMapFail(s)
    <3>1. pc[s] \in ForkPoints
      BY <2>6 DEF ForkNewDirectory, ForkStack, ForkStore, ForkReturn, ForkFail,
                  ForkMapFail, ForkInsert, ForkPrev, ForkForward, ForkBackward,
                  ForkHead, ForkPoints, Publishing, Linking
    <3>2. s = 1 /\ Ready(s) /\ esp' = s /\ state' = state /\ ~ForkPublish(s)
      <4>1. pc[s] \notin {"exit_stopped", "exit_clear"}
        BY <3>1 DEF ForkPoints, Publishing, Linking
      <4>2. s = 1 /\ Ready(s)
        BY <2>0, <3>1, <4>1
      <4>. QED
        BY <2>6, <2>0, <4>2 DEF ForkNewDirectory, ForkStack, ForkStore, ForkReturn,
             ForkFail, ForkMapFail, ForkInsert, ForkPrev, ForkForward, ForkBackward,
             ForkHead, ForkPublish, forkVars
    <3>3. PICK q \in ForkPoints \cup {"user"} : pc' = [pc EXCEPT ![s] = q]
      BY <2>6 DEF ForkNewDirectory, ForkStack, ForkStore, ForkReturn, ForkFail,
                  ForkMapFail, ForkInsert, ForkPrev, ForkForward, ForkBackward,
                  ForkHead, ForkPoints, Publishing, Linking
    <3>4. q \notin {"exit"} \cup ExitWindow
      BY DEF ExitWindow, ForkPoints, Publishing, Linking
    <3>5. Ready(s)' /\ q \notin {"exit_stopped", "exit_clear"}
      BY <3>2, <3>4 DEF ExitWindow
    <3>. QED
      BY <2>s, <3>2, <3>3, <3>4, <3>5
  <2>7. CASE ForkPublish(s)
    <3>1. s = 1 /\ esp = 1 /\ pc[1] = "fork_ctx" /\ Ready(1)
      BY <2>0, <2>7 DEF ForkPublish, ForkPoints
    <3>2. child[1] \in Tasks
      BY <3>1 DEF ChildKnown, ForkPoints
    <3>3. /\ pc' = [pc EXCEPT ![1] = "fork_next"] /\ esp' = 1
          /\ state' = [state EXCEPT ![child[1]] = "RUNNABLE"]
      BY <2>7, <3>1 DEF ForkPublish
    <3>4. Ready(1)'
      BY <3>1, <3>2, <3>3
    <3>5. pc'[1] = "fork_next" /\ \A u \in Tasks : u # 1 => pc'[u] = pc[u]
      BY <3>3
    <3>. QED
      BY <2>0, <3>3, <3>4, <3>5 DEF ExitWindow
  <2>8. CASE ForkContext(s)
    <3>1. s = 1 /\ esp = 1 /\ pc[1] = "fork_mid" /\ Ready(1)
      BY <2>0, <2>8 DEF ForkContext, ForkPoints, Publishing
    <3>2. child[1] \in Tasks /\ child[1] # 1
      BY <3>1 DEF ChildKnown, ForkPoints, Publishing, CallInv
    <3>3. PICK point \in {"user", "lost"} :
              pc' = [pc EXCEPT ![1] = "fork_end", ![child[1]] = point]
      BY <2>8, <3>1 DEF ForkContext
    <3>4. Ready(1)' /\ esp' = 1 /\ Newest' = Newest
      BY <2>8, <2>n, <3>1 DEF ForkContext, ForkPublish
    <3>5. /\ pc'[1] = "fork_end" /\ pc'[child[1]] = point
          /\ \A u \in Tasks : u \notin {1, child[1]} => pc'[u] = pc[u]
      BY <3>2, <3>3
    <3>. HIDE DEF Newest
    <3>. QED
      BY <2>0, <3>4, <3>5 DEF ForkPoints, Publishing, Linking, ExitWindow
  <2>. QED
    BY <1>7, <2>1, <2>2, <2>3, <2>4, <2>5, <2>6, <2>7, <2>8
    DEF KernelStep, Fork, ForkInsert
<1>. QED
  BY <1>2, <1>3, <1>4, <1>5, <1>6, <1>7 DEF Next, Scheduler

(* task_wait returns when the flag of the latest child is clear, which it is
   only when the child has stopped. *)
LEMMA CallStep ==
    ASSUME OneShell, TInv, StackInv, OwnerInv, ShellInv, [Next]_vars,
           esp # Nowhere, Without({"wrap", "exit"})', esp' # Nowhere
    PROVE  CallInv'
<1>0. /\ LinkInv /\ OrderInv /\ CodeInv /\ CallInv
      /\ \A t \in Tasks : t # esp => pc[t] \notin ExitWindow
      /\ \A t \in Tasks : ctx[t] = t
      /\ esp \in Tasks /\ pc[esp] \notin ExitWindow => fgtask = esp
      /\ 1 \in Tasks
      /\ \A t \in Tasks : t \in Int /\ 1 <= t /\ t <= MaxTasks
  BY ShellFacts
<1>1. \A t \in Tasks : pc[t] \in ForkPoints \cup {"wait"} => t = 1
  BY <1>0 DEF CodeInv
<1>n. Newest' = Newest \/ (ForkPublish(1) /\ Newest = htask /\ Newest' = htask + 1)
  BY <1>0, NewestStep
<1>. USE <1>0, StackNames DEF TInv, TypeOK
(* A step that leaves the calls of the shell where they are, and moves at most
   a living task between the scheduler and the CPU. *)
<1>a. ASSUME NEW t \in Tasks, NEW x \in {"RUNNABLE", "RUNNING"},
             \/ Ready(t) /\ state' = [state EXCEPT ![t] = x]
             \/ UNCHANGED state,
             UNCHANGED <<htask, tidOf, child, exhausted, got, is_running>>,
             \/ pc'[1] = pc[1]
             \/ pc[1] \notin ForkPoints /\ pc'[1] \notin ForkPoints,
             ~ForkPublish(1)
      PROVE  CallInv'
  <2>1. /\ NoChild => NoChild'
        /\ \A u \in Tasks : state[u] = "new" => state'[u] = "new"
    BY <1>a DEF NoChild, Ready
  <2>2. \/ pc'[1] = pc[1]
        \/ pc'[1] \notin ForkPoints /\ pc[1] \notin ForkPoints
    BY <1>a
  <2>3. pc[1] \in Building => child[1] \in Tasks
    BY DEF Building, ForkPoints, Publishing, Linking, ChildKnown
  <2>4. /\ Building \subseteq ForkPoints /\ {"fork_mid", "fork_end"} \subseteq ForkPoints
        /\ Linking \subseteq ForkPoints /\ Publishing \subseteq ForkPoints
    BY DEF Building, ForkPoints, Publishing
  <2>5. Newest' = Newest
    BY <1>a, <1>n
  <2>. HIDE DEF Building, ForkPoints, Publishing, Linking, NoChild, Newest
  <2>. QED
    BY <1>a, <2>1, <2>2, <2>3, <2>4, <2>5 DEF CallInv
<1>2. CASE UNCHANGED vars \/ Runaway \/ SchedulerSkip
  <2>1. UNCHANGED <<state, pc, htask, tidOf, child, exhausted, got, is_running>>
    BY <1>2 DEF vars, forkVars, ring, Runaway, SchedulerSkip
  <2>2. ~ForkPublish(1)
    BY <2>1 DEF ForkPublish, CanRun, Continue
  <2>. QED
    BY <1>a, <2>1, <2>2
<1>3. CASE SchedulerDispatch
  <2>. DEFINE t == next[fgtask]
  <2>1. /\ t \in Tasks /\ Ready(t)
        /\ state' = [state EXCEPT ![t] = "RUNNING"]
        /\ UNCHANGED <<htask, tidOf, child, exhausted, got, is_running>>
    BY <1>3 DEF SchedulerDispatch, Ready, forkVars, ring
  <2>3. ~ForkPublish(1)
    BY <1>3 DEF SchedulerDispatch, ForkPublish, CanRun
  <2>2. \/ pc'[1] = pc[1]
        \/ pc[1] \notin ForkPoints /\ pc'[1] \notin ForkPoints
    BY <1>3 DEF SchedulerDispatch, ForkPoints, Publishing, Linking
  <2>. HIDE DEF t
  <2>. QED
    BY <2>1, <2>2, <2>3, <1>a
<1>4. CASE Interrupt \/ PageFault
  <2>1. esp \in Tasks /\ pc[esp] \notin ExitWindow
    BY <1>4 DEF Interrupt, Mishap, Without, PageFault, ExitWindow, Publishing, Linking
  <2>2. /\ Ready(esp)
        /\ state' = [state EXCEPT ![esp] = "RUNNABLE"]
        /\ UNCHANGED <<pc, htask, tidOf, child, exhausted, got, is_running>>
    BY <1>4, <2>1 DEF Interrupt, PageFault, Preempt, forkVars, ring, CodeInv,
                      ExitWindow
  <2>3. ~ForkPublish(1)
    BY <2>2 DEF ForkPublish, CanRun, Continue
  <2>. QED
    BY <2>1, <2>2, <2>3, <1>a
<1>5. CASE InterruptScheduler
  BY <1>5 DEF InterruptScheduler
<1>6. ASSUME NEW s \in Tasks, UserStep(s) PROVE CallInv'
  <2>1. PICK point \in {"user", "yield", "exit", "fork", "wait"} :
            /\ Enter(s, point)
            /\ point = "fork" => got[s] \in {NoResult, 0}
            /\ point = "fork" => s = 1
    BY <1>6 DEF UserStep, OtherCall, YieldCall, ExitCall, ForkCall, WaitCall,
                OneShell
  <2>2. /\ esp = s /\ fgtask = s /\ pc[s] = "user"
        /\ pc' = [pc EXCEPT ![s] = point]
        /\ UNCHANGED <<state, htask, tidOf, child, exhausted, got, is_running>>
    BY <2>1 DEF Enter, CanRun, ExitWindow, ring, forkVars
  <2>n. Newest' = Newest /\ ~ForkPublish(1)
    BY <1>n, <2>2 DEF ForkPublish, CanRun
  <2>3. CASE point = "fork"
    BY <2>n, <2>1, <2>2, <2>3 DEF CallInv, NoChild, Building, ForkPoints, Publishing,
                            Linking
  <2>4. CASE point # "fork"
    <3>1. \/ pc'[1] = pc[1]
          \/ pc[1] \notin ForkPoints /\ pc'[1] \notin ForkPoints
      BY <2>2, <2>4 DEF ForkPoints, Publishing, Linking
    <3>. QED
      BY <2>2, <2>n, <3>1, <1>a
  <2>. QED
    BY <2>3, <2>4
<1>7. ASSUME NEW s \in Tasks, KernelStep(s) PROVE CallInv'
  <2>. USE DEF CanRun, Continue
  <2>1. CASE YieldMark(s)
    <3>1. /\ Ready(s)
          /\ state' = [state EXCEPT ![s] = "RUNNABLE"]
          /\ UNCHANGED <<htask, tidOf, child, exhausted, got, is_running>>
          /\ ~ForkPublish(1)
      BY <2>1 DEF YieldMark, CodeInv, ExitWindow, forkVars, ring, ForkPublish
    <3>2. \/ pc'[1] = pc[1]
          \/ pc[1] \notin ForkPoints /\ pc'[1] \notin ForkPoints
      BY <2>1 DEF YieldMark, ForkPoints, Publishing, Linking
    <3>. QED
      BY <3>1, <3>2, <1>a
  <2>2. CASE \/ YieldSwitch(s) \/ ExitSwitch(s) \/ ExitForeground(s)
             \/ ExitNext(s) \/ ExitPrev(s)
    <3>1. /\ UNCHANGED <<state, htask, tidOf, child, exhausted, got, is_running>>
          /\ \/ pc'[1] = pc[1]
             \/ pc[1] \notin ForkPoints /\ pc'[1] \notin ForkPoints
          /\ ~ForkPublish(1)
      BY <2>2 DEF YieldSwitch, ExitSwitch, SwitchToScheduler, ExitForeground,
                  ExitNext, ExitPrev, forkVars, ring, ForkPoints, Publishing, Linking,
                  ForkPublish
    <3>. QED
      BY <3>1, <1>a
  <2>3. CASE ExitStop(s) \/ ExitClear(s)
    <3>1. /\ s = htask /\ s # 1 /\ pc[1] \notin Publishing /\ ~ForkPublish(1)
          /\ pc[s] = "exit_stopped" => state[s] = "STOPPED"
      BY <2>3, Leaver DEF ExitStop, ExitClear, CodeInv, ExitWindow, ForkPublish
    <3>2. /\ state'[htask] = "STOPPED" /\ \A t \in Tasks : t # htask => state'[t] = state[t]
          /\ pc'[1] = pc[1] /\ Newest' = Newest
          /\ UNCHANGED <<htask, tidOf, child, exhausted, got>>
      BY <1>n, <2>3, <3>1 DEF ExitStop, ExitClear, ring, forkVars
    <3>3. NoChild'
      BY <3>2 DEF NoChild
    <3>4. /\ pc[1] \in Building => child[1] \in Tasks
          /\ state[htask] = "new" => ~(exhausted \/ pc[1] \notin Building)
      <4>1. state[htask] # "new"
        BY <2>3, <3>1 DEF OwnerInv, RingInv, Unborn
      <4>. QED
        BY <4>1 DEF Building, ForkPoints, Publishing, Linking, ChildKnown
    <3>5. pc[1] \in Building /\ ~exhausted => state'[child[1]] = "new"
      BY <3>2, <3>4 DEF CallInv
    <3>. HIDE DEF Building, Publishing, Linking, Newest, NoChild, ForkPoints
    <3>. QED
      BY <3>1, <3>2, <3>3, <3>4, <3>5 DEF CallInv
  <2>4. CASE WaitReturn(s)
    <3>1. s = 1 /\ pc[1] = "wait"
      BY <2>4, <1>1 DEF WaitReturn
    <3>2. /\ got'[1] = NoResult
          /\ pc'[1] \in {"user", "spin"}
          /\ got[1] = -1 \/ ~is_running[got[1]]
          /\ UNCHANGED <<state, htask, tidOf, child, exhausted, is_running>>
      BY <2>4, <3>1 DEF WaitReturn, OneShell, ring
    <3>3. NoChild \/ exhausted
      BY <3>1, <3>2 DEF CallInv, Publishing, Linking
    <3>4. NoResult \notin {-1, 0} \cup Tids
      BY DEF NoResult, Tids
    <3>. QED
      BY <3>2, <3>3, <3>4 DEF CallInv, NoChild, Building, ForkPoints, Publishing,
                              Linking
  <2>5. CASE ForkReadTid(s)
    <3>1. s = 1 /\ ~exhausted /\ pc[1] = "fork" /\ got[1] = NoResult
      BY <2>5, <1>1 DEF ForkReadTid, ForkPoints, Publishing, Linking, CallInv
    <3>2. PICK c \in Tasks : /\ state[c] = "free"
                             /\ \A d \in Tasks : d < c => state[d] # "free"
                             /\ state' = [state EXCEPT ![c] = "new"]
                             /\ child' = [child EXCEPT ![1] = c]
                             /\ tidOf' = [tidOf EXCEPT ![c] = tid]
      BY <2>5, <3>1 DEF ForkReadTid
    <3>3. c = htask + 1 /\ c # htask
      BY <3>1, <3>2, NextFree
    <3>4. tid # 0
      BY <2>5 DEF ForkReadTid, Without
    <3>5. /\ state'[c] = "new" /\ child'[1] = c /\ tidOf'[c] # 0
          /\ state'[htask] = state[htask]
      BY <3>2, <3>3, <3>4
    <3>6. pc'[1] = "fork_tid" /\ UNCHANGED <<got, exhausted, htask>>
      BY <2>5, <3>1 DEF ForkReadTid, ring
    <3>7. NoResult \notin {-1, 0} \cup Tids
      BY DEF NoResult, Tids
    <3>. QED
      BY <3>1, <3>3, <3>5, <3>6, <3>7 DEF CallInv, NoChild, ForkPoints, Publishing,
                                          Linking
  <2>6. CASE ForkNewDirectory(s) \/ ForkStack(s) \/ ForkStore(s)
    <3>1. s = 1 /\ pc[1] \in Building /\ pc'[1] \in Building
      BY <2>6, <1>1 DEF ForkNewDirectory, ForkStack, ForkStore, ForkPoints,
                        Publishing, Linking, Building
    <3>2. UNCHANGED <<state, htask, tidOf, child, exhausted, got, is_running>>
      BY <2>6 DEF ForkNewDirectory, ForkStack, ForkStore, forkVars, ring
    <3>3. /\ Building \subseteq ForkPoints /\ Building \cap Linking = {}
          /\ Building \cap (Publishing \cup {"fork_mid", "fork_end"}) = {}
      BY DEF Building, ForkPoints, Publishing, Linking
    <3>. HIDE DEF Building, ForkPoints, Publishing, Linking
    <3>. QED
      BY <3>1, <3>2, <3>3 DEF CallInv, NoChild
  <2>7. CASE ForkPublish(s)
    <3>1. s = 1 /\ ~exhausted /\ pc[1] = "fork_ctx" /\ got[1] = NoResult
      BY <2>7, <1>1 DEF ForkPublish, ForkPoints, Publishing, Linking, CallInv
    <3>2. child[1] = htask + 1 /\ child[1] # htask /\ tidOf[child[1]] # 0 /\ NoChild
      BY <3>1 DEF CallInv, Building
    <3>3. /\ pc'[1] = "fork_next" /\ state' = [state EXCEPT ![child[1]] = "RUNNABLE"]
          /\ UNCHANGED <<htask, tidOf, child, exhausted, got, is_running>>
      BY <2>7, <3>1 DEF ForkPublish, forkVars
    <3>4. NoResult \notin {-1, 0} \cup Tids
      BY DEF NoResult, Tids
    <3>5. NoChild'
      BY <3>2, <3>3 DEF NoChild
    <3>6. Newest' = child[1] /\ child[1] # 1
      <4>1. Newest' = htask + 1
        BY <3>3 DEF Newest, Linking
      <4>2. htask + 1 # 1
        OBVIOUS
      <4>. QED
        BY <3>2, <4>1, <4>2
    <3>. HIDE DEF Newest, NoChild
    <3>. QED
      BY <3>1, <3>2, <3>3, <3>4, <3>5, <3>6 DEF CallInv, ForkPoints, Building
  <2>8. CASE ForkContext(s)
    <3>1. s = 1 /\ pc[1] = "fork_mid" /\ Newest = htask
      BY <2>8, <1>1 DEF ForkContext, ForkPoints, Publishing, Newest, Linking
    <3>2. child[1] = htask /\ htask # 1 /\ tidOf[htask] # 0
      BY <3>1 DEF CallInv, Publishing
    <3>3. PICK point \in {"user", "lost"} :
              pc' = [pc EXCEPT ![1] = "fork_end", ![child[1]] = point]
      BY <2>8, <3>1 DEF ForkContext
    <3>4. /\ pc'[1] = "fork_end" /\ got'[1] = got[1]
          /\ UNCHANGED <<state, htask, tidOf, child, exhausted, is_running>>
      BY <2>8, <3>1, <3>2, <3>3 DEF ForkContext, ring
    <3>5. Newest' = htask
      BY <3>4 DEF Newest, Linking
    <3>6. got[1] \in {NoResult, 0} /\ (got[1] = 0 => exhausted)
      BY <3>1 DEF CallInv, ForkPoints, Publishing
    <3>. HIDE DEF Newest
    <3>. QED
      BY <3>2, <3>4, <3>5, <3>6 DEF CallInv, ForkPoints, Publishing, Linking,
                                    Building, NoResult, Tids
  <2>9. CASE ForkReturn(s)
    <3>1. s = 1 /\ pc[1] = "fork_end" /\ Newest = htask
      BY <2>9, <1>1 DEF ForkReturn, ForkPoints, Publishing, Linking, Newest
    <3>2. child[1] = htask /\ htask # 1 /\ tidOf[htask] # 0
      BY <3>1 DEF CallInv
    <3>3. /\ pc'[1] = "user" /\ got'[1] = tidOf[htask]
          /\ is_running'[tidOf[htask]]
          /\ UNCHANGED <<htask, tidOf>>
      BY <2>9, <3>1, <3>2 DEF ForkReturn, ring
    <3>4. NoResult \notin {-1, 0} \cup Tids /\ -1 \notin Tids
      BY DEF NoResult, Tids
    <3>5. tidOf[htask] \in Tids
      OBVIOUS
    <3>. QED
      BY <3>2, <3>3, <3>4, <3>5 DEF CallInv, ForkPoints, Publishing, Linking, Building
  <2>11. CASE ForkInsert(s)
    <3>1. /\ s = 1 /\ pc[1] \in Linking /\ Newest' = Newest /\ Newest = htask + 1
          /\ UNCHANGED <<state, tidOf, child, exhausted, got, is_running>>
      <4>1. s = 1 /\ pc[1] \in Linking
        BY <2>11, <1>1 DEF ForkInsert, ForkPrev, ForkForward, ForkBackward, ForkHead,
                           ForkPoints, Publishing, Linking
      <4>2. ~ForkPublish(1)
        BY <4>1 DEF ForkPublish, Linking
      <4>. QED
        BY <1>n, <2>11, <4>1, <4>2 DEF ForkInsert, ForkPrev, ForkForward,
                                       ForkBackward, ForkHead, forkVars, Newest
    <3>2. /\ child[1] = Newest /\ Newest # 1 /\ tidOf[Newest] # 0 /\ NoChild
          /\ got[1] \in {NoResult, 0} /\ (got[1] = 0 => exhausted)
      BY <3>1 DEF CallInv, ForkPoints, Publishing
    <3>3. \/ pc'[1] \in Linking /\ htask' = htask
          \/ pc'[1] = "fork_mid"
      BY <2>11, <3>1 DEF ForkInsert, ForkPrev, ForkForward, ForkBackward, ForkHead,
                         Linking
    <3>4. NoResult \notin {-1, 0} \cup Tids
      BY DEF NoResult, Tids
    <3>5. pc'[1] \in Linking => NoChild'
      BY <3>1, <3>2, <3>3 DEF NoChild, Linking
    <3>6. pc'[1] \notin Building /\ pc'[1] \in Publishing
      BY <3>3 DEF Building, Linking, Publishing
    <3>7. NoChild' \/ pc'[1] = "fork_mid"
      BY <3>3, <3>5
    <3>. HIDE DEF Newest, NoChild, Linking, Building, Publishing
    <3>. QED
      BY <3>1, <3>2, <3>4, <3>5, <3>6, <3>7 DEF CallInv
  <2>10. CASE ForkFail(s) \/ ForkMapFail(s)
    <3>1. s = 1
      BY <2>10, <1>1 DEF ForkFail, ForkMapFail, ForkPoints, Publishing, Linking
    <3>2. pc'[1] = "user" /\ got'[1] \in {-1, 0} /\ exhausted'
      BY <2>10, <3>1 DEF ForkFail, ForkMapFail
    <3>3. -1 \notin Tids
      BY DEF Tids
    <3>. QED
      BY <3>2, <3>3 DEF CallInv, ForkPoints, Publishing, Linking, Building
  <2>. QED
    BY <1>7, <2>1, <2>2, <2>3, <2>4, <2>5, <2>6, <2>7, <2>8, <2>9, <2>10, <2>11
    DEF KernelStep, Fork, ForkInsert
<1>. QED
  BY <1>2, <1>3, <1>4, <1>5, <1>6, <1>7 DEF Next, Scheduler

(* Every step keeps to the invariant.  An interrupt in the scheduler may
   revive the foreground task, and then nothing more happens. *)
LEMMA ShellStep ==
    ASSUME OneShell
    PROVE  TInv /\ StackInv /\ OwnerInv /\ ShellInv /\ [Next]_vars => ShellInv'
<1>. SUFFICES ASSUME TInv, StackInv, OwnerInv, ShellInv, [Next]_vars,
                     Without({"wrap", "exit"})'
              PROVE  /\ LinkInv' /\ ReachInv'
                     /\ esp' # Nowhere' => OrderInv' /\ CodeInv' /\ CallInv'
  BY DEF ShellInv
<1>0. Nowhere' = Nowhere
  BY DEF Nowhere
<1>1. CASE esp = Nowhere
  <2>1. UNCHANGED vars
    BY <1>1, NowhereStays
  <2>2. LinkInv /\ ReachInv
    BY <2>1 DEF ShellInv, Without, vars
  <2>3. LinkInv' /\ ReachInv'
    BY <2>1, <2>2 DEF LinkInv, ReachInv, Ready, Joining, Leaving, Newest, vars, ring,
                      forkVars
  <2>. QED
    BY <1>0, <1>1, <2>1, <2>3 DEF vars
<1>2. CASE esp # Nowhere /\ esp' # Nowhere
  <2>1. LinkInv' /\ OrderInv' /\ CodeInv' /\ CallInv'
    BY <1>2, TypeStep, LinkStep, OrderStep, CodeStep, CallStep
  <2>2. TInv'
    BY TypeStep
  <2>3. \A t \in Tasks : t # esp' => pc'[t] \notin ExitWindow
    BY StackStep DEF StackInv, Without
  <2>4. ReachInv'
    BY <2>1, <2>2, <2>3, ReachNext
  <2>. QED
    BY <2>1, <2>4
<1>3. CASE esp # Nowhere /\ esp' = Nowhere
  <2>1. /\ LinkInv /\ OrderInv /\ CodeInv /\ CallInv
        /\ \A t \in Tasks : t # esp => pc[t] \notin ExitWindow
    BY <1>3, ShellFacts
  <2>2. ReachInv
    BY <2>1, ReachFromOrder
  <2>3. InterruptScheduler
    BY <1>3, OnlyWayNowhere
  <2>4. /\ state' = [state EXCEPT ![fgtask] = "RUNNABLE"] /\ esp = Kernel
        /\ UNCHANGED <<fgtask, pc, htask, next, child>>
    BY <2>3 DEF InterruptScheduler, ring, forkVars
  <2>5. LinkInv' /\ Newest' = Newest
    BY <2>1, <2>4 DEF LinkInv, Newest
  <2>6. ASSUME NEW t \in Tasks, Ready(t)', ~Joining(t)', t # fgtask
        PROVE  t = 1 \/ (t = Newest /\ next[1] = Newest)
    <3>1. Ready(t)
      BY <2>4, <2>6 DEF Ready, TInv, TypeOK
    <3>2. ~Joining(t)
      BY <2>4, <2>6 DEF Joining
    <3>3. ~Leaving(t)
      BY <2>4, StackNames DEF Leaving
    <3>. QED
      BY <2>2, <2>6, <3>1, <3>2, <3>3 DEF ReachInv
  <2>7. ReachInv'
    BY <2>4, <2>5, <2>6 DEF ReachInv
  <2>. QED
    BY <1>0, <1>3, <2>5, <2>7
<1>. QED
  BY <1>0, <1>1, <1>2, <1>3

(* The ring is as it should be in every state. *)
LEMMA ShellFact == ASSUME OneShell PROVE Spec => []ShellInv
<1>1. IInv /\ OwnerInv /\ ShellInv /\ [Next]_vars => ShellInv'
  BY ShellStep DEF IInv
<1>. QED
  BY InitShell, InvariantHolds, OwnerHolds, <1>1, PTL DEF Spec

-----------------------------------------------------------------------------
(* Walking along the ring.                                                 *)

(* A set of numbers that is not empty has a least one. *)
LEMMA Least ==
    ASSUME NEW T \in SUBSET Nat, T # {}
    PROVE  \E x \in T : \A y \in T : x <= y
<1>1. \E x \in T : \A y \in T : ~(<<y, x>> \in OpToRel(<, Nat))
  BY NatLessThanWellFounded, WFMin
<1>2. \A x, y \in Nat : <<y, x>> \in OpToRel(<, Nat) <=> y < x
  BY DEF OpToRel
<1>3. \E x \in T : \A y \in T : ~(y < x)
  BY <1>1, <1>2
<1>. QED
  BY <1>3

(* A set that has 0, and with each number the next one up to m, has all: the
   induction there is for a set of numbers in place of a predicate. *)
LEMMA UpTo ==
    ASSUME NEW m \in Nat, NEW S \in SUBSET (0 .. m), 0 \in S,
           \A i \in S : i < m => i + 1 \in S
    PROVE  S = 0 .. m
<1>. SUFFICES ASSUME S # 0 .. m PROVE FALSE
  OBVIOUS
<1> DEFINE T == (0 .. m) \ S
<1>1. T \in SUBSET Nat /\ T # {}
  <2>1. PICK i \in 0 .. m : i \notin S
    OBVIOUS
  <2>. QED
    BY <2>1
<1>2. PICK x \in T : \A y \in T : x <= y
  BY <1>1, Least
<1>3. x \in 0 .. m /\ x # 0 /\ x - 1 \in 0 .. m /\ x - 1 < m
  BY <1>2
<1>4. x - 1 \in S
  BY <1>2, <1>3
<1>5. (x - 1) + 1 = x
  BY <1>3
<1>. QED
  BY <1>2, <1>3, <1>4, <1>5

IsWalk(f, m) ==
    f = [n \in 0 .. m |-> IF n = 0 THEN fgtask ELSE next[f[n - 1]]]

(* There is a walk of each length. *)
LEMMA WalkExists == ASSUME NEW m \in Nat PROVE \E f : IsWalk(f, m)
<1> DEFINE S == {k \in 0 .. m : \E f : IsWalk(f, k)}
<1>1. 0 \in S
  <2> DEFINE f == [n \in 0 .. 0 |-> fgtask]
  <2>1. IsWalk(f, 0)
    BY DEF IsWalk
  <2>. QED
    BY <2>1
<1>2. ASSUME NEW k \in S, k < m PROVE k + 1 \in S
  <2>0. k \in 0 .. m
    OBVIOUS
  <2>1. PICK f : IsWalk(f, k)
    OBVIOUS
  <2> DEFINE g == [n \in 0 .. k + 1 |-> IF n = k + 1 THEN next[f[k]] ELSE f[n]]
  <2>2. ASSUME NEW n \in 0 .. k + 1
        PROVE  g[n] = IF n = 0 THEN fgtask ELSE next[g[n - 1]]
    <3>1. CASE n = k + 1
      <4>1. n # 0 /\ g[n - 1] = f[k]
        BY <2>0, <3>1
      <4>. QED
        BY <3>1, <4>1
    <3>2. CASE n # k + 1
      <4>1. n \in 0 .. k /\ g[n] = f[n]
        BY <2>0, <3>2
      <4>2. f[n] = IF n = 0 THEN fgtask ELSE next[f[n - 1]]
        BY <2>1, <4>1 DEF IsWalk
      <4>3. n # 0 => g[n - 1] = f[n - 1]
        BY <2>0, <4>1
      <4>. QED
        BY <4>1, <4>2, <4>3
    <3>. QED
      BY <3>1, <3>2
  <2>3. IsWalk(g, k + 1)
    BY <2>2 DEF IsWalk
  <2>4. k + 1 \in 0 .. m
    BY <1>2, <2>0
  <2>. QED
    BY <2>3, <2>4
<1>3. S = 0 .. m
  <2>. HIDE DEF S
  <2>1. S \in SUBSET (0 .. m)
    BY DEF S
  <2>. QED
    BY <1>1, <1>2, <2>1, UpTo
<1>. QED
  BY <1>3

(* NthNext is one. *)
LEMMA Walk ==
    /\ NthNext[0] = fgtask
    /\ \A n \in 0 .. MaxTasks : n # 0 => NthNext[n] = next[NthNext[n - 1]]
<1> DEFINE F == CHOOSE f : f = [n \in 0 .. MaxTasks |->
                                   IF n = 0 THEN fgtask ELSE next[f[n - 1]]]
<1>1. MaxTasks \in Nat
  BY TaskAssumption
<1>2. IsWalk(F, MaxTasks)
  BY <1>1, WalkExists DEF IsWalk
<1>3. NthNext = F
  BY DEF NthNext
<1>. HIDE DEF F
<1>4. 0 \in 0 .. MaxTasks
  BY <1>1
<1>. QED
  BY <1>2, <1>3, <1>4 DEF IsWalk

(* The walk goes down the structures to the shell, and from there to the
   latest child. *)
LEMMA RingFromLinks == ASSUME TInv, LinkInv, ReachInv PROVE RingIsComplete
<1>0. /\ fgtask \in Nat /\ Newest \in Nat /\ MaxTasks \in Nat
      /\ 1 <= fgtask /\ fgtask <= Newest /\ Newest <= MaxTasks
      /\ \A t \in Tasks : t \in Int
      /\ 1 \in Tasks
  BY TaskAssumption DEF TInv, TypeOK, LinkInv, Tasks
<1> DEFINE m == fgtask - 1
           S == {n \in 0 .. m : NthNext[n] = fgtask - n}
<1>1. m \in Nat /\ m < MaxTasks
  BY <1>0
<1>2. 0 \in S
  BY <1>0, Walk
<1>3. ASSUME NEW i \in S, i < m PROVE i + 1 \in S
  <2> DEFINE t == fgtask - i
             j == i + 1
  <2>1. /\ j \in 0 .. MaxTasks /\ j # 0 /\ j - 1 = i /\ j \in 0 .. m
        /\ t \in Tasks /\ 1 < t /\ t <= Newest /\ t - 1 = fgtask - j
    BY <1>0, <1>1, <1>3 DEF Tasks
  <2>2. NthNext[i] = t
    OBVIOUS
  <2>. HIDE DEF t, j
  <2>3. NthNext[j] = next[t]
    BY <2>1, <2>2, Walk
  <2>4. next[t] = t - 1
    BY <2>1 DEF LinkInv
  <2>5. j \in S
    BY <2>1, <2>3, <2>4
  <2>. QED
    BY <2>5 DEF j
<1>4. S = 0 .. m
  <2>. HIDE DEF S, m
  <2>1. S \in SUBSET (0 .. m)
    BY DEF S
  <2>. QED
    BY <1>1, <1>2, <1>3, <2>1, UpTo
<1>5. NthNext[m] = 1
  BY <1>0, <1>1, <1>4
<1>6. NthNext[fgtask] = next[1]
  <2>1. fgtask \in 0 .. MaxTasks /\ fgtask # 0 /\ fgtask - 1 = m
    BY <1>0
  <2>. QED
    BY <1>5, <2>1, Walk
<1>. SUFFICES ASSUME NEW t \in Tasks, Ready(t), ~Joining(t), ~Leaving(t)
              PROVE  \E n \in 0 .. MaxTasks : NthNext[n] = t
  BY DEF RingIsComplete
<1>7. CASE t = fgtask
  <2>1. 0 \in 0 .. MaxTasks
    BY <1>0
  <2>. QED
    BY <1>7, <2>1, Walk
<1>8. CASE t = 1
  <2>1. m \in 0 .. MaxTasks
    BY <1>0
  <2>. QED
    BY <1>5, <1>8, <2>1
<1>9. CASE t = Newest /\ next[1] = Newest
  BY <1>0, <1>6, <1>9
<1>. QED
  BY <1>7, <1>8, <1>9 DEF ReachInv

(* The scheduler comes by every task that is alive, as long as the one program
   that forks waits for each child, no tid is 0 again, and no interrupt comes
   in task_exit. *)
THEOREM ShellRingHolds ==
    ASSUME Forkers = {1}, Shells = {1}, 1 \notin Exiters
    PROVE  Spec => []ShellRing
<1>1. IInv /\ ShellInv => ShellRing
  BY RingFromLinks DEF IInv, ShellInv, ShellRing, Without
<1>2. Spec => []ShellInv
  BY ShellFact DEF OneShell
<1>. QED
  BY InvariantHolds, <1>1, <1>2, PTL

-----------------------------------------------------------------------------
(* fork, exit and wait: for any number of tasks, any programs and          *)
(* interrupts anywhere.                                                    *)

-----------------------------------------------------------------------------
(* Unless a child got tid 0, a child is not the first task; and fork returns 0
   to a parent only if it gave the child up. *)
KnowInv ==
    /\ Without({"wrap"}) =>
          \A t \in Tasks : child[t] # None => tidOf[child[t]] # 0
    /\ Without({"wrap", "unmapped"}) =>
          \A t \in Tasks : got[t] = 0 => child[t] = None \/ pc[t] \in ForkPoints

(* Unless an interrupt comes before the context of the child is set up, only
   the code that runs is there, and nobody has jumped to garbage. *)
ChildInv ==
    Without({"half", "unmapped"}) =>
        \A t \in Tasks :
            /\ pc[t] = "raw" => Unborn(t) \/ \E p \in Tasks :
                                                 child[p] = t /\ pc[p] \in Publishing
            /\ pc[t] \in Publishing => esp = t
            /\ pc[t] # "lost"

(* Unless an interrupt comes before the flag of the child is set, the child is
   still there then. *)
WakeInv ==
    /\ Without({"wakeup"}) =>
          \A s \in Tasks : pc[s] = "fork_end" => esp = s /\ Ready(child[s])
    /\ NoLostWakeup

ForkInv == KnowInv /\ ChildInv /\ WakeInv

(* A child gets its tid before anybody knows it, and becomes a parent only
   after its fork has returned. *)
LEMMA KnowStep ==
    ASSUME TInv, OwnerInv, KnowInv, [Next]_vars, esp # Nowhere
    PROVE  KnowInv'
<1>. USE StackNames DEF TInv, TypeOK, KnowInv, Without, ForkPoints, Publishing,
                        Linking
<1>0. /\ mishap \subseteq mishap'
      /\ CpuInv /\ ReadyInv /\ RingInv /\ BirthInv
      /\ \A t \in Tasks : child[t] # None => child[t] \in Tasks
  BY MishapsStay DEF OwnerInv
<1>. USE <1>0
<1>1. CASE UNCHANGED vars \/ Runaway
  BY <1>1 DEF vars, forkVars, Runaway
<1>2. CASE SchedulerSkip
  BY <1>2 DEF SchedulerSkip, forkVars
<1>3. CASE SchedulerDispatch
  BY <1>3 DEF SchedulerDispatch, forkVars
<1>4. CASE Interrupt \/ PageFault \/ InterruptScheduler
  BY <1>4 DEF Interrupt, PageFault, Preempt, InterruptScheduler, forkVars
<1>5. ASSUME NEW s \in Tasks, UserStep(s) PROVE KnowInv'
  <2>1. \E point \in {"user", "yield", "exit", "fork", "wait"} :
            Enter(s, point)
    BY <1>5 DEF UserStep, OtherCall, YieldCall, ExitCall, ForkCall, WaitCall
  <2>. QED
    BY <2>1 DEF Enter, CanRun, forkVars, CpuInv, ExitWindow
<1>6. ASSUME NEW s \in Tasks, KernelStep(s) PROVE KnowInv'
  <2>. USE DEF CanRun, Continue, forkVars
  <2>1. CASE \/ YieldMark(s) \/ YieldSwitch(s)
             \/ ExitForeground(s) \/ ExitUnlink(s) \/ ExitSwitch(s)
    BY <2>1 DEF YieldMark, YieldSwitch, ExitForeground, ExitUnlink, ExitNext,
                ExitPrev, ExitStop, ExitClear, ExitSwitch
  <2>2. CASE WaitReturn(s)
    BY <2>2 DEF WaitReturn, NoResult
  <2>3. CASE ForkReadTid(s)
    <3>1. PICK c \in Tasks : /\ state[c] = "free"
                             /\ child' = [child EXCEPT ![s] = c]
                             /\ tidOf' = [tidOf EXCEPT ![c] = tid]
      BY <2>3 DEF ForkReadTid
    <3>2. \A p \in Tasks : child[p] # c
      BY <3>1 DEF BirthInv
    <3>. QED
      BY <2>3, <3>1, <3>2 DEF ForkReadTid
  <2>4. CASE ForkNewDirectory(s) \/ ForkStack(s) \/ ForkStore(s)
             \/ ForkPublish(s) \/ ForkInsert(s)
    BY <2>4 DEF ForkNewDirectory, ForkStack, ForkStore, ForkPublish, ForkInsert,
                ForkPrev, ForkForward, ForkBackward, ForkHead
  <2>5. CASE ForkContext(s)
    <3>1. LET c == child[s] IN c \in Tasks /\ child[c] = None /\ c # s
      BY <2>5 DEF ForkContext, BirthInv, MidFork, Publishing, Linking, ChildKnown
    <3>2. PICK point \in {"user", "lost"} :
              pc' = [pc EXCEPT ![s] = "fork_end", ![child[s]] = point]
      BY <2>5 DEF ForkContext
    <3>. QED
      BY <2>5, <3>1, <3>2 DEF ForkContext
  <2>6. CASE ForkReturn(s)
    BY <2>6 DEF ForkReturn, ChildKnown
  <2>7. CASE ForkFail(s)
    BY <2>7 DEF ForkFail
  <2>8. CASE ForkMapFail(s)
    BY <2>8 DEF ForkMapFail
  <2>. QED
    BY <1>6, <2>1, <2>2, <2>3, <2>4, <2>5, <2>6, <2>7, <2>8
    DEF KernelStep, Fork, ExitUnlink, ForkInsert
<1>. QED
  BY <1>1, <1>2, <1>3, <1>4, <1>5, <1>6 DEF Next, Scheduler

(* What is RUNNABLE and on its own stack is either built or being built by the
   code that runs, so the scheduler does not find it. *)
LEMMA ChildStep ==
    ASSUME TInv, OwnerInv, ChildInv, [Next]_vars, esp # Nowhere
    PROVE  ChildInv'
<1>. USE StackNames DEF TInv, TypeOK, ChildInv, Without, Unborn, Publishing, Linking
<1>0. /\ mishap \subseteq mishap'
      /\ CpuInv /\ ReadyInv /\ RingInv /\ BirthInv
  BY MishapsStay DEF OwnerInv
<1>. USE <1>0
<1>1. CASE UNCHANGED vars \/ Runaway
  BY <1>1 DEF vars, forkVars, Runaway
<1>2. CASE SchedulerSkip
  BY <1>2 DEF SchedulerSkip, forkVars
<1>3. CASE SchedulerDispatch
  <2>1. PICK t \in Tasks : t = next[fgtask]
    OBVIOUS
  <2>2. /\ state[t] = "RUNNABLE" /\ ctx[t] \in Tasks /\ esp = Kernel
        /\ ctx[t] = t \/ pc[ctx[t]] \in ExitWindow
    BY <1>3, <2>1 DEF SchedulerDispatch, ReadyInv
  <2>3. ASSUME mishap \cap {"half", "unmapped"} = {}
        PROVE  pc[ctx[t]] # "raw"
    BY <2>2, <2>3 DEF ExitWindow
  <2>. QED
    BY <1>3, <2>1, <2>2, <2>3 DEF SchedulerDispatch, forkVars
<1>4. CASE Interrupt \/ PageFault \/ InterruptScheduler
  <2>1. /\ state' = [state EXCEPT ![fgtask] = "RUNNABLE"]
        /\ UNCHANGED <<pc, child>>
        /\ esp \in Tasks /\ pc[esp] \in Publishing => "half" \in mishap'
    BY <1>4 DEF Interrupt, PageFault, Preempt, InterruptScheduler, forkVars, Mishap,
                ExitWindow, Publishing, Linking
  <2>2. ~Unborn(fgtask)
    BY DEF RingInv
  <2>. QED
    BY <2>1, <2>2
<1>5. ASSUME NEW s \in Tasks, UserStep(s) PROVE ChildInv'
  <2>1. \E point \in {"user", "yield", "exit", "fork", "wait"} :
            Enter(s, point)
    BY <1>5 DEF UserStep, OtherCall, YieldCall, ExitCall, ForkCall, WaitCall
  <2>. QED
    BY <2>1 DEF Enter, CanRun, forkVars, CpuInv, ExitWindow
<1>6. ASSUME NEW s \in Tasks, KernelStep(s) PROVE ChildInv'
  <2>. USE DEF CanRun, Continue, forkVars
  <2>0. esp = s
    BY <1>6 DEF KernelStep, Fork, YieldMark, YieldSwitch, ExitForeground, ExitUnlink,
                ExitNext, ExitPrev, ExitStop, ExitClear, ExitSwitch, WaitReturn,
                ForkReadTid, ForkNewDirectory, ForkStack, ForkStore, ForkPublish,
                ForkInsert, ForkPrev, ForkForward, ForkBackward, ForkHead,
                ForkContext, ForkReturn, ForkFail, ForkMapFail
  <2>1. CASE YieldMark(s)
    <3>1. ~Unborn(fgtask)
      BY DEF RingInv
    <3>. QED
      BY <2>1, <3>1 DEF YieldMark
  <2>2. CASE \/ YieldSwitch(s) \/ ExitForeground(s) \/ ExitSwitch(s)
             \/ WaitReturn(s)
    BY <2>2 DEF YieldSwitch, ExitForeground, ExitSwitch, WaitReturn,
                SwitchToScheduler
  <2>3. CASE ExitUnlink(s)
    BY <2>3 DEF ExitUnlink, ExitNext, ExitPrev, ExitStop, ExitClear
  <2>4. CASE ForkReadTid(s)
    BY <2>0, <2>4 DEF ForkReadTid
  <2>5. CASE ForkNewDirectory(s) \/ ForkStack(s) \/ ForkStore(s) \/ ForkReturn(s)
    BY <2>5 DEF ForkNewDirectory, ForkStack, ForkStore, ForkReturn
  <2>10. CASE ForkInsert(s)
    BY <2>0, <2>10 DEF ForkInsert, ForkPrev, ForkForward, ForkBackward, ForkHead
  <2>6. CASE ForkPublish(s)
    <3>1. child[s] \in Tasks
      BY <2>6 DEF ForkPublish, ChildKnown, ForkPoints, Publishing, Linking
    <3>. QED
      BY <2>0, <2>6, <3>1 DEF ForkPublish
  <2>7. CASE ForkContext(s)
    <3>1. child[s] \in Tasks /\ child[s] # s
      BY <2>7 DEF ForkContext, BirthInv, MidFork, ChildKnown, ForkPoints, Publishing,
                  Linking
    <3>2. PICK point \in {"user", "lost"} :
              /\ pc' = [pc EXCEPT ![s] = "fork_end", ![child[s]] = point]
              /\ point = "lost" => pc[child[s]] = "lost"
      BY <2>7 DEF ForkContext
    <3>. QED
      BY <2>0, <2>7, <3>1, <3>2 DEF ForkContext
  <2>8. CASE ForkFail(s)
    BY <2>0, <2>8 DEF ForkFail
  <2>9. CASE ForkMapFail(s)
    BY <2>9 DEF ForkMapFail
  <2>. QED
    BY <1>6, <2>1, <2>2, <2>3, <2>4, <2>5, <2>6, <2>7, <2>8, <2>9, <2>10
    DEF KernelStep, Fork, ExitUnlink, ForkInsert
<1>. QED
  BY <1>1, <1>2, <1>3, <1>4, <1>5, <1>6 DEF Next, Scheduler

(* The flag of a tid is set for a task that is alive, and task_exit clears it
   as the task ends. *)
LEMMA WakeStep ==
    ASSUME TInv, OwnerInv, WakeInv, [Next]_vars, esp # Nowhere
    PROVE  WakeInv'
<1>. USE StackNames DEF TInv, TypeOK, WakeInv, NoLostWakeup, Without, Ready
<1>0. /\ mishap \subseteq mishap'
      /\ CpuInv /\ ReadyInv /\ RingInv /\ BirthInv
  BY MishapsStay DEF OwnerInv
<1>. USE <1>0
<1>1. CASE UNCHANGED vars \/ Runaway
  BY <1>1 DEF vars, forkVars, Runaway
<1>2. CASE SchedulerSkip
  BY <1>2 DEF SchedulerSkip, forkVars
<1>3. CASE SchedulerDispatch
  <2>1. /\ \A t \in Tasks : state[t] \in {"RUNNABLE", "RUNNING"}
                           => state'[t] \in {"RUNNABLE", "RUNNING"}
        /\ \A t \in Tasks : pc'[t] = "fork_end" => pc[t] = "fork_end"
        /\ esp \notin Tasks
    BY <1>3 DEF SchedulerDispatch, ReadyInv, ExitWindow
  <2>. QED
    BY <1>3, <2>1 DEF SchedulerDispatch, forkVars
<1>4. CASE Interrupt \/ PageFault \/ InterruptScheduler
  <2>1. /\ state' = [state EXCEPT ![fgtask] = "RUNNABLE"]
        /\ UNCHANGED <<pc, child, tidOf, is_running>>
        /\ esp \in Tasks /\ pc[esp] = "fork_end" => "wakeup" \in mishap'
        /\ esp \in Tasks /\ pc[esp] = "exit_stopped" => "exit" \in mishap'
    BY <1>4 DEF Interrupt, PageFault, Preempt, InterruptScheduler, forkVars, Mishap,
                ExitWindow, Publishing, Linking
  <2>. QED
    BY <2>1
<1>5. ASSUME NEW s \in Tasks, UserStep(s) PROVE WakeInv'
  <2>1. \E point \in {"user", "yield", "exit", "fork", "wait"} :
            Enter(s, point)
    BY <1>5 DEF UserStep, OtherCall, YieldCall, ExitCall, ForkCall, WaitCall
  <2>. QED
    BY <2>1 DEF Enter, CanRun, forkVars, CpuInv, ExitWindow
<1>6. ASSUME NEW s \in Tasks, KernelStep(s) PROVE WakeInv'
  <2>. USE DEF CanRun, Continue, forkVars
  <2>0. esp = s
    BY <1>6 DEF KernelStep, Fork, YieldMark, YieldSwitch, ExitForeground, ExitUnlink,
                ExitNext, ExitPrev, ExitStop, ExitClear, ExitSwitch, WaitReturn,
                ForkReadTid, ForkNewDirectory, ForkStack, ForkStore, ForkPublish,
                ForkInsert, ForkPrev, ForkForward, ForkBackward, ForkHead,
                ForkContext, ForkReturn, ForkFail, ForkMapFail
  <2>. USE <2>0
  <2>1. CASE YieldMark(s)
    BY <2>1 DEF YieldMark
  <2>2. CASE \/ YieldSwitch(s) \/ ExitForeground(s) \/ ExitSwitch(s)
             \/ WaitReturn(s)
    BY <2>2 DEF YieldSwitch, ExitForeground, ExitSwitch, WaitReturn,
                SwitchToScheduler
  <2>3. CASE ExitUnlink(s)
    BY <2>3 DEF ExitUnlink, ExitNext, ExitPrev, ExitStop, ExitClear
  <2>4. CASE ForkReadTid(s)
    <3>1. PICK c \in Tasks : /\ state[c] = "free"
                             /\ state' = [state EXCEPT ![c] = "new"]
                             /\ tidOf' = [tidOf EXCEPT ![c] = tid]
      BY <2>4 DEF ForkReadTid
    <3>. QED
      BY <2>4, <3>1 DEF ForkReadTid
  <2>5. CASE ForkNewDirectory(s) \/ ForkStack(s) \/ ForkStore(s)
    BY <2>5 DEF ForkNewDirectory, ForkStack, ForkStore
  <2>11. CASE ForkInsert(s)
    BY <2>11 DEF ForkInsert, ForkPrev, ForkForward, ForkBackward, ForkHead
  <2>6. CASE ForkPublish(s)
    <3>1. child[s] \in Tasks
      BY <2>6 DEF ForkPublish, ChildKnown, ForkPoints, Publishing, Linking
    <3>. QED
      BY <2>6, <3>1 DEF ForkPublish
  <2>7. CASE ForkContext(s)
    <3>1. child[s] \in Tasks /\ child[s] # s
      BY <2>7 DEF ForkContext, BirthInv, MidFork, ChildKnown, ForkPoints, Publishing,
                  Linking
    <3>2. state[child[s]] \in {"RUNNABLE", "RUNNING"}
      BY <2>7, <3>1 DEF ForkContext, BirthInv, MidFork, Publishing, Linking, Unborn,
                        States
    <3>3. PICK point \in {"user", "lost"} :
              pc' = [pc EXCEPT ![s] = "fork_end", ![child[s]] = point]
      BY <2>7 DEF ForkContext
    <3>. QED
      BY <2>7, <3>1, <3>2, <3>3 DEF ForkContext
  <2>8. CASE ForkReturn(s)
    <3>1. child[s] \in Tasks /\ tidOf[child[s]] \in Tids
      BY <2>8 DEF ForkReturn, ChildKnown, ForkPoints, Publishing, Linking
    <3>. QED
      BY <2>8, <3>1 DEF ForkReturn
  <2>9. CASE ForkFail(s)
    BY <2>9 DEF ForkFail
  <2>10. CASE ForkMapFail(s)
    BY <2>10 DEF ForkMapFail
  <2>. QED
    BY <1>6, <2>1, <2>2, <2>3, <2>4, <2>5, <2>6, <2>7, <2>8, <2>9, <2>10, <2>11
    DEF KernelStep, Fork, ExitUnlink, ForkInsert
<1>. QED
  BY <1>1, <1>2, <1>3, <1>4, <1>5, <1>6 DEF Next, Scheduler

-----------------------------------------------------------------------------
(* The facts about fork hold in every state, also when the machine has been
   lost. *)
LEMMA ForkFacts == Spec => [](OwnerInv /\ ForkInv)
<1>1. Init => OwnerInv /\ ForkInv
  <2>1. Init => ForkInv
    BY TaskAssumption DEF Init, ForkInv, KnowInv, ChildInv, WakeInv, NoLostWakeup,
                          Unborn, NoResult, Tasks, None, Publishing, Linking
  <2>. QED
    BY <2>1, InitOwner
<1>2. TInv /\ OwnerInv /\ ForkInv /\ [Next]_vars => (OwnerInv /\ ForkInv)'
  <2>1. CASE esp = Nowhere
    BY <2>1, NowhereStays
    DEF vars, ring, forkVars, OwnerInv, CpuInv, ReadyInv, RingInv, BirthInv, Unborn,
        MidFork, Publishing, Linking, ForkInv, KnowInv, ChildInv, WakeInv,
        NoLostWakeup, Ready, Without
  <2>2. CASE esp # Nowhere
    BY <2>2, OwnerStep, KnowStep, ChildStep, WakeStep DEF ForkInv
  <2>. QED
    BY <2>1, <2>2
<1>3. IInv => TInv
  BY DEF IInv
<1>. QED
  BY InvariantHolds, <1>1, <1>2, <1>3, PTL DEF Spec

(* task_fork returns 0 in the child only, as long as the tid has not wrapped
   and task_fork has not given up a child it had published. *)
THEOREM ParentsKnow == Spec => []ParentKnows
<1>1. IInv /\ ForkInv => ParentKnows
  BY DEF IInv, TInv, TypeOK, ForkInv, KnowInv, ParentKnows, Without,
         ZeroOnlyInChild
<1>. QED
  BY InvariantHolds, ForkFacts, <1>1, PTL

(* No child is dispatched before task_fork has built it, as long as no
   interrupt comes between its publication and the set-up of its context. *)
THEOREM ChildrenAreComplete == Spec => []ChildComplete
<1>1. ForkInv => ChildComplete
  BY DEF ForkInv, ChildInv, ChildComplete, Without, Ready, Unborn
<1>. QED
  BY ForkFacts, <1>1, PTL

(* task_wait spins on the flag of a task that is alive, or that is about to
   clear it, as long as no interrupt comes in task_exit and no
   interrupt comes before task_fork has set the flag of its child. *)
THEOREM NoWakeupIsLost == Spec => []NoLostWakeup
<1>1. ForkInv => NoLostWakeup
  BY DEF ForkInv, WakeInv
<1>. QED
  BY ForkFacts, <1>1, PTL
-----------------------------------------------------------------------------
(* A child has one parent, and is published when task_fork ends. *)
KinInv ==
    /\ \A p, q \in Tasks : child[p] # None /\ child[p] = child[q] => p = q
    /\ \A s \in Tasks : pc[s] = "fork_end" => ~Unborn(child[s])

(* As long as no interrupt has come between the load and the store of tid++,
   and no child got tid 0, tids are given out in order. *)
TidInv ==
    Without({"wrap", "tid"}) =>
        /\ \A t \in Tasks : pc[t] = "fork_tid"
                            => esp = t /\ tidOf[child[t]] = tid /\ tid # 0
        /\ \A t \in Tasks : state[t] # "free" =>
              \/ tid = 0 \/ tidOf[t] < tid
              \/ \E s \in Tasks : pc[s] = "fork_tid" /\ child[s] = t
        /\ \A t \in Tasks : tid = 0 \/ got[t] < tid
        /\ \A t, u \in Tasks : state[t] # "free" /\ state[u] # "free"
                               /\ tidOf[t] = tidOf[u] => t = u

(* The code that runs is that of a task that is alive, up to the end of
   task_exit, unless an interrupt has given the CPU to one that is not. *)
LiveInv ==
    Without({"exit", "scheduler"}) =>
        \A t \in Tasks : esp = t =>
            IF pc[t] \in {"exit_stopped", "exit_clear"} THEN state[t] = "STOPPED"
                                                       ELSE Ready(t)

(* The flag of a child that its parent knows is set until the child ends. *)
FlagInv ==
    Without({"wrap", "tid", "exit", "scheduler"}) =>
        \A p \in Tasks : Known(p) # None =>
            /\ ~Unborn(Known(p))
            /\ Ready(Known(p)) => is_running[tidOf[Known(p)]]

(* task_fork keeps its child to itself. *)
LEMMA KinStep ==
    ASSUME TInv, OwnerInv, KinInv, [Next]_vars, esp # Nowhere
    PROVE  KinInv'
<1>. USE StackNames DEF TInv, TypeOK, KinInv, Unborn
<1>0. CpuInv /\ ReadyInv /\ RingInv /\ BirthInv
  BY DEF OwnerInv
<1>1. CASE UNCHANGED vars \/ Runaway
  BY <1>1 DEF vars, forkVars, Runaway
<1>2. CASE SchedulerSkip
  BY <1>2 DEF SchedulerSkip, forkVars
<1>3. CASE SchedulerDispatch
  <2>1. /\ \A t \in Tasks : state[t] \notin {"free", "new"}
                           => state'[t] \notin {"free", "new"}
        /\ \A t \in Tasks : pc'[t] = "fork_end" => pc[t] = "fork_end"
    BY <1>0, <1>3 DEF SchedulerDispatch, ReadyInv, ExitWindow
  <2>2. \A t \in Tasks : pc[t] = "fork_end" => child[t] \in Tasks
    BY DEF ChildKnown, ForkPoints, Publishing, Linking
  <2>. QED
    BY <1>3, <2>1, <2>2 DEF SchedulerDispatch, forkVars
<1>4. CASE Interrupt \/ PageFault \/ InterruptScheduler
  <2>1. /\ state' = [state EXCEPT ![fgtask] = "RUNNABLE"]
        /\ UNCHANGED <<pc, child>>
    BY <1>4 DEF Interrupt, PageFault, Preempt, InterruptScheduler, forkVars
  <2>2. \A t \in Tasks : pc[t] = "fork_end" => child[t] \in Tasks
    BY DEF ChildKnown, ForkPoints, Publishing, Linking
  <2>. QED
    BY <2>1, <2>2
<1>5. ASSUME NEW s \in Tasks, UserStep(s) PROVE KinInv'
  <2>1. \E point \in {"user", "yield", "exit", "fork", "wait"} :
            Enter(s, point)
    BY <1>5 DEF UserStep, OtherCall, YieldCall, ExitCall, ForkCall, WaitCall
  <2>. QED
    BY <2>1 DEF Enter, CanRun, forkVars
<1>6. ASSUME NEW s \in Tasks, KernelStep(s) PROVE KinInv'
  <2>. USE DEF CanRun, Continue, forkVars
  <2>0. \A t \in Tasks : pc[t] = "fork_end" => child[t] \in Tasks
    BY DEF ChildKnown, ForkPoints, Publishing, Linking
  <2>1. CASE YieldMark(s)
    BY <2>0, <2>1 DEF YieldMark
  <2>2. CASE \/ YieldSwitch(s) \/ ExitForeground(s) \/ ExitSwitch(s)
             \/ WaitReturn(s)
    BY <2>2 DEF YieldSwitch, ExitForeground, ExitSwitch, WaitReturn,
                SwitchToScheduler
  <2>3. CASE ExitUnlink(s)
    BY <2>0, <2>3 DEF ExitUnlink, ExitNext, ExitPrev, ExitStop, ExitClear
  <2>4. CASE ForkReadTid(s)
    <3>1. PICK c \in Tasks : /\ state[c] = "free"
                             /\ state' = [state EXCEPT ![c] = "new"]
                             /\ child' = [child EXCEPT ![s] = c]
      BY <2>4 DEF ForkReadTid
    <3>2. \A p \in Tasks : child[p] # c
      BY <1>0, <3>1 DEF BirthInv
    <3>. QED
      BY <2>0, <2>4, <3>1, <3>2 DEF ForkReadTid
  <2>5. CASE ForkNewDirectory(s) \/ ForkStack(s) \/ ForkStore(s)
             \/ ForkReturn(s) \/ ForkMapFail(s)
    BY <2>5 DEF ForkNewDirectory, ForkStack, ForkStore, ForkReturn, ForkMapFail
  <2>9. CASE ForkInsert(s)
    BY <2>9 DEF ForkInsert, ForkPrev, ForkForward, ForkBackward, ForkHead
  <2>6. CASE ForkPublish(s)
    BY <2>0, <2>6 DEF ForkPublish
  <2>7. CASE ForkContext(s)
    <3>1. child[s] \in Tasks /\ child[s] # s /\ ~Unborn(child[s])
      BY <1>0, <2>7 DEF ForkContext, BirthInv, MidFork, ChildKnown, ForkPoints,
                        Publishing, Linking
    <3>2. PICK point \in {"user", "lost"} :
              pc' = [pc EXCEPT ![s] = "fork_end", ![child[s]] = point]
      BY <2>7 DEF ForkContext
    <3>. QED
      BY <2>7, <3>1, <3>2 DEF ForkContext
  <2>8. CASE ForkFail(s)
    BY <2>8 DEF ForkFail
  <2>. QED
    BY <1>6, <2>1, <2>2, <2>3, <2>4, <2>5, <2>6, <2>7, <2>8, <2>9
    DEF KernelStep, Fork, ExitUnlink, ForkInsert
<1>. QED
  BY <1>1, <1>2, <1>3, <1>4, <1>5, <1>6 DEF Next, Scheduler

(* tid++ gives the next tid, or 0 after the last. *)
LEMMA CountTidNext ==
    ASSUME NEW s \in Tasks, TypeOK, tidOf[child[s]] = tid, CountTid(s)
    PROVE  tid' = tid + 1 \/ tid' = 0
<1>1. tid \in Nat /\ TidSpan \in Nat \ {0} /\ tid <= TidSpan - 1
  BY TaskAssumption DEF TypeOK, Tids
<1>2. CASE tid + 1 < TidSpan
  <2>1. (tid + 1) % TidSpan = tid + 1
    BY <1>1, <1>2
  <2>. QED
    BY <2>1 DEF CountTid
<1>3. CASE ~(tid + 1 < TidSpan)
  <2>1. tid + 1 = TidSpan
    BY <1>1, <1>3
  <2>2. TidSpan % TidSpan = 0
    BY <1>1
  <2>. QED
    BY <2>1, <2>2 DEF CountTid
<1>. QED
  BY <1>2, <1>3
(* Tids are given out in order and kept. *)
LEMMA TidStep ==
    ASSUME TInv, OwnerInv, TidInv, [Next]_vars, esp # Nowhere
    PROVE  TidInv'
<1>. SUFFICES ASSUME Without({"wrap", "tid"})'
              PROVE  /\ \A t \in Tasks : pc'[t] = "fork_tid"
                            => esp' = t /\ tidOf'[child'[t]] = tid' /\ tid' # 0
                     /\ \A t \in Tasks : state'[t] # "free" =>
                          \/ tid' = 0 \/ tidOf'[t] < tid'
                          \/ \E s \in Tasks : pc'[s] = "fork_tid" /\ child'[s] = t
                     /\ \A t \in Tasks : tid' = 0 \/ got'[t] < tid'
                     /\ \A t, u \in Tasks : state'[t] # "free" /\ state'[u] # "free"
                                            /\ tidOf'[t] = tidOf'[u] => t = u
  BY DEF TidInv
<1>. DEFINE Goal ==
         /\ \A t \in Tasks : pc'[t] = "fork_tid"
                => esp' = t /\ tidOf'[child'[t]] = tid' /\ tid' # 0
         /\ \A t \in Tasks : state'[t] # "free" =>
              \/ tid' = 0 \/ tidOf'[t] < tid'
              \/ \E s \in Tasks : pc'[s] = "fork_tid" /\ child'[s] = t
         /\ \A t \in Tasks : tid' = 0 \/ got'[t] < tid'
         /\ \A t, u \in Tasks : state'[t] # "free" /\ state'[u] # "free"
                                /\ tidOf'[t] = tidOf'[u] => t = u
<1>m. Without({"wrap", "tid"})
  BY MishapsStay DEF Without
<1>i. /\ \A t \in Tasks : pc[t] = "fork_tid"
                => esp = t /\ tidOf[child[t]] = tid /\ tid # 0
      /\ \A t \in Tasks : state[t] # "free" =>
            \/ tid = 0 \/ tidOf[t] < tid
            \/ \E s \in Tasks : pc[s] = "fork_tid" /\ child[s] = t
      /\ \A t \in Tasks : tid = 0 \/ got[t] < tid
      /\ \A t, u \in Tasks : state[t] # "free" /\ state[u] # "free"
                             /\ tidOf[t] = tidOf[u] => t = u
  BY <1>m DEF TidInv
<1>t. /\ tid \in Nat /\ state \in [Tasks -> States] /\ pc \in [Tasks -> Points]
      /\ tidOf \in [Tasks -> Nat] /\ child \in [Tasks -> {None} \cup Tasks]
      /\ got \in [Tasks -> Int] /\ fgtask \in Tasks
  <2>1. Tids \subseteq Nat /\ {NoResult, -1} \cup Tids \subseteq Int
    BY TaskAssumption DEF Tids, NoResult
  <2>. QED
    BY <2>1 DEF TInv, TypeOK
<1>0. CpuInv /\ ReadyInv /\ RingInv /\ BirthInv
  BY DEF OwnerInv
<1>s. ASSUME UNCHANGED <<tid, tidOf, child, got>>,
             \A t \in Tasks : /\ state'[t] # "free" => state[t] # "free"
                              /\ pc'[t] = "fork_tid" <=> pc[t] = "fork_tid"
                              /\ pc[t] = "fork_tid" => esp' = t
      PROVE  Goal
  BY <1>i, <1>s, <1>t
<1>1. CASE UNCHANGED vars \/ Runaway
  BY <1>1, <1>i, <1>s DEF vars, forkVars, Runaway
<1>2. CASE SchedulerSkip
  BY <1>2, <1>i, <1>s DEF SchedulerSkip, forkVars
<1>3. CASE SchedulerDispatch
  <2>1. PICK t \in Tasks : t = next[fgtask]
    BY DEF TInv, TypeOK
  <2>2. state[t] = "RUNNABLE" /\ ctx[t] \in Tasks
    BY <1>0, <1>3, <2>1 DEF SchedulerDispatch, ReadyInv
  <2>3. \A u \in Tasks : pc[u] # "fork_tid"
    BY <1>3, <1>i, StackNames DEF SchedulerDispatch
  <2>. QED
    BY <1>3, <1>s, <1>t, <2>1, <2>2, <2>3 DEF SchedulerDispatch, forkVars
<1>4. CASE Interrupt \/ PageFault \/ InterruptScheduler
  <2>1. state[fgtask] # "free"
    BY <1>0 DEF RingInv, Unborn
  <2>2. \A t \in Tasks : pc[t] # "fork_tid"
    <3>1. CASE Interrupt
      <4>1. esp \in Tasks /\ mishap' = mishap \cup Mishap(pc[esp])
        BY <3>1 DEF Interrupt
      <4>2. pc[esp] # "fork_tid"
        BY <4>1 DEF Mishap, ExitWindow, Without, Publishing, Linking
      <4>. QED
        BY <1>i, <4>1, <4>2
    <3>2. CASE PageFault \/ InterruptScheduler
      BY <1>i, <3>2, StackNames DEF PageFault, InterruptScheduler
    <3>. QED
      BY <1>4, <3>1, <3>2
  <2>3. state' = [state EXCEPT ![fgtask] = "RUNNABLE"] /\ UNCHANGED <<pc, forkVars>>
    BY <1>4 DEF Interrupt, PageFault, Preempt, InterruptScheduler
  <2>. QED
    BY <1>s, <1>t, <2>1, <2>2, <2>3 DEF forkVars
<1>5. ASSUME NEW s \in Tasks, UserStep(s) PROVE Goal
  <2>1. PICK point \in {"user", "yield", "exit", "fork", "wait"} :
            Enter(s, point)
    BY <1>5 DEF UserStep, OtherCall, YieldCall, ExitCall, ForkCall, WaitCall
  <2>2. \A t \in Tasks : pc[t] # "fork_tid"
    BY <1>i, <2>1 DEF Enter, CanRun
  <2>. QED
    BY <1>s, <1>t, <2>1, <2>2 DEF Enter, forkVars
<1>6. ASSUME NEW s \in Tasks, KernelStep(s) PROVE Goal
  <2>. USE DEF CanRun, Continue, forkVars
  <2>0. esp = s /\ \A t \in Tasks : pc[t] = "fork_tid" => t = s
    BY <1>6, <1>i DEF KernelStep, Fork, YieldMark, YieldSwitch, ExitForeground,
                      ExitUnlink, ExitNext, ExitPrev, ExitStop, ExitClear, ExitSwitch,
                      WaitReturn, ForkReadTid, ForkNewDirectory, ForkStack, ForkStore,
                      ForkPublish, ForkInsert, ForkPrev, ForkForward, ForkBackward,
                      ForkHead, ForkContext, ForkReturn, ForkFail, ForkMapFail
  <2>1. CASE YieldMark(s)
    <3>1. state[fgtask] # "free"
      BY <1>0 DEF RingInv, Unborn
    <3>. QED
      BY <1>s, <1>t, <2>0, <2>1, <3>1 DEF YieldMark
  <2>2. CASE \/ YieldSwitch(s) \/ ExitForeground(s) \/ ExitSwitch(s)
    BY <1>s, <1>t, <2>0, <2>2 DEF YieldSwitch, ExitForeground, ExitSwitch,
                                  SwitchToScheduler
  <2>3. CASE ExitUnlink(s)
    <3>1. state[s] # "free"
      BY <1>0, <2>3 DEF ExitUnlink, ExitNext, ExitPrev, ExitStop, ExitClear, RingInv,
                        Unborn
    <3>. QED
      BY <1>s, <1>t, <2>0, <2>3, <3>1 DEF ExitUnlink, ExitNext, ExitPrev, ExitStop,
                                          ExitClear
  <2>4. CASE WaitReturn(s)
    <3>1. /\ \A t \in Tasks : pc[t] # "fork_tid" /\ pc'[t] # "fork_tid"
          /\ \A t \in Tasks : got'[t] = got[t] \/ got'[t] = NoResult
          /\ UNCHANGED <<tid, tidOf, child, state>>
      BY <1>t, <2>0, <2>4 DEF WaitReturn
    <3>2. tid = 0 \/ NoResult < tid
      BY <1>t DEF NoResult
    <3>. QED
      BY <1>i, <3>1, <3>2
  <2>5. CASE ForkReadTid(s)
    <3>1. PICK c \in Tasks : /\ state[c] = "free"
                             /\ state' = [state EXCEPT ![c] = "new"]
                             /\ child' = [child EXCEPT ![s] = c]
                             /\ tidOf' = [tidOf EXCEPT ![c] = tid]
      BY <2>5 DEF ForkReadTid
    <3>2. /\ \A t \in Tasks : pc[t] # "fork_tid"
          /\ pc' = [pc EXCEPT ![s] = "fork_tid"] /\ esp' = s
          /\ UNCHANGED <<tid, got>>
      BY <2>0, <2>5 DEF ForkReadTid
    <3>3. tid # 0
      BY <2>5 DEF ForkReadTid, Without
    <3>4. \A t \in Tasks : state[t] # "free" => tidOf[t] < tid
      BY <1>i, <3>2, <3>3
    <3>5. \A t \in Tasks : pc'[t] = "fork_tid"
                => esp' = t /\ tidOf'[child'[t]] = tid' /\ tid' # 0
      BY <1>t, <3>1, <3>2, <3>3
    <3>6. \A t \in Tasks : state'[t] # "free" =>
              \/ tid' = 0 \/ tidOf'[t] < tid'
              \/ \E r \in Tasks : pc'[r] = "fork_tid" /\ child'[r] = t
      <4>1. pc'[s] = "fork_tid" /\ child'[s] = c
        BY <1>t, <3>1, <3>2
      <4>2. \A t \in Tasks \ {c} : state'[t] = state[t] /\ tidOf'[t] = tidOf[t]
        BY <1>t, <3>1
      <4>. QED
        BY <3>2, <3>4, <4>1, <4>2
    <3>7. \A t, u \in Tasks : state'[t] # "free" /\ state'[u] # "free"
                              /\ tidOf'[t] = tidOf'[u] => t = u
      <4>1. \A t \in Tasks \ {c} : state'[t] = state[t] /\ tidOf'[t] = tidOf[t]
        BY <1>t, <3>1
      <4>2. tidOf'[c] = tid /\ \A t \in Tasks : state[t] # "free" => tidOf[t] # tid
        BY <1>t, <3>1, <3>4
      <4>. QED
        BY <1>i, <4>1, <4>2
    <3>. QED
      BY <1>i, <3>2, <3>5, <3>6, <3>7
  <2>6. CASE ForkNewDirectory(s) \/ (ForkFail(s) /\ pc[s] = "fork_tid")
    <3>1. /\ pc[s] = "fork_tid" /\ CountTid(s)
          /\ \A t \in Tasks : pc'[t] # "fork_tid"
          /\ \A t \in Tasks : got'[t] = got[t] \/ got'[t] = -1
          /\ UNCHANGED <<tidOf, state>>
      BY <1>t, <2>0, <2>6 DEF ForkNewDirectory, ForkFail
    <3>2. tidOf[child[s]] = tid /\ (tid' = tid + 1 \/ tid' = 0)
      BY <1>i, <3>1, CountTidNext DEF TInv
    <3>3. \A t \in Tasks : state[t] # "free" => tidOf[t] <= tid
      BY <1>i, <1>t, <2>0, <3>1, <3>2
    <3>. QED
      BY <1>i, <1>t, <3>1, <3>2, <3>3
  <2>7. CASE ForkStack(s) \/ ForkStore(s) \/ ForkInsert(s)
    BY <1>s, <1>t, <2>0, <2>7 DEF ForkStack, ForkStore, ForkInsert, ForkPrev,
                                  ForkForward, ForkBackward, ForkHead
  <2>8. CASE ForkPublish(s)
    <3>1. child[s] \in Tasks /\ state[child[s]] = "new"
      BY <1>0, <2>8 DEF ForkPublish, TInv, ChildKnown, ForkPoints, Publishing,
                        Linking, BirthInv, MidFork
    <3>. QED
      BY <1>s, <1>t, <2>0, <2>8, <3>1 DEF ForkPublish
  <2>9. CASE ForkContext(s)
    <3>1. child[s] \in Tasks
      BY <2>9 DEF ForkContext, TInv, ChildKnown, ForkPoints, Publishing, Linking
    <3>2. /\ \A t \in Tasks : pc[t] # "fork_tid" /\ pc'[t] # "fork_tid"
          /\ \A t \in Tasks : got'[t] = got[t] \/ got'[t] = 0
          /\ UNCHANGED <<tid, tidOf, child, state>>
      <4>1. PICK point \in {"user", "lost"} :
                pc' = [pc EXCEPT ![s] = "fork_end", ![child[s]] = point]
        BY <2>9 DEF ForkContext
      <4>. QED
        BY <1>t, <2>0, <2>9, <3>1, <4>1 DEF ForkContext
    <3>. QED
      BY <1>i, <1>t, <3>2
  <2>10. CASE ForkReturn(s)
    <3>1. child[s] \in Tasks /\ state[child[s]] # "free"
      BY <1>0, <2>10 DEF ForkReturn, TInv, ChildKnown, ForkPoints, Publishing,
                         Linking, BirthInv, None, Tasks
    <3>2. \A t \in Tasks : pc[t] # "fork_tid"
      BY <2>0, <2>10 DEF ForkReturn
    <3>3. tid = 0 \/ tidOf[child[s]] < tid
      BY <1>i, <3>1, <3>2
    <3>. QED
      BY <1>i, <1>t, <2>10, <3>1, <3>2, <3>3 DEF ForkReturn
  <2>11. CASE ForkMapFail(s) \/ (ForkFail(s) /\ pc[s] # "fork_tid")
    <3>1. /\ \A t \in Tasks : pc[t] # "fork_tid" /\ pc'[t] # "fork_tid"
          /\ \A t \in Tasks : got'[t] = got[t] \/ got'[t] \in {0, -1}
          /\ UNCHANGED <<tid, tidOf, state>>
      BY <1>t, <2>0, <2>11 DEF ForkMapFail, ForkFail
    <3>. QED
      BY <1>i, <1>t, <3>1
  <2>. QED
    BY <1>6, <2>1, <2>2, <2>3, <2>4, <2>5, <2>6, <2>7, <2>8, <2>9, <2>10, <2>11
    DEF KernelStep, Fork, ExitUnlink, ForkInsert
<1>. QED
  BY <1>1, <1>2, <1>3, <1>4, <1>5, <1>6 DEF Next, Scheduler

(* Only a task that is alive is dispatched, and it is found where its own code
   left off. *)
LEMMA LiveStep ==
    ASSUME TInv, StackInv, OwnerInv, LiveInv, [Next]_vars, esp # Nowhere
    PROVE  LiveInv'
<1>. SUFFICES ASSUME Without({"exit", "scheduler"})', NEW r \in Tasks, esp' = r
              PROVE  IF pc'[r] \in {"exit_stopped", "exit_clear"}
                       THEN state'[r] = "STOPPED" ELSE Ready(r)'
  BY DEF LiveInv
<1>. DEFINE Goal == IF pc'[r] \in {"exit_stopped", "exit_clear"}
                       THEN state'[r] = "STOPPED" ELSE Ready(r)'
<1>. USE StackNames DEF Ready
<1>m. Without({"exit", "scheduler"}) /\ Without({"exit"})
  BY MishapsStay DEF Without
<1>i. \A t \in Tasks : esp = t => IF pc[t] \in {"exit_stopped", "exit_clear"}
                                    THEN state[t] = "STOPPED" ELSE Ready(t)
  BY <1>m DEF LiveInv
<1>c. /\ \A t \in Tasks : t # esp => pc[t] \notin ExitWindow
      /\ \A t \in Tasks : ctx[t] = t
      /\ esp \in Tasks /\ pc[esp] \notin ExitWindow => fgtask = esp
  BY <1>m DEF StackInv
<1>t. /\ state \in [Tasks -> States] /\ pc \in [Tasks -> Points]
      /\ fgtask \in Tasks /\ child \in [Tasks -> {None} \cup Tasks]
  BY DEF TInv, TypeOK
<1>0. CpuInv /\ ReadyInv /\ RingInv /\ BirthInv
  BY DEF OwnerInv
<1>1. CASE UNCHANGED vars \/ Runaway
  BY <1>1, <1>i DEF vars, Runaway
<1>2. CASE SchedulerSkip
  BY <1>2 DEF SchedulerSkip
<1>3. CASE SchedulerDispatch
  <2>1. PICK t \in Tasks : t = next[fgtask]
    BY DEF TInv, TypeOK
  <2>2. ctx[t] = t /\ r = t /\ pc[t] \notin ExitWindow
    BY <1>3, <1>c, <2>1 DEF SchedulerDispatch
  <2>. QED
    BY <1>3, <1>t, <2>1, <2>2 DEF SchedulerDispatch, ExitWindow
<1>4. CASE Interrupt \/ PageFault \/ InterruptScheduler
  BY <1>4 DEF Interrupt, PageFault, Preempt, InterruptScheduler
<1>5. ASSUME NEW s \in Tasks, UserStep(s) PROVE Goal
  <2>1. PICK point \in {"user", "yield", "exit", "fork", "wait"} :
            Enter(s, point)
    BY <1>5 DEF UserStep, OtherCall, YieldCall, ExitCall, ForkCall, WaitCall
  <2>2. fgtask = s
    BY <1>c, <2>1 DEF Enter, CanRun, ExitWindow
  <2>. QED
    BY <1>i, <1>t, <2>1, <2>2 DEF Enter, CanRun
<1>6. ASSUME NEW s \in Tasks, KernelStep(s) PROVE Goal
  <2>. USE DEF CanRun, Continue
  <2>0. esp = s /\ (IF pc[s] \in {"exit_stopped", "exit_clear"}
                       THEN state[s] = "STOPPED" ELSE Ready(s))
    BY <1>6, <1>i DEF KernelStep, Fork, YieldMark, YieldSwitch, ExitForeground,
                      ExitUnlink, ExitNext, ExitPrev, ExitStop, ExitClear, ExitSwitch,
                      WaitReturn, ForkReadTid, ForkNewDirectory, ForkStack, ForkStore,
                      ForkPublish, ForkInsert, ForkPrev, ForkForward, ForkBackward,
                      ForkHead, ForkContext, ForkReturn, ForkFail, ForkMapFail
  <2>1. CASE YieldMark(s)
    BY <1>t, <2>0, <2>1 DEF YieldMark
  <2>2. CASE YieldSwitch(s) \/ ExitSwitch(s)
    BY <2>2 DEF YieldSwitch, ExitSwitch, SwitchToScheduler
  <2>3. CASE ExitForeground(s)
    BY <1>t, <2>0, <2>3 DEF ExitForeground
  <2>4. CASE ExitUnlink(s)
    BY <1>t, <2>0, <2>4 DEF ExitUnlink, ExitNext, ExitPrev, ExitStop, ExitClear
  <2>5. CASE WaitReturn(s)
    BY <1>t, <2>0, <2>5 DEF WaitReturn
  <2>6. CASE ForkReadTid(s)
    BY <1>t, <2>0, <2>6 DEF ForkReadTid
  <2>7. CASE \/ ForkNewDirectory(s) \/ ForkStack(s) \/ ForkStore(s)
             \/ ForkReturn(s) \/ ForkMapFail(s) \/ ForkFail(s) \/ ForkInsert(s)
    BY <1>t, <2>0, <2>7 DEF ForkNewDirectory, ForkStack, ForkStore, ForkReturn,
                            ForkMapFail, ForkFail, ForkInsert, ForkPrev,
                            ForkForward, ForkBackward, ForkHead
  <2>8. CASE ForkPublish(s)
    BY <1>t, <2>0, <2>8 DEF ForkPublish
  <2>9. CASE ForkContext(s)
    <3>1. child[s] \in Tasks /\ child[s] # s
      BY <1>0, <2>9 DEF ForkContext, BirthInv, MidFork, TInv, ChildKnown, ForkPoints,
                        Publishing, Linking
    <3>. QED
      BY <1>t, <2>0, <2>9, <3>1 DEF ForkContext
  <2>. QED
    BY <1>6, <2>1, <2>2, <2>3, <2>4, <2>5, <2>6, <2>7, <2>8, <2>9
    DEF KernelStep, Fork, ExitUnlink, ForkInsert
<1>. QED
  BY <1>1, <1>2, <1>3, <1>4, <1>5, <1>6 DEF Next, Scheduler
(* What parents know changes in their own calls of fork and wait only. *)
LEMMA KnownStep ==
    ASSUME TInv, OwnerInv, KnowInv, TidInv, [Next]_vars, esp # Nowhere,
           Without({"wrap", "tid"})'
    PROVE  \/ \A t \in Tasks : Known(t)' = Known(t)
           \/ \E s \in Tasks :
                 /\ \/ ForkReadTid(s) \/ ForkFail(s) \/ ForkMapFail(s)
                    \/ WaitReturn(s) /\ s \in Shells
                 /\ Known(s)' = None
                 /\ \A t \in Tasks \ {s} : Known(t)' = Known(t)
           \/ \E s \in Tasks :
                 /\ ForkReturn(s)
                 /\ Known(s)' = child[s]
                 /\ \A t \in Tasks \ {s} : Known(t)' = Known(t)
<1>. DEFINE Goal ==
           \/ \A t \in Tasks : Known(t)' = Known(t)
           \/ \E s \in Tasks :
                 /\ \/ ForkReadTid(s) \/ ForkFail(s) \/ ForkMapFail(s)
                    \/ WaitReturn(s) /\ s \in Shells
                 /\ Known(s)' = None
                 /\ \A t \in Tasks \ {s} : Known(t)' = Known(t)
           \/ \E s \in Tasks :
                 /\ ForkReturn(s)
                 /\ Known(s)' = child[s]
                 /\ \A t \in Tasks \ {s} : Known(t)' = Known(t)
<1>m. Without({"wrap", "tid"}) /\ Without({"wrap"})
  BY MishapsStay DEF Without
<1>t. /\ tid \in Nat /\ tidOf \in [Tasks -> Nat] /\ state \in [Tasks -> States]
      /\ child \in [Tasks -> {None} \cup Tasks]
      /\ got \in [Tasks -> Int] /\ fgtask \in Tasks
  <2>1. Tids \subseteq Nat /\ {NoResult, -1} \cup Tids \subseteq Int
    BY TaskAssumption DEF Tids, NoResult
  <2>. QED
    BY <2>1 DEF TInv, TypeOK
<1>k. \A t \in Tasks : /\ child[t] # None => state[child[t]] # "free"
                       /\ child[t] # None => tidOf[child[t]] # 0
                       /\ child[t] # None => child[t] \in Tasks
  BY <1>m, <1>t DEF OwnerInv, BirthInv, KnowInv
<1>s. ASSUME UNCHANGED <<child, got, tidOf>> PROVE Goal
  BY <1>s DEF Known
<1>1. ASSUME \/ UNCHANGED vars \/ Runaway \/ Scheduler
             \/ Interrupt \/ PageFault \/ InterruptScheduler
             \/ \E s \in Tasks : UserStep(s)
      PROVE  Goal
  BY <1>1, <1>s
  DEF vars, Runaway, Scheduler, SchedulerSkip, SchedulerDispatch, Interrupt,
      PageFault, Preempt, InterruptScheduler, UserStep, OtherCall, YieldCall,
      ExitCall, ForkCall, WaitCall, Enter, forkVars
<1>2. ASSUME NEW s \in Tasks, KernelStep(s) PROVE Goal
  <2>1. CASE \/ YieldMark(s) \/ YieldSwitch(s) \/ ExitForeground(s)
             \/ ExitUnlink(s) \/ ExitSwitch(s) \/ ForkNewDirectory(s)
             \/ ForkStack(s) \/ ForkStore(s) \/ ForkPublish(s)
             \/ ForkInsert(s)
    BY <1>s, <2>1
    DEF YieldMark, YieldSwitch, ExitForeground, ExitUnlink, ExitNext, ExitPrev,
        ExitStop, ExitClear, ExitSwitch, ForkNewDirectory, ForkStack, ForkStore,
        ForkPublish, ForkInsert, ForkPrev, ForkForward, ForkBackward, ForkHead,
        Continue, SwitchToScheduler, forkVars
  <2>2. CASE WaitReturn(s)
    <3>1. CASE s \in Shells
      <4>1. UNCHANGED <<child, tidOf>> /\ got' = [got EXCEPT ![s] = NoResult]
        BY <2>2, <3>1 DEF WaitReturn
      <4>2. Known(s)' = None
        BY <1>k, <1>t, <4>1 DEF Known, NoResult
      <4>. QED
        BY <1>t, <2>2, <3>1, <4>1, <4>2 DEF Known
    <3>2. CASE s \notin Shells
      BY <1>s, <2>2, <3>2 DEF WaitReturn
    <3>. QED
      BY <3>1, <3>2
  <2>3. CASE ForkReadTid(s)
    <3>1. PICK c \in Tasks : /\ state[c] = "free"
                             /\ child' = [child EXCEPT ![s] = c]
                             /\ tidOf' = [tidOf EXCEPT ![c] = tid]
      BY <2>3 DEF ForkReadTid
    <3>2. tid # 0 /\ got' = got
      BY <2>3 DEF ForkReadTid, Without
    <3>3. got[s] < tid
      BY <1>m, <3>2 DEF TidInv
    <3>4. Known(s)' = None
      BY <1>t, <3>1, <3>2, <3>3 DEF Known
    <3>5. \A t \in Tasks \ {s} : Known(t)' = Known(t)
      BY <1>k, <1>t, <3>1, <3>2 DEF Known
    <3>. QED
      BY <2>3, <3>4, <3>5
  <2>4. CASE ForkContext(s)
    <3>1. child[child[s]] = None /\ child[s] \in Tasks
      BY <2>4 DEF ForkContext, CanRun, OwnerInv, BirthInv, MidFork, TInv, ChildKnown,
                  ForkPoints, Publishing, Linking
    <3>2. UNCHANGED <<child, tidOf>> /\ got' = [got EXCEPT ![child[s]] = 0]
      BY <2>4 DEF ForkContext
    <3>3. \A t \in Tasks : Known(t)' = Known(t)
      BY <1>t, <3>1, <3>2 DEF Known
    <3>. QED
      BY <3>3
  <2>5. CASE ForkReturn(s)
    <3>1. /\ UNCHANGED <<child, tidOf>>
          /\ got' = [got EXCEPT ![s] = tidOf[child[s]]]
          /\ child[s] \in Tasks
      BY <2>5 DEF ForkReturn, CanRun, TInv, ChildKnown, ForkPoints, Publishing,
                  Linking
    <3>2. Known(s)' = child[s]
      BY <1>t, <3>1 DEF Known
    <3>. QED
      BY <1>t, <2>5, <3>1, <3>2 DEF Known
  <2>6. CASE ForkFail(s)
    <3>1. /\ UNCHANGED tidOf /\ got' = [got EXCEPT ![s] = -1]
          /\ child' = [child EXCEPT ![s] = None]
      BY <2>6 DEF ForkFail
    <3>2. Known(s)' = None
      BY <1>t, <3>1 DEF Known
    <3>. QED
      BY <1>t, <2>6, <3>1, <3>2 DEF Known
  <2>7. CASE ForkMapFail(s)
    <3>1. UNCHANGED <<child, tidOf>> /\ got' = [got EXCEPT ![s] = 0]
      BY <2>7 DEF ForkMapFail
    <3>2. Known(s)' = None
      BY <1>k, <1>t, <3>1 DEF Known
    <3>. QED
      BY <1>t, <2>7, <3>1, <3>2 DEF Known
  <2>. QED
    BY <1>2, <2>1, <2>2, <2>3, <2>4, <2>5, <2>6, <2>7 DEF KernelStep, Fork,
                                                          ExitUnlink, ForkInsert
<1>. QED
  BY <1>1, <1>2 DEF Next

(* Lives change when task_alloc publishes a task and when task_exit stops
   one. *)
LEMMA LifeStep ==
    ASSUME TInv, StackInv, OwnerInv, LiveInv, [Next]_vars, esp # Nowhere,
           Without({"exit", "scheduler"})'
    PROVE  \/ \A t \in Tasks : Life(t)' = Life(t)
           \/ \E s \in Tasks :
                 /\ ForkPublish(s) /\ child[s] \in Tasks
                 /\ Life(child[s]) = "unborn" /\ Life(child[s])' = "alive"
                 /\ \A t \in Tasks \ {child[s]} : Life(t)' = Life(t)
           \/ \E s \in Tasks :
                 /\ ExitStop(s)
                 /\ Life(s) = "alive" /\ Life(s)' = "ended"
                 /\ \A t \in Tasks \ {s} : Life(t)' = Life(t)
<1>. DEFINE Goal ==
           \/ \A t \in Tasks : Life(t)' = Life(t)
           \/ \E s \in Tasks :
                 /\ ForkPublish(s) /\ child[s] \in Tasks
                 /\ Life(child[s]) = "unborn" /\ Life(child[s])' = "alive"
                 /\ \A t \in Tasks \ {child[s]} : Life(t)' = Life(t)
           \/ \E s \in Tasks :
                 /\ ExitStop(s)
                 /\ Life(s) = "alive" /\ Life(s)' = "ended"
                 /\ \A t \in Tasks \ {s} : Life(t)' = Life(t)
<1>. USE StackNames DEF Life, Ready
<1>m. Without({"exit", "scheduler"}) /\ Without({"exit"})
  BY MishapsStay DEF Without
<1>i. \A t \in Tasks : esp = t => IF pc[t] \in {"exit_stopped", "exit_clear"}
                                    THEN state[t] = "STOPPED" ELSE Ready(t)
  BY <1>m DEF LiveInv
<1>c. esp \in Tasks /\ pc[esp] \notin ExitWindow => fgtask = esp
  BY <1>m DEF StackInv
<1>t. /\ state \in [Tasks -> States] /\ fgtask \in Tasks
      /\ child \in [Tasks -> {None} \cup Tasks]
  BY DEF TInv, TypeOK
<1>s. ASSUME UNCHANGED state PROVE Goal
  BY <1>s
<1>1. CASE SchedulerDispatch
  <2>1. PICK t \in Tasks : t = next[fgtask]
    BY DEF TInv, TypeOK
  <2>. QED
    BY <1>1, <1>t, <2>1 DEF SchedulerDispatch
<1>2. CASE Interrupt \/ PageFault
  <2>1. pc[esp] \notin ExitWindow /\ esp \in Tasks
    <3>1. CASE Interrupt
      BY <3>1 DEF Interrupt, Mishap, Without, ExitWindow, Publishing, Linking
    <3>2. CASE PageFault
      BY <3>2 DEF PageFault, ExitWindow
    <3>. QED
      BY <1>2, <3>1, <3>2
  <2>2. Ready(fgtask)
    BY <1>c, <1>i, <2>1 DEF ExitWindow
  <2>3. state' = [state EXCEPT ![fgtask] = "RUNNABLE"]
    BY <1>2 DEF Interrupt, PageFault, Preempt
  <2>. QED
    BY <1>t, <2>2, <2>3
<1>3. CASE InterruptScheduler
  BY <1>3 DEF InterruptScheduler, Without
<1>4. ASSUME \/ UNCHANGED vars \/ Runaway \/ SchedulerSkip
             \/ \E s \in Tasks : UserStep(s)
      PROVE  Goal
  BY <1>4, <1>s
  DEF vars, Runaway, SchedulerSkip, UserStep, OtherCall, YieldCall,
      ExitCall, ForkCall, WaitCall, Enter
<1>5. ASSUME NEW s \in Tasks, KernelStep(s) PROVE Goal
  <2>. USE DEF CanRun, Continue
  <2>1. CASE YieldMark(s)
    <3>1. Ready(fgtask)
      BY <1>c, <1>i, <2>1 DEF YieldMark, ExitWindow
    <3>. QED
      BY <1>t, <2>1, <3>1 DEF YieldMark
  <2>2. CASE ExitStop(s)
    <3>1. Ready(s)
      BY <1>i, <2>2 DEF ExitStop
    <3>. QED
      BY <1>t, <2>2, <3>1 DEF ExitStop
  <2>3. CASE ForkReadTid(s)
    BY <1>t, <2>3 DEF ForkReadTid
  <2>4. CASE ForkPublish(s)
    <3>1. child[s] \in Tasks /\ state[child[s]] = "new"
      BY <2>4 DEF ForkPublish, TInv, ChildKnown, ForkPoints, Publishing, Linking,
                  OwnerInv, BirthInv, MidFork
    <3>2. state' = [state EXCEPT ![child[s]] = "RUNNABLE"]
      BY <2>4 DEF ForkPublish
    <3>3. /\ Life(child[s]) = "unborn" /\ Life(child[s])' = "alive"
          /\ \A t \in Tasks \ {child[s]} : Life(t)' = Life(t)
      <4>1. \A t \in Tasks : state'[t] = IF t = child[s] THEN "RUNNABLE" ELSE state[t]
        BY <1>t, <3>2
      <4>2. child'[s] = child[s]
        BY <2>4 DEF ForkPublish, forkVars
      <4>. QED
        BY <3>1, <4>1, <4>2
    <3>. QED
      BY <2>4, <3>1, <3>3
  <2>5. CASE \/ YieldSwitch(s) \/ ExitForeground(s) \/ ExitSwitch(s)
             \/ WaitReturn(s) \/ ForkNewDirectory(s) \/ ForkStack(s)
             \/ ForkStore(s) \/ ForkContext(s) \/ ForkReturn(s) \/ ForkFail(s)
             \/ ForkMapFail(s) \/ ForkInsert(s) \/ ExitNext(s) \/ ExitPrev(s)
             \/ ExitClear(s)
    BY <1>s, <2>5
    DEF YieldSwitch, ExitForeground, ExitNext, ExitPrev, ExitClear, ExitSwitch,
        WaitReturn, ForkNewDirectory, ForkStack, ForkStore, ForkInsert, ForkPrev,
        ForkForward, ForkBackward, ForkHead, ForkContext, ForkReturn, ForkFail,
        ForkMapFail, SwitchToScheduler
  <2>. QED
    BY <1>5, <2>1, <2>2, <2>3, <2>4, <2>5 DEF KernelStep, Fork, ExitUnlink, ForkInsert
<1>. QED
  BY <1>1, <1>2, <1>3, <1>4, <1>5 DEF Next, Scheduler

(* Life and the state of a task. *)
LEMMA LifeOf ==
    ASSUME TInv, NEW t \in Tasks
    PROVE  /\ Life(t) = "alive" <=> Ready(t)
           /\ Life(t) = "unborn" <=> Unborn(t)
           /\ Life(t) = "ended" <=> state[t] = "STOPPED"
           /\ Life(t) \in {"alive", "unborn", "ended"}
<1>1. state[t] \in States
  BY DEF TInv, TypeOK
<1>. QED
  BY <1>1 DEF Life, Ready, Unborn, States

(* task_exit clears the flag of its own tid only, and fork sets that of the
   child it returns. *)
LEMMA FlagStep ==
    ASSUME TInv, TInv', StackInv, OwnerInv, KnowInv, KinInv, TidInv, LiveInv,
           FlagInv, [Next]_vars, esp # Nowhere
    PROVE  FlagInv'
<1>. SUFFICES ASSUME Without({"wrap", "tid", "exit", "scheduler"})',
                     NEW p \in Tasks, NEW c \in Tasks, Known(p)' = c
              PROVE  ~Unborn(c)' /\ (Ready(c)' => is_running'[tidOf'[c]])
  <2>1. \A p \in Tasks : Known(p)' # None => Known(p)' \in Tasks
    BY DEF TInv, TypeOK, Known
  <2>. QED
    BY <2>1 DEF FlagInv
<1>m. /\ Without({"wrap", "tid", "exit", "scheduler"})
      /\ Without({"wrap", "tid"})' /\ Without({"wrap", "tid"})
      /\ Without({"exit", "scheduler"})' /\ Without({"exit", "scheduler"})
  BY MishapsStay DEF Without
<1>i. \A q \in Tasks : Known(q) # None =>
          ~Unborn(Known(q)) /\ (Ready(Known(q)) => is_running[tidOf[Known(q)]])
  BY <1>m DEF FlagInv
<1>t. /\ tidOf \in [Tasks -> Tids] /\ is_running \in [Tids -> BOOLEAN]
      /\ child \in [Tasks -> {None} \cup Tasks] /\ c # None
      /\ state \in [Tasks -> States]
  BY StackNames DEF TInv, TypeOK
<1>l. /\ ~Unborn(c) => ~Unborn(c)'
      /\ ~Unborn(c) /\ Ready(c)' => Ready(c)
  <2>1. Life(c)' = Life(c) \/ Life(c) = "unborn" \/ Life(c)' = "ended"
    BY <1>m, LifeStep
  <2>2. /\ Life(c)' = "alive" <=> Ready(c)'
        /\ Life(c)' = "unborn" <=> Unborn(c)'
        /\ Life(c)' = "ended" <=> state'[c] = "STOPPED"
    BY LifeOf, <1>t DEF TInv, TypeOK, Life, Ready, Unborn, States
  <2>. QED
    BY <2>1, <2>2, LifeOf
<1>1. CASE Known(p) = c
  <2>1. ~Unborn(c) /\ (Ready(c) => is_running[tidOf[c]])
    BY <1>1, <1>i, <1>t
  <2>2. CASE \E s \in Tasks : ExitClear(s)
    <3>1. PICK s \in Tasks : ExitClear(s)
      BY <2>2
    <3>2. /\ is_running' = [is_running EXCEPT ![tidOf[s]] = FALSE]
          /\ tidOf' = tidOf /\ state' = state
      BY <3>1 DEF ExitClear
    <3>3. state[s] = "STOPPED" /\ state[c] # "free"
      BY <1>m, <2>1, <3>1 DEF ExitClear, CanRun, LiveInv, Unborn
    <3>4. tidOf[s] = tidOf[c] => s = c
      BY <1>m, <3>3 DEF TidInv
    <3>. QED
      BY <1>t, <2>1, <3>2, <3>3, <3>4 DEF Ready, Unborn
  <2>3. CASE \A s \in Tasks : ~ExitClear(s)
    <3>1. is_running[tidOf[c]] => is_running'[tidOf[c]]
      BY <1>t, <2>3
      DEF Next, vars, Runaway, Scheduler, SchedulerSkip, SchedulerDispatch, Interrupt,
          PageFault, Preempt, InterruptScheduler, UserStep, OtherCall, YieldCall,
          ExitCall, ForkCall, WaitCall, Enter, forkVars, KernelStep, YieldMark,
          YieldSwitch, ExitForeground, ExitSwitch, WaitReturn, Fork, ForkReadTid,
          ForkNewDirectory, ForkStack, ForkStore, ForkPublish, ForkInsert, ForkPrev,
          ForkForward, ForkBackward, ForkHead, ForkContext, ForkReturn, ForkFail,
          ForkMapFail, Continue, SwitchToScheduler, ExitNext, ExitPrev, ExitStop
    <3>2. tidOf'[c] = tidOf[c]
      <4>1. CASE \E s \in Tasks : ForkReadTid(s)
        BY <1>t, <2>1, <4>1 DEF ForkReadTid, Unborn
      <4>2. CASE \A s \in Tasks : ~ForkReadTid(s)
        BY <4>2
        DEF Next, vars, Runaway, Scheduler, SchedulerSkip, SchedulerDispatch,
            Interrupt, PageFault, Preempt, InterruptScheduler, UserStep, OtherCall,
            YieldCall, ExitCall, ForkCall, WaitCall, Enter, forkVars, KernelStep,
            YieldMark, YieldSwitch, ExitForeground, ExitUnlink, ExitNext, ExitPrev,
            ExitStop, ExitClear, ExitSwitch, WaitReturn, Fork, ForkNewDirectory,
            ForkStack, ForkStore, ForkPublish, ForkInsert, ForkPrev, ForkForward,
            ForkBackward, ForkHead, ForkContext, ForkReturn, ForkFail, ForkMapFail,
            Continue, SwitchToScheduler
      <4>. QED
        BY <4>1, <4>2
    <3>. QED
      BY <1>l, <2>1, <3>1, <3>2
  <2>. QED
    BY <2>2, <2>3
<1>2. CASE Known(p) # c
  <2>1. ForkReturn(p) /\ child[p] = c
    BY <1>2, <1>m, <1>t, KnownStep
  <2>2. /\ is_running' = [is_running EXCEPT ![tidOf[c]] = TRUE]
        /\ tidOf' = tidOf
    BY <2>1 DEF ForkReturn
  <2>3. ~Unborn(c)
    BY <2>1 DEF ForkReturn, CanRun, KinInv
  <2>. QED
    BY <1>l, <1>t, <2>2, <2>3
<1>. QED
  BY <1>1, <1>2
-----------------------------------------------------------------------------
(* A wait begins when the call enters the kernel, and ends when it returns. *)
Waiting == {t \in Tasks : pc[t] = "wait"}

LEMMA WaitStep ==
    ASSUME TInv, StackInv, OwnerInv, LiveInv, [Next]_vars, esp # Nowhere,
           Without({"exit", "scheduler"})'
    PROVE  \/ Waiting' = Waiting
           \/ \E s \in Tasks : /\ UserStep(s) /\ Ready(s)
                               /\ Waiting' = Waiting \cup {s}
           \/ \E s \in Tasks : /\ WaitReturn(s) /\ s \in Waiting
                               /\ Waiting' = Waiting \ {s}
<1>. DEFINE Goal ==
           \/ Waiting' = Waiting
           \/ \E s \in Tasks : /\ UserStep(s) /\ Ready(s)
                               /\ Waiting' = Waiting \cup {s}
           \/ \E s \in Tasks : /\ WaitReturn(s) /\ s \in Waiting
                               /\ Waiting' = Waiting \ {s}
<1>m. Without({"exit", "scheduler"}) /\ Without({"exit"})
  BY MishapsStay DEF Without
<1>t. pc \in [Tasks -> Points]
  BY DEF TInv, TypeOK
<1>s. ASSUME \A t \in Tasks : pc'[t] = "wait" <=> pc[t] = "wait" PROVE Goal
  BY <1>s DEF Waiting
<1>1. ASSUME \/ UNCHANGED vars \/ Runaway \/ Scheduler
             \/ Interrupt \/ PageFault \/ InterruptScheduler
      PROVE  Goal
  <2>1. \A t \in Tasks : pc'[t] = "wait" <=> pc[t] = "wait"
    <3>1. CASE SchedulerDispatch
      BY <1>t, <3>1 DEF SchedulerDispatch
    <3>. QED
      BY <1>1, <3>1 DEF vars, Runaway, Scheduler, SchedulerSkip, Interrupt,
                        PageFault, Preempt, InterruptScheduler
  <2>. QED
    BY <1>s, <2>1
<1>2. ASSUME NEW s \in Tasks, UserStep(s) PROVE Goal
  <2>1. PICK point \in {"user", "yield", "exit", "fork", "wait"} :
            Enter(s, point)
    BY <1>2 DEF UserStep, OtherCall, YieldCall, ExitCall, ForkCall, WaitCall
  <2>2. pc' = [pc EXCEPT ![s] = point] /\ pc[s] = "user"
    BY <1>m, <2>1 DEF Enter, CanRun, StackInv, ExitWindow
  <2>3. Ready(s)
    BY <1>m, <2>1 DEF Enter, CanRun, LiveInv
  <2>4. CASE point = "wait"
    BY <1>2, <1>t, <2>2, <2>3, <2>4 DEF Waiting
  <2>5. CASE point # "wait"
    BY <1>s, <1>t, <2>2, <2>5
  <2>. QED
    BY <2>4, <2>5
<1>3. ASSUME NEW s \in Tasks, KernelStep(s) PROVE Goal
  <2>. USE DEF CanRun, Continue
  <2>1. CASE WaitReturn(s)
    <3>1. /\ pc[s] = "wait"
          /\ \E point \in {"user", "spin"} : pc' = [pc EXCEPT ![s] = point]
      BY <2>1 DEF WaitReturn
    <3>. QED
      BY <1>t, <2>1, <3>1 DEF Waiting
  <2>2. CASE ForkContext(s)
    <3>1. child[s] \in Tasks /\ pc[child[s]] \in {"raw", "lost"} /\ child[s] # s
      BY <2>2 DEF ForkContext, TInv, ChildKnown, ForkPoints, Publishing, Linking,
                  OwnerInv, BirthInv, MidFork
    <3>2. PICK point \in {"user", "lost"} :
              pc' = [pc EXCEPT ![s] = "fork_end", ![child[s]] = point]
      BY <2>2 DEF ForkContext
    <3>. QED
      BY <1>s, <1>t, <2>2, <3>1, <3>2 DEF ForkContext
  <2>3. CASE \/ YieldMark(s) \/ YieldSwitch(s) \/ ExitForeground(s)
             \/ ExitUnlink(s) \/ ExitSwitch(s)
             \/ ForkReadTid(s) \/ ForkNewDirectory(s) \/ ForkStack(s)
             \/ ForkStore(s) \/ ForkPublish(s) \/ ForkReturn(s) \/ ForkFail(s)
             \/ ForkMapFail(s) \/ ForkInsert(s)
    <3>1. /\ pc[s] # "wait"
          /\ \E point \in Points \ {"wait"} : pc' = [pc EXCEPT ![s] = point]
      BY <2>3
      DEF YieldMark, YieldSwitch, ExitForeground, ExitUnlink, ExitNext, ExitPrev,
          ExitStop, ExitClear, ExitSwitch, ForkReadTid, ForkNewDirectory, ForkStack,
          ForkStore, ForkPublish, ForkInsert, ForkPrev, ForkForward, ForkBackward,
          ForkHead, ForkReturn, ForkFail, ForkMapFail, Points, ForkPoints, Publishing,
          Linking, ExitWindow
    <3>. QED
      BY <1>s, <1>t, <3>1
  <2>. QED
    BY <1>3, <2>1, <2>2, <2>3 DEF KernelStep, Fork, ExitUnlink, ForkInsert
<1>. QED
  BY <1>1, <1>2, <1>3 DEF Next

(* Where the code is before and after the steps that these lemmas name: no two
   of them are the same step. *)
LEMMA StepPoints ==
    ASSUME TInv, NEW s \in Tasks
    PROVE  /\ ForkPublish(s) => esp = s /\ pc[s] = "fork_ctx" /\ pc'[s] = "fork_next"
           /\ ExitStop(s) => esp = s /\ pc[s] = "exit_prev"
           /\ WaitReturn(s) => esp = s /\ pc[s] = "wait" /\ pc'[s] # "wait"
           /\ UserStep(s) => esp = s /\ pc[s] = "user"
           /\ ForkReturn(s) => esp = s /\ pc[s] = "fork_end"
           /\ ForkReadTid(s) => esp = s /\ pc[s] = "fork"
           /\ ForkMapFail(s) => esp = s /\ pc[s] = "fork_mid"
           /\ ForkFail(s) => /\ esp = s /\ pc'[s] = "user"
                             /\ pc[s] \in {"fork", "fork_tid", "fork_cr3", "fork_ctx"}
<1>1. pc \in [Tasks -> Points]
  BY DEF TInv, TypeOK
<1>. QED
  BY <1>1
  DEF ForkPublish, ExitStop, WaitReturn,
      UserStep, OtherCall, YieldCall, ExitCall, ForkCall, WaitCall, Enter, ForkReturn,
      ForkReadTid, ForkMapFail, ForkFail, CanRun, Continue

(* Every step of the kernel is a step of Processes, or changes nothing there:
   task_alloc's publication is a birth, the end of fork is when the parent
   learns of its child, and task_exit's store of STOPPED is the exit. *)
LEMMA ProcessesStep ==
    ASSUME TInv, StackInv, OwnerInv, KnowInv, KinInv, TidInv, LiveInv, FlagInv,
           [Next]_vars, esp # Nowhere,
           Without({"wrap", "tid", "exit", "scheduler"})'
    PROVE  P!Next \/ UNCHANGED P!vars
<1>. DEFINE Goal == P!Next \/ UNCHANGED P!vars
<1>m. /\ Without({"wrap", "tid", "exit", "scheduler"})
      /\ Without({"wrap", "tid"})'
      /\ Without({"exit", "scheduler"})'
  BY MishapsStay DEF Without
<1>k. \A t \in Tasks : Known(t) # None =>
          /\ Known(t) = child[t] /\ child[t] \in Tasks /\ got[t] = tidOf[child[t]]
          /\ ~Unborn(child[t])
          /\ Ready(child[t]) => is_running[tidOf[child[t]]]
  BY <1>m DEF FlagInv, Known, TInv, TypeOK
<1>r. ASSUME NEW s \in Tasks, WaitReturn(s), s \in Waiting, Waiting' = Waiting \ {s},
             \A t \in Tasks : Life(t)' = Life(t),
             Known(s)' \in {Known(s), None},
             \A t \in Tasks \ {s} : Known(t)' = Known(t)
      PROVE  Goal
  <2>1. ASSUME Known(s) # None PROVE Life(Known(s)) = "ended"
    <3>1. /\ Known(s) = child[s] /\ child[s] \in Tasks /\ got[s] = tidOf[child[s]]
          /\ ~Unborn(child[s])
          /\ Ready(child[s]) => is_running[got[s]]
      BY <1>k, <2>1
    <3>2. got[s] # -1
      <4>1. got[s] \in Tids
        BY <3>1 DEF TInv, TypeOK
      <4>. QED
        BY <4>1, TaskAssumption DEF Tids
    <3>3. ~is_running[got[s]]
      BY <1>r, <3>2 DEF WaitReturn
    <3>. QED
      BY <3>1, <3>3, LifeOf
  <2>. DEFINE known == [t \in Tasks |-> Known(t)]
  <2>2. \E k \in {known[s], None} : known' = [known EXCEPT ![s] = k]
    <3>1. known' = [known EXCEPT ![s] = Known(s)']
      BY <1>r
    <3>2. Known(s)' \in {known[s], None}
      BY <1>r
    <3>. HIDE DEF known
    <3>. QED
      BY <3>1, <3>2
  <2>3. [t \in Tasks |-> Life(t)]' = [t \in Tasks |-> Life(t)]
    BY <1>r
  <2>4. s \in Waiting /\ Waiting' = Waiting \ {s}
    BY <1>r
  <2>5. known[s] # None => [t \in Tasks |-> Life(t)][known[s]] = "ended"
    <3>1. Known(s) # None => Known(s) \in Tasks
      BY <1>k
    <3>. QED
      BY <2>1, <3>1
  <2>6. P!Return(s)
    BY <2>2, <2>3, <2>4, <2>5 DEF P!Return, Waiting
  <2>. QED
    BY <2>6 DEF P!Next
<1>1. CASE \A t \in Tasks : Life(t)' = Life(t)
  <2>1. CASE \A t \in Tasks : Known(t)' = Known(t)
    <3>1. CASE Waiting' = Waiting
      BY <1>1, <2>1, <3>1 DEF P!vars, Waiting
    <3>2. ASSUME NEW s \in Tasks, UserStep(s), Ready(s),
                 Waiting' = Waiting \cup {s}
          PROVE  Goal
      <4>1. Life(s) = "alive"
        BY <3>2, LifeOf
      <4>2. P!Wait(s)
        BY <1>1, <2>1, <3>2, <4>1 DEF P!Wait, Waiting
      <4>. QED
        BY <4>2 DEF P!Next
    <3>3. ASSUME NEW s \in Tasks, WaitReturn(s), s \in Waiting,
                 Waiting' = Waiting \ {s}
          PROVE  Goal
      BY <1>1, <1>r, <2>1, <3>3
    <3>. QED
      BY <1>m, <3>1, <3>2, <3>3, WaitStep
  <2>2. ASSUME NEW s \in Tasks,
               ForkReadTid(s) \/ ForkFail(s) \/ ForkMapFail(s),
               Known(s)' = None, \A t \in Tasks \ {s} : Known(t)' = Known(t)
        PROVE  Goal
    <3>1. Waiting' = Waiting
      BY <1>m, <2>2, WaitStep, StepPoints
    <3>2. P!Forget(s)
      BY <1>1, <2>2, <3>1 DEF P!Forget, Waiting
    <3>. QED
      BY <3>2 DEF P!Next
  <2>3. ASSUME NEW s \in Tasks, WaitReturn(s),
               Known(s)' = None, \A t \in Tasks \ {s} : Known(t)' = Known(t)
        PROVE  Goal
    <3>1. s \in Waiting /\ s \notin Waiting'
      BY <2>3, StepPoints DEF Waiting
    <3>2. Waiting' = Waiting \ {s}
      BY <1>m, <2>3, <3>1, WaitStep, StepPoints
    <3>. QED
      BY <1>1, <1>r, <2>3, <3>1, <3>2
  <2>4. ASSUME NEW s \in Tasks, ForkReturn(s), Known(s)' = child[s],
               \A t \in Tasks \ {s} : Known(t)' = Known(t)
        PROVE  Goal
    <3>1. Waiting' = Waiting
      BY <1>m, <2>4, WaitStep, StepPoints
    <3>2. child[s] \in Tasks /\ child[s] # None /\ ~Unborn(child[s])
      BY <2>4, StepPoints, StackNames DEF TInv, ChildKnown, ForkPoints, Publishing,
                                          Linking, KinInv
    <3>3. \A q \in Tasks : Known(q) = child[s] => q = s
      BY <3>2 DEF Known, KinInv
    <3>4. CASE Known(s) = child[s]
      BY <1>1, <2>4, <3>1, <3>4 DEF P!vars, Waiting
    <3>5. CASE Known(s) # child[s]
      <4>. DEFINE c == child[s]
      <4>1. /\ c \in Tasks /\ Life(c) # "unborn"
            /\ \A q \in Tasks : Known(q) # c
            /\ Known(s)' = c
        BY <2>4, <3>2, <3>3, <3>5, LifeOf
      <4>. HIDE DEF c
      <4>2. P!Learn(s, c)
        BY <1>1, <2>4, <3>1, <4>1 DEF P!Learn, Waiting
      <4>. QED
        BY <4>1, <4>2 DEF P!Next
    <3>. QED
      BY <3>4, <3>5
  <2>. QED
    BY <1>m, <2>1, <2>2, <2>3, <2>4, KnownStep
<1>2. ASSUME NEW s \in Tasks, ForkPublish(s), child[s] \in Tasks,
             Life(child[s]) = "unborn", Life(child[s])' = "alive",
             \A t \in Tasks \ {child[s]} : Life(t)' = Life(t)
      PROVE  Goal
  <2>1. \A t \in Tasks : Known(t)' = Known(t)
    BY <1>m, <1>2, KnownStep, StepPoints
  <2>2. Waiting' = Waiting
    BY <1>m, <1>2, WaitStep, StepPoints
  <2>3. child'[s] = child[s]
    BY <1>2 DEF ForkPublish, forkVars
  <2>4. PICK c \in Tasks : /\ Life(c) = "unborn" /\ Life(c)' = "alive"
                           /\ \A t \in Tasks \ {c} : Life(t)' = Life(t)
    BY <1>2, <2>3
  <2>5. P!Birth(c)
    BY <2>1, <2>2, <2>4 DEF P!Birth, Waiting
  <2>. QED
    BY <2>5 DEF P!Next
<1>3. ASSUME NEW s \in Tasks, ExitStop(s),
             Life(s) = "alive", Life(s)' = "ended",
             \A t \in Tasks \ {s} : Life(t)' = Life(t)
      PROVE  Goal
  <2>1. \A t \in Tasks : Known(t)' = Known(t)
    BY <1>m, <1>3, KnownStep, StepPoints
  <2>2. Waiting' = Waiting /\ s \notin Waiting
    BY <1>m, <1>3, WaitStep, StepPoints DEF Waiting
  <2>3. P!Exit(s)
    BY <1>3, <2>1, <2>2 DEF P!Exit, Waiting
  <2>. QED
    BY <2>3 DEF P!Next
<1>. QED
  BY <1>m, <1>1, <1>2, <1>3, LifeStep
(* The tasks look as fork, exit and wait promise, step by step, unless tids are
   not unique or an interrupt in task_exit or in the scheduler has put a task
   that had stopped back into the scheduler's hands. *)
THEOREM ImplementsProcesses == Spec => ProcessesSpec
<1>. DEFINE KinFacts == KinInv /\ TidInv /\ LiveInv /\ FlagInv
<1>1. ASSUME Init PROVE KinFacts /\ P!Init
  <2>1. 1 \in Tasks /\ esp \notin Tasks
    BY <1>1, TaskAssumption DEF Init, Tasks, Kernel
  <2>2. KinInv /\ TidInv
    BY <1>1, TaskAssumption DEF Init, KinInv, TidInv, NoResult
  <2>3. \A t \in Tasks : Known(t) = None
    BY <1>1 DEF Init, Known
  <2>4. LiveInv /\ FlagInv
    BY <2>1, <2>3 DEF LiveInv, FlagInv
  <2>5. P!Init
    BY <1>1, <2>1, <2>3 DEF Init, P!Init, Life, Ready
  <2>. QED
    BY <2>2, <2>4, <2>5
<1>2. IInv /\ IInv' /\ OwnerInv /\ ForkInv /\ KinFacts /\ [Next]_vars => KinFacts'
  <2>1. CASE esp = Nowhere
    BY <2>1, NowhereStays
    DEF IInv, vars, ring, forkVars, KinInv, Unborn, TidInv, LiveInv, FlagInv,
        Known, Ready, Without
  <2>2. CASE esp # Nowhere
    BY <2>2, KinStep, TidStep, LiveStep, FlagStep DEF IInv, ForkInv
  <2>. QED
    BY <2>1, <2>2
<1>3. IInv /\ OwnerInv /\ ForkInv /\ KinFacts /\ [Next]_vars
        => [mishap' \cap {"wrap", "tid", "exit", "scheduler"} = {}
              => P!Next \/ UNCHANGED P!vars]_vars
  <2>1. CASE esp = Nowhere
    BY <2>1, NowhereStays DEF IInv
  <2>2. CASE esp # Nowhere
    BY <2>2, ProcessesStep DEF IInv, ForkInv, Without
  <2>. QED
    BY <2>1, <2>2
<1>. QED
  BY <1>1, <1>2, <1>3, InvariantHolds, ForkFacts, PTL DEF Spec, ProcessesSpec
=============================================================================
