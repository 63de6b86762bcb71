-------------------------------- MODULE Task --------------------------------
(***************************************************************************)
(* Tasks of the kernel: src/task.c, the context switch of src/swtch.S, the *)
(* system call entry and exit of src/x86.S and the interrupt path of       *)
(* src/irq.py and src/irq_tmpl.c, on the one CPU there is.                  *)
(*                                                                         *)
(* The CPU is always on one stack: the scheduler's, or that of a task.     *)
(* Code that runs on the stack of task t is at pc[t].  System calls run    *)
(* with interrupts enabled, so an interrupt may come between any two steps *)
(* of one.                                                                  *)
(***************************************************************************)
EXTENDS Integers

CONSTANTS MaxTasks,     \* bound: task structures memory has room for
          TidSpan,      \* values of the uint8_t tid: 256 in the source
          Forkers,      \* tasks whose programs fork and wait
          Shells,       \* those of them that wait for every child they fork
          Exiters       \* tasks whose programs exit

Tasks == 1 .. MaxTasks
Kernel == 0             \* the scheduler's stack
Nowhere == MaxTasks + 1 \* the CPU has returned through a clobbered frame
None == 0
Tids == 0 .. TidSpan - 1
NoResult == -2          \* the task has not returned from a fork

ASSUME TaskAssumption == /\ MaxTasks \in Nat \ {0}
                         /\ TidSpan \in Nat \ {0, 1}
                         /\ Forkers \subseteq Tasks
                         /\ Shells \subseteq Forkers
                         /\ Exiters \subseteq Tasks

VARIABLES
    esp,        \* the stack the CPU is on
    eflagsIF,   \* the CPU takes interrupts
    cr3,        \* whose page directory is loaded; None: one with no user page
    fgtask, htask, tid,                 \* the globals of task.c
    state, next, prev, tidOf,           \* fields of the task structures
    ctx,        \* the stack that task->ctx points into
    is_running,
    pc,         \* where the code on each task's stack is
    frame,      \* the interrupt frame on each task's stack, with the saved IF
    child,      \* ntask in the latest task_fork of each task
    got,        \* what the latest fork returned
    exhausted,  \* pm_alloc_frame has refused: no frame is ever freed
    mishap      \* ghost: the unsafe things that have happened so far

ring == <<htask, next, prev>>
forkVars == <<tid, tidOf, child, got, is_running, exhausted>>
vars == <<esp, eflagsIF, cr3, fgtask, state, ctx, pc, frame, mishap,
          ring, forkVars>>

States == {"free", "new", "RUNNABLE", "RUNNING", "STOPPED"}

ExitWindow == {"exit_fg", "exit_next", "exit_prev", "exit_stopped", "exit_clear"}
Linking == {"fork_next", "fork_prev", "fork_fwd", "fork_back"}
Publishing == Linking \cup {"fork_mid"}
ForkPoints == {"fork", "fork_tid", "fork_cr3", "fork_store", "fork_ctx",
               "fork_end"} \cup Publishing
Points == {"raw", "lost", "user", "yield", "yield_marked", "exit", "wait",
           "spin"} \cup ExitWindow \cup ForkPoints

Mishaps == {"scheduler", "exit", "yield", "tid", "stack", "half", "wakeup",
            "wrap", "unmapped"}

(* What it means for an interrupt to come at each of the unsafe points. *)
Mishap(point) ==
    CASE point = "yield_marked" -> {"yield"}
      [] point \in ExitWindow -> {"exit"}
      [] point = "fork_tid" -> {"tid"}
      [] point \in {"fork_cr3", "fork_store"} -> {"stack"}
      [] point \in Publishing -> {"half"}
      [] point = "fork_end" -> {"wakeup"}
      [] OTHER -> {}

-----------------------------------------------------------------------------
(* task_init has built task 1 from the shell's image, with interrupts off,
   and enters the scheduler. *)
Init ==
    /\ esp = Kernel
    /\ eflagsIF = FALSE
    /\ cr3 = 1
    /\ fgtask = 1
    /\ htask = 1
    /\ tid = 1
    /\ state = [t \in Tasks |-> IF t = 1 THEN "RUNNABLE" ELSE "free"]
    /\ next = [t \in Tasks |-> t]
    /\ prev = [t \in Tasks |-> t]
    /\ tidOf = [t \in Tasks |-> 0]
    /\ ctx = [t \in Tasks |-> t]
    /\ is_running = [x \in Tids |-> FALSE]
    /\ pc = [t \in Tasks |-> IF t = 1 THEN "user" ELSE "raw"]
    /\ frame = [t \in Tasks |-> "none"]
    /\ child = [t \in Tasks |-> None]
    /\ got = [t \in Tasks |-> NoResult]
    /\ exhausted = FALSE
    /\ mishap = {}

-----------------------------------------------------------------------------
(* The scheduler's loop, one iteration a step.                             *)

(* Mutant of SchedulerSkip: a task that is not RUNNABLE is looked at again. *)
SchedulerSkip_stays ==
    /\ esp = Kernel
    /\ state[next[fgtask]] # "RUNNABLE"
    /\ UNCHANGED vars

SchedulerSkip ==
    /\ esp = Kernel
    /\ state[next[fgtask]] # "RUNNABLE"
    /\ fgtask' = next[fgtask]
    /\ UNCHANGED <<esp, eflagsIF, cr3, state, ctx, pc, frame, mishap,
                   ring, forkVars>>

(* swtch resumes the stack the task's ctx points into: through iretd, which
   restores IF, if the task was interrupted, with IF as it is otherwise.  A
   task published by task_alloc but not yet given a return address by
   task_fork jumps to garbage. *)
SchedulerDispatch ==
    /\ esp = Kernel
    /\ LET t == next[fgtask]
           s == ctx[t]
       IN  /\ state[t] = "RUNNABLE"
           /\ fgtask' = t
           /\ state' = [state EXCEPT ![t] = "RUNNING"]
           /\ cr3' = t
           /\ esp' = s
           /\ eflagsIF' = IF frame[s] = "none" THEN eflagsIF
                                               ELSE frame[s] = "on"
           /\ frame' = [frame EXCEPT ![s] = "none"]
           /\ pc' = [pc EXCEPT ![s] = IF @ = "raw" THEN "lost" ELSE @]
    /\ UNCHANGED <<ctx, mishap, ring, forkVars>>

-----------------------------------------------------------------------------
(* Interrupts and faults.                                                  *)

(* The stub saves a frame and clears IF; whatever the source of the
   interrupt, handle_irq ends in task_yield, which makes the foreground task
   RUNNABLE, stores the current stack in its ctx and enters the scheduler. *)
Preempt(s) ==
    /\ state' = [state EXCEPT ![fgtask] = "RUNNABLE"]
    /\ ctx' = [ctx EXCEPT ![fgtask] = s]
    /\ frame' = [frame EXCEPT ![s] = IF eflagsIF THEN "on" ELSE "off"]
    /\ eflagsIF' = FALSE
    /\ esp' = Kernel
    /\ UNCHANGED <<cr3, fgtask, pc, ring, forkVars>>

Interrupt ==
    /\ esp \in Tasks
    /\ eflagsIF
    /\ Preempt(esp)
    /\ mishap' = mishap \cup Mishap(pc[esp])

(* A fault re-executes the same instruction when the task is resumed.  Code
   at a garbage address faults, user code faults under a directory without
   user pages, and so does the store to the new stack at task.c:118 if an
   interrupt has put the parent's directory back. *)
PageFault ==
    /\ esp \in Tasks
    /\ \/ pc[esp] = "lost"
       \/ pc[esp] = "user" /\ cr3 = None
       \/ pc[esp] = "fork_store" /\ cr3 # child[esp]
    /\ Preempt(esp)
    /\ UNCHANGED mishap

(* After a voluntary switch the scheduler runs with IF set.  An interrupt
   there stores the scheduler's own stack in the foreground task's ctx, and
   task_yield then returns through a kctx whose frame was popped long ago. *)
InterruptScheduler ==
    /\ esp = Kernel
    /\ eflagsIF
    /\ state' = [state EXCEPT ![fgtask] = "RUNNABLE"]
    /\ ctx' = [ctx EXCEPT ![fgtask] = Kernel]
    /\ eflagsIF' = FALSE
    /\ esp' = Nowhere
    /\ mishap' = mishap \cup {"scheduler"}
    /\ UNCHANGED <<cr3, fgtask, pc, frame, ring, forkVars>>

(* Nothing can be said of the machine any more. *)
Runaway == esp = Nowhere /\ UNCHANGED vars

-----------------------------------------------------------------------------
(* System calls: sysenter_eip sets IF and loads the stack of fgtask.       *)

CanRun(s, point) == esp = s /\ pc[s] = point

(* Mutant of Enter: the stack of htask is loaded. *)
Enter_htask(s, point) ==
    /\ CanRun(s, "user")
    /\ cr3 # None
    /\ eflagsIF' = TRUE
    /\ esp' = htask
    /\ pc' = [pc EXCEPT ![htask] = point]
    /\ UNCHANGED <<cr3, fgtask, state, ctx, frame, mishap, ring, forkVars>>

Enter(s, point) ==
    /\ CanRun(s, "user")
    /\ cr3 # None
    /\ eflagsIF' = TRUE
    /\ esp' = fgtask
    /\ pc' = [pc EXCEPT ![fgtask] = point]
    /\ UNCHANGED <<cr3, fgtask, state, ctx, frame, mishap, ring, forkVars>>

(* print, prints, read and exec leave the scheduling state alone. *)
OtherCall(s) == Enter(s, "user")
YieldCall(s) == Enter(s, "yield")
ExitCall(s) == s \in Exiters /\ Enter(s, "exit")

(* What shell.c does with the result of fork: twait(tid) before the next one.
   Programs that are no shell may fork again first. *)
ForkCall(s) == /\ s \in Forkers
               /\ s \in Shells => got[s] \in {NoResult, 0}
               /\ Enter(s, "fork")
WaitCall(s) == s \in Forkers /\ got[s] # NoResult /\ Enter(s, "wait")

Continue(s, point) ==
    /\ pc' = [pc EXCEPT ![s] = point]
    /\ UNCHANGED <<esp, eflagsIF, fgtask, ctx, frame>>

(* swtch(uesp, &task->ctx, kctx), called on stack s. *)
SwitchToScheduler(task, s) ==
    /\ ctx' = [ctx EXCEPT ![task] = s]
    /\ esp' = Kernel
    /\ UNCHANGED <<eflagsIF, cr3, frame, ring>>

(* Mutant of YieldMark: the state is left RUNNING. *)
YieldMark_running(s) ==
    /\ CanRun(s, "yield")
    /\ Continue(s, "yield_marked")
    /\ UNCHANGED <<cr3, state, mishap, ring, forkVars>>

(* task_yield, called for SYS_YIELD. *)
YieldMark(s) ==
    /\ CanRun(s, "yield")
    /\ state' = [state EXCEPT ![fgtask] = "RUNNABLE"]
    /\ Continue(s, "yield_marked")
    /\ UNCHANGED <<cr3, mishap, ring, forkVars>>

YieldSwitch(s) ==
    /\ CanRun(s, "yield_marked")
    /\ SwitchToScheduler(fgtask, s)
    /\ pc' = [pc EXCEPT ![s] = "user"]
    /\ UNCHANGED <<fgtask, state, mishap, forkVars>>

(* task_exit: the foreground moves to the successor before the task leaves
   the CPU; htask is not updated.  Nothing but its state keeps the task from
   being resumed, and exit would then return to the program. *)
ExitForeground(s) ==
    /\ CanRun(s, "exit")
    /\ fgtask' = next[s]
    /\ pc' = [pc EXCEPT ![s] = "exit_fg"]
    /\ UNCHANGED <<esp, eflagsIF, cr3, state, ctx, frame, mishap, ring,
                   forkVars>>

(* task->prev->next = task->next. *)
ExitNext(s) ==
    /\ CanRun(s, "exit_fg")
    /\ next' = [next EXCEPT ![prev[s]] = next[s]]
    /\ Continue(s, "exit_next")
    /\ UNCHANGED <<cr3, state, mishap, htask, prev, forkVars>>

(* task->next->prev = task->prev. *)
ExitPrev(s) ==
    /\ CanRun(s, "exit_next")
    /\ prev' = [prev EXCEPT ![next[s]] = prev[s]]
    /\ Continue(s, "exit_prev")
    /\ UNCHANGED <<cr3, state, mishap, htask, next, forkVars>>

ExitStop(s) ==
    /\ CanRun(s, "exit_prev")
    /\ state' = [state EXCEPT ![s] = "STOPPED"]
    /\ Continue(s, "exit_stopped")
    /\ UNCHANGED <<cr3, mishap, ring, forkVars>>

(* Mutant of ExitClear: is_running is not cleared. *)
ExitClear_none(s) ==
    /\ CanRun(s, "exit_stopped")
    /\ Continue(s, "exit_clear")
    /\ UNCHANGED <<cr3, state, mishap, ring, forkVars>>

ExitClear(s) ==
    /\ CanRun(s, "exit_stopped")
    /\ is_running' = [is_running EXCEPT ![tidOf[s]] = FALSE]
    /\ Continue(s, "exit_clear")
    /\ UNCHANGED <<cr3, state, mishap, ring, tid, tidOf, child, got, exhausted>>

ExitSwitch(s) ==
    /\ CanRun(s, "exit_clear")
    /\ SwitchToScheduler(s, s)
    /\ pc' = [pc EXCEPT ![s] = "user"]
    /\ UNCHANGED <<fgtask, state, mishap, forkVars>>

(* task_wait spins on is_running[td].  After a fork that failed td is -1, and
   the byte before the array is whatever it is. *)
WaitReturn(s) ==
    /\ CanRun(s, "wait")
    /\ IF got[s] = -1 THEN \E point \in {"user", "spin"} : Continue(s, point)
                      ELSE ~is_running[got[s]] /\ Continue(s, "user")
    /\ got' = IF s \in Shells THEN [got EXCEPT ![s] = NoResult] ELSE got
    /\ UNCHANGED <<cr3, state, mishap, ring, tid, tidOf, child, is_running,
                   exhausted>>

-----------------------------------------------------------------------------
(* task_fork, with task_alloc inlined, up to the points where an interrupt
   makes a difference.  ntask is child[s].                                 *)

(* tid++ is a load and a store, with the structure allocated before it.  The
   first task has tid 0, so a child that gets 0 too is the first to share its
   tid with another task. *)
ForkReadTid(s) ==
    /\ CanRun(s, "fork")
    /\ ~exhausted
    /\ \E c \in Tasks :
          /\ state[c] = "free"
          /\ \A d \in Tasks : d < c => state[d] # "free"
          /\ state' = [state EXCEPT ![c] = "new"]
          /\ child' = [child EXCEPT ![s] = c]
          /\ tidOf' = [tidOf EXCEPT ![c] = tid]
    /\ Continue(s, "fork_tid")
    /\ mishap' = mishap \cup (IF tid = 0 THEN {"wrap"} ELSE {})
    /\ UNCHANGED <<cr3, tid, is_running, got, exhausted, ring>>

(* Mutant of CountTid: the counter is wider than the tid of a task. *)
CountTid_wide(s) == tid' = tidOf[child[s]] + 1

CountTid(s) == tid' = (tidOf[child[s]] + 1) % TidSpan

(* Mutant of ForkNewDirectory: the new directory is not loaded. *)
ForkNewDirectory_noLoad(s) ==
    /\ CanRun(s, "fork_tid")
    /\ ~exhausted
    /\ CountTid(s)
    /\ Continue(s, "fork_cr3")
    /\ UNCHANGED <<cr3, state, tidOf, is_running, child, got, exhausted, mishap,
                   ring>>

(* vm_new_pdir, and lcr3 of the new directory: no user page is in it yet. *)
ForkNewDirectory(s) ==
    /\ CanRun(s, "fork_tid")
    /\ ~exhausted
    /\ CountTid(s)
    /\ cr3' = child[s]
    /\ Continue(s, "fork_cr3")
    /\ UNCHANGED <<state, tidOf, is_running, child, got, exhausted, mishap,
                   ring>>

(* The new user stack is mapped in the new directory, and written through it,
   or through whatever directory is loaded by then. *)
ForkStack(s) ==
    /\ CanRun(s, "fork_cr3")
    /\ ~exhausted
    /\ Continue(s, "fork_store")
    /\ UNCHANGED <<cr3, state, mishap, ring, forkVars>>

ForkStore(s) ==
    /\ CanRun(s, "fork_store")
    /\ cr3 = child[s]
    /\ Continue(s, "fork_ctx")
    /\ UNCHANGED <<cr3, state, mishap, ring, forkVars>>

(* The task becomes RUNNABLE, and its own links are set: it goes into the ring
   before htask, a store at a time. *)
ForkPublish(s) ==
    /\ CanRun(s, "fork_ctx")
    /\ ~exhausted
    /\ state' = [state EXCEPT ![child[s]] = "RUNNABLE"]
    /\ next' = [next EXCEPT ![child[s]] = htask]
    /\ Continue(s, "fork_next")
    /\ UNCHANGED <<cr3, mishap, htask, prev, forkVars>>

ForkPrev(s) ==
    /\ CanRun(s, "fork_next")
    /\ prev' = [prev EXCEPT ![child[s]] = prev[htask]]
    /\ Continue(s, "fork_prev")
    /\ UNCHANGED <<cr3, state, mishap, htask, next, forkVars>>

(* Mutant of ForkForward: htask->prev->next is not set. *)
ForkForward_none(s) ==
    /\ CanRun(s, "fork_prev")
    /\ Continue(s, "fork_fwd")
    /\ UNCHANGED <<cr3, state, mishap, ring, forkVars>>

(* The scheduler comes by the task from here on. *)
ForkForward(s) ==
    /\ CanRun(s, "fork_prev")
    /\ next' = [next EXCEPT ![prev[htask]] = child[s]]
    /\ Continue(s, "fork_fwd")
    /\ UNCHANGED <<cr3, state, mishap, htask, prev, forkVars>>

ForkBackward(s) ==
    /\ CanRun(s, "fork_fwd")
    /\ prev' = [prev EXCEPT ![htask] = child[s]]
    /\ Continue(s, "fork_back")
    /\ UNCHANGED <<cr3, state, mishap, htask, next, forkVars>>

ForkHead(s) ==
    /\ CanRun(s, "fork_back")
    /\ htask' = child[s]
    /\ Continue(s, "fork_mid")
    /\ UNCHANGED <<cr3, state, mishap, next, prev, forkVars>>

(* Mutant of ForkContext: the child's return address is not set. *)
ForkContext_noEip(s) ==
    /\ CanRun(s, "fork_mid")
    /\ got' = [got EXCEPT ![child[s]] = 0]
    /\ Continue(s, "fork_end")
    /\ UNCHANGED <<cr3, state, tid, tidOf, is_running, child, exhausted,
                   mishap, ring>>

(* task_fork after task_alloc: the address space is copied and the child is
   made to return from fork with 0.  If it has been dispatched before, it is
   at a garbage address, and the rewritten stack may or may not rescue it. *)
ForkContext(s) ==
    /\ CanRun(s, "fork_mid")
    /\ LET c == child[s]
       IN  /\ \E point \in {"user"} \cup ({"lost"} \cap {pc[c]}) :
                 pc' = [pc EXCEPT ![s] = "fork_end", ![c] = point]
           /\ frame' = [frame EXCEPT ![c] = IF pc'[c] = "user" THEN "none"
                                                               ELSE @]
           /\ got' = [got EXCEPT ![c] = 0]
    /\ UNCHANGED <<esp, eflagsIF, cr3, fgtask, state, ctx, tid, tidOf,
                   is_running, child, exhausted, mishap, ring>>

(* Mutants of ForkReturn: is_running is not set; the parent gets 0 too. *)
ForkReturn_noFlag(s) ==
    /\ CanRun(s, "fork_end")
    /\ got' = [got EXCEPT ![s] = tidOf[child[s]]]
    /\ Continue(s, "user")
    /\ UNCHANGED <<cr3, state, tid, tidOf, is_running, child, exhausted,
                   mishap, ring>>

ForkReturn_zero(s) ==
    /\ CanRun(s, "fork_end")
    /\ is_running' = [is_running EXCEPT ![tidOf[child[s]]] = TRUE]
    /\ got' = [got EXCEPT ![s] = 0]
    /\ Continue(s, "user")
    /\ UNCHANGED <<cr3, state, tid, tidOf, child, exhausted, mishap, ring>>

ForkReturn(s) ==
    /\ CanRun(s, "fork_end")
    /\ is_running' = [is_running EXCEPT ![tidOf[child[s]]] = TRUE]
    /\ got' = [got EXCEPT ![s] = tidOf[child[s]]]
    /\ Continue(s, "user")
    /\ UNCHANGED <<cr3, state, tid, tidOf, child, exhausted, mishap, ring>>

(* No frame is left: for the structure or the kernel stack, for the page
   directory, for the user stack or its page table, or for the context.
   task_fork returns -1; what was allocated is lost, and the new directory
   stays loaded. *)
ForkFail(s) ==
    /\ esp = s
    /\ pc[s] \in {"fork", "fork_tid", "fork_cr3", "fork_ctx"}
    /\ exhausted' = TRUE
    /\ got' = [got EXCEPT ![s] = -1]
    /\ child' = [child EXCEPT ![s] = None]
    /\ cr3' = IF pc[s] # "fork" /\ cr3 = child[s] THEN None ELSE cr3
    /\ IF pc[s] = "fork_tid" THEN CountTid(s) ELSE UNCHANGED tid
    /\ Continue(s, "user")
    /\ UNCHANGED <<state, tidOf, is_running, mishap, ring>>

(* No frame is left for the page table of the child's stack: task_fork
   returns 0 to the parent, with the child in the ring. *)
ForkMapFail(s) ==
    /\ CanRun(s, "fork_mid")
    /\ exhausted' = TRUE
    /\ got' = [got EXCEPT ![s] = 0]
    /\ mishap' = mishap \cup {"unmapped"}
    /\ Continue(s, "user")
    /\ UNCHANGED <<cr3, state, tid, tidOf, is_running, child, ring>>

-----------------------------------------------------------------------------
UserStep(s) == \/ OtherCall(s) \/ YieldCall(s) \/ ExitCall(s)
               \/ ForkCall(s) \/ WaitCall(s)

Fork(s) == \/ ForkReadTid(s) \/ ForkNewDirectory(s)
           \/ ForkStack(s) \/ ForkStore(s)
           \/ ForkPublish(s) \/ ForkPrev(s) \/ ForkForward(s)
           \/ ForkBackward(s) \/ ForkHead(s) \/ ForkContext(s) \/ ForkReturn(s)
           \/ ForkFail(s) \/ ForkMapFail(s)

KernelStep(s) == \/ YieldMark(s) \/ YieldSwitch(s)
                 \/ ExitForeground(s) \/ ExitNext(s) \/ ExitPrev(s)
                 \/ ExitStop(s) \/ ExitClear(s) \/ ExitSwitch(s)
                 \/ WaitReturn(s) \/ Fork(s)

Scheduler == SchedulerSkip \/ SchedulerDispatch

Next == \/ Scheduler
        \/ Interrupt \/ PageFault \/ InterruptScheduler \/ Runaway
        \/ \E s \in Tasks : UserStep(s) \/ KernelStep(s)

Spec == Init /\ [][Next]_vars

(* A step in the kernel that is not the end of memory. *)
Progress(s) ==
    /\ KernelStep(s)
    /\ (\E c \in Tasks : state[c] = "free") => UNCHANGED exhausted

(* The timer is periodic, and its period is long against a path through the
   kernel, so code in the kernel that is dispatched again and again gets on,
   but memory need never run out.
   A program entered with interrupts off makes a system call at some point:
   nothing else could take the CPU from it. *)
Fairness == /\ WF_vars(Interrupt)
            /\ WF_vars(PageFault)
            /\ WF_vars(Scheduler)
            /\ \A s \in Tasks : /\ SF_vars(Progress(s))
                                /\ WF_vars(~eflagsIF /\ UserStep(s))

FairSpec == Spec /\ Fairness

-----------------------------------------------------------------------------
TypeOK ==
    /\ esp \in {Kernel, Nowhere} \cup Tasks
    /\ eflagsIF \in BOOLEAN
    /\ cr3 \in {None} \cup Tasks
    /\ fgtask \in Tasks
    /\ htask \in Tasks
    /\ tid \in Tids
    /\ state \in [Tasks -> States]
    /\ next \in [Tasks -> Tasks]
    /\ prev \in [Tasks -> Tasks]
    /\ tidOf \in [Tasks -> Tids]
    /\ ctx \in [Tasks -> {Kernel} \cup Tasks]
    /\ is_running \in [Tids -> BOOLEAN]
    /\ pc \in [Tasks -> Points]
    /\ frame \in [Tasks -> {"none", "on", "off"}]
    /\ child \in [Tasks -> {None} \cup Tasks]
    /\ got \in [Tasks -> {NoResult, -1} \cup Tids]
    /\ exhausted \in BOOLEAN
    /\ mishap \in SUBSET Mishaps

Without(mishaps) == mishap \cap mishaps = {}
Ready(t) == state[t] \in {"RUNNABLE", "RUNNING"}

(* x86.S:123, "we need to save per-task information on the stack when
   yielding, otherwise we don't know where to resume a task": what a task is
   resumed from is always its own stack. *)
ResumedFromOwnStack == \A t \in Tasks : Ready(t) => ctx[t] = t

(* ... which holds as long as no interrupt comes while the scheduler runs, or
   in task_exit after fgtask has moved on. *)
ContextSafe == Without({"scheduler", "exit"}) => ResumedFromOwnStack

(* task.c:19, "Foreground (currently running) task": a task in state RUNNING
   has the CPU.  One that has not is stranded, for the scheduler runs only
   tasks that are RUNNABLE. *)
RunningHasCpu == \A t \in Tasks : state[t] = "RUNNING" => esp = t

(* ... which holds as long as no interrupt comes between the two halves of
   task_yield, or in task_exit. *)
NoneStranded == Without({"exit", "yield"}) => RunningHasCpu

(* A child is dispatched only when task_fork has finished building it, unless
   an interrupt comes between its publication and the set-up of its context,
   or task_fork gave it up after publication. *)
ChildComplete ==
    Without({"half", "unmapped"}) =>
        \A t \in Tasks : Ready(t) /\ pc[t] \in {"raw", "lost"}
                         => \E p \in Tasks : child[p] = t /\ pc[p] \in Publishing

(* is_running[x] stays set only as long as a task with that tid is alive, or
   on the CPU and about to clear it, so no task_wait spins forever; unless the
   child could run before task_fork set the flag, or an interrupt comes in
   task_exit, after which nobody need come back to clear it. *)
NoLostWakeup ==
    Without({"wakeup", "exit"}) =>
        \A x \in Tids : is_running[x] =>
            \E t \in Tasks : /\ tidOf[t] = x
                             /\ Ready(t) \/ (esp = t /\ pc[t] = "exit_stopped")

(* The tasks as fork, exit and wait should make them look.  A parent knows its
   child by the tid that fork returned. *)
Life(t) == IF Ready(t) THEN "alive"
           ELSE IF state[t] = "STOPPED" THEN "ended" ELSE "unborn"
Known(t) == IF child[t] # None /\ got[t] = tidOf[child[t]] THEN child[t] ELSE None

P == INSTANCE Processes WITH Shell <- 1, Nobody <- None,
                             life <- [t \in Tasks |-> Life(t)],
                             known <- [t \in Tasks |-> Known(t)],
                             waiting <- {t \in Tasks : pc[t] = "wait"}

(* ... and as they do look, step by step, unless tids are not unique, or an
   interrupt in task_exit or in the scheduler has put a task that had stopped
   back into the scheduler's hands. *)
ProcessesSpec ==
    /\ P!Init
    /\ [][mishap' \cap {"wrap", "tid", "exit", "scheduler"} = {}
            => P!Next \/ UNCHANGED P!vars]_vars

(* x86.S:105, "this is where fork returns in the child; makes it look like
   fork returned 0": a task that has forked a child got another result. *)
ZeroOnlyInChild ==
    \A t \in Tasks : got[t] = 0 /\ pc[t] \notin ForkPoints => child[t] = None

(* ... which holds as long as the 8-bit tid has not wrapped and task_fork has
   not failed after publishing the child. *)
ParentKnows == Without({"wrap", "unmapped"}) => ZeroOnlyInChild

(* The n-th task from fgtask along the ring. *)
NthNext == LET nth[n \in 0 .. MaxTasks] ==
                   IF n = 0 THEN fgtask ELSE next[nth[n - 1]]
           IN  nth

(* A task that task_alloc has not put before htask yet, or that task_exit has
   begun to take out. *)
Joining(t) == \E p \in Tasks : child[p] = t /\ pc[p] \in {"fork_next", "fork_prev"}
Leaving(t) == esp = t /\ pc[t] \in ExitWindow

(* task.c:20, "Used for maintaining the linked list": the scheduler, going
   round from fgtask, comes by every task that is not stopped, wherever in the
   stores to the list it finds those that make them. *)
RingIsComplete ==
    \A t \in Tasks : Ready(t) /\ ~Joining(t) /\ ~Leaving(t)
                        => \E n \in 0 .. MaxTasks : NthNext[n] = t

(* ... which holds for a shell that waits for each child, as long as tids do not
   wrap, for then the shell takes itself for a child and does not wait, and no
   interrupt comes in task_exit, which may let a child that has stopped exit
   again.  A program with two children alive can lose the next one, because
   htask still points to the first that exited. *)
ShellRing == Without({"wrap", "exit"}) => RingIsComplete

(* Round robin: a RUNNABLE task is dispatched, unless it has fallen out of the
   ring or an interrupt has come in the scheduler. *)
EveryoneIsServed ==
    []Without({"wrap", "exit", "scheduler"}) =>
        \A t \in Tasks : state[t] = "RUNNABLE" ~> state[t] # "RUNNABLE"

(* ... and a fork returns, unless an interrupt has come between the load of the
   child's directory and the store to the child's stack.  A wait for a child
   that has stopped returns, unless the child could run before task_fork set
   its flag. *)
CallsReturn ==
    /\ []Without({"scheduler", "exit", "stack"}) =>
          \A t \in Tasks : pc[t] \in ForkPoints ~> pc[t] = "user"
    /\ []Without({"scheduler", "exit", "wakeup"}) =>
          \A t \in Tasks :
             (pc[t] = "wait" /\ Known(t) # None /\ state[Known(t)] = "STOPPED")
                 ~> pc[t] = "user"
=============================================================================
