--------------------------------- MODULE Vm ---------------------------------
(***************************************************************************)
(* The address spaces of tasks: what vm_init, task_alloc, task_copy_vm,    *)
(* task_fork and sys_exec do to page directories, what the programs that   *)
(* run under them read and write, and the stack that system calls run on.  *)
(* A system call is one step; Task models what may come in between.        *)
(***************************************************************************)
EXTENDS Paging, FiniteSets, TLC

CONSTANTS MaxTasks,     \* bound: tasks at a time
          MaxExecs,     \* bound: calls of exec
          Values,       \* what a page can hold
          Pages,        \* pages of the image of a program
          Machines      \* records of the memory and the program at boot:
                        \*   top     frames of memory
                        \*   kernel  frames below ekernel
                        \*   start   first page of the program's image
                        \*   junk    what vm_init finds in pages[] of kcache
                        \*   dirt    what each frame holds when it is handed
                        \*           out, seen as a table

Tasks == 1 .. MaxTasks

ASSUME VmAssumption ==
    /\ MaxTasks \in Nat \ {0} /\ MaxExecs \in Nat
    /\ 0 \in Values
    /\ Pages \in Nat \ {0}
    /\ \A b \in Machines : /\ b.top \in 1 .. VaTop /\ b.kernel \in 1 .. b.top
                           /\ b.start \in Nat /\ b.start + Pages < KHALF
                           /\ DOMAIN b.dirt = 0 .. b.top - 1

VARIABLES
    boot,       \* the machine
    m,          \* memory, see Paging
    block,      \* frames of each task's structure, kernel stack and context
    pdir,       \* each task's page directory
    stack,      \* frame and page of each task's user stack
    live,       \* tasks that run
    hung,       \* those of them that fault in the kernel for ever
    fgtask,     \* the task on the CPU
    cr3,        \* the directory in use
    execs,      \* calls of exec so far
    mishap      \* ghost: the unsafe things that have happened so far

vars == <<boot, m, block, pdir, stack, live, hung, fgtask, cr3, execs, mishap>>

Image == boot.start .. boot.start + Pages - 1
ImageNumbers == 1 .. Pages

-----------------------------------------------------------------------------
(* Memory at boot.  vm_init clears neither of the caches it allocates.  Until
   a frame is written, m.table leaves out the machine's dirt. *)
Memory(b) ==
    [top |-> b.top, used |-> b.kernel, ok |-> TRUE, stuck |-> FALSE,
     table |-> [f \in 0 .. b.top - 1 |-> Absent],
     cache |-> [c \in {"kcache", "iocache"} |->
                   IF c = "kcache" THEN b.junk ELSE Absent],
     data |-> [f \in 0 .. b.top - 1 |-> 0]]

(* A frame that the kernel writes as soon as it has it. *)
TakeForKernel(n) == Touch(Take(n), NextFrame(n))

(* The user stack of a new task, mapped at its physical address, and the
   context. *)
WithStack(n, struct, kstack, d) ==
    LET s == NextFrame(n)
        mapped == vm_map_page(Take(n), d, s, s, TRUE, None)
    IN  [m |-> TakeForKernel(mapped), pdir |-> d, stack |-> s,
         block |-> [struct |-> struct, kstack |-> kstack,
                    ctx |-> NextFrame(mapped)],
         loaded |-> n.ok]

(* task_alloc: a task structure, a kernel stack, a directory, which is loaded,
   and the stack. *)
task_alloc(n) ==
    LET a == TakeForKernel(n)
        b == Take(a)
    IN  WithStack(vm_new_pdir(b), NextFrame(n), NextFrame(a), NextFrame(b))

(* elf_map_sections, for a program whose segments have a page each: every
   page in a frame of its own.  Exec has more to say about it. *)
LoadImage(n, d, image) ==
    LET load[i \in 0 .. Pages] ==
            IF i = 0 THEN n
            ELSE LET pg == NextFrame(load[i - 1])
                     l == TakeForKernel(load[i - 1])
                 IN  IF ~l.ok THEN l
                     ELSE vm_map_page([l EXCEPT !.data[pg] = image[i]], d, pg,
                                      boot.start + i - 1, TRUE, None)
    IN  load[Pages]

task_add(n) ==
    LET task == task_alloc(n)
        loaded == LoadImage(task.m, task.pdir, [i \in ImageNumbers |-> 0])
    IN  IF task.m.ok THEN [task EXCEPT !.m = loaded] ELSE task

(* Mutant of task_init: kctx is allocated before the first task. *)
task_init_kctxFirst(n) == task_add(Take(n))

(* The first task, and kctx. *)
task_init(n) ==
    LET task == task_add(n)
    IN  [task EXCEPT !.m = Take(task.m)]

(* After vm_init, syscall_init, which takes a frame for its register, and
   task_init; the first and the last stop the kernel if they fail. *)
Init ==
    /\ boot \in Machines
    /\ vm_init(Memory(boot)).ok
    /\ \E task \in {task_init(Take(vm_init(Memory(boot))))} :
          /\ task.m.ok
          /\ m = task.m
          /\ block = [t \in Tasks |-> task.block]
          /\ pdir = [t \in Tasks |-> IF t = 1 THEN task.pdir ELSE Null]
          /\ stack = [t \in Tasks |-> IF t = 1 THEN task.stack ELSE Null]
          /\ cr3 = task.pdir
          /\ mishap = (IF boot.junk = Absent THEN {} ELSE {"dirty"})
                      \cup (IF task.stack \in Image THEN {"overlap"} ELSE {})
    /\ live = {1}
    /\ hung = {}
    /\ fgtask = 1
    /\ execs = 0

-----------------------------------------------------------------------------
(* Mutant of CopyPage: the new table is not written through the higher half,
   so that it may lie above. *)
CopyPage_high(n, npdir, addr, first_time) ==
    LET d == PDIRE(addr)
        entry == m.table[pdir[fgtask]][d]
        tentry == m.table[entry.frame][PTBLE(addr)]
        copy == NextFrame(n)
        a == [pm_alloc_frame(n) EXCEPT !.data[copy] = n.data[tentry.frame]]
        ptbl == IF first_time THEN NextFrame(a) ELSE a.table[npdir][d].frame
        b == IF first_time
               THEN [pm_alloc_frame(a) EXCEPT
                         !.table[npdir] = Put(@, d, Entry(ptbl, entry.user))]
               ELSE a
    IN  IF ~n.ok THEN n
        ELSE [b EXCEPT !.table[ptbl] =
                           Put(@, PTBLE(addr), Entry(copy, tentry.user))]

(* Mutant of CopyPage: the frame is not filled. *)
CopyPage_empty(n, npdir, addr, first_time) ==
    LET d == PDIRE(addr)
        copy == NextFrame(n)
        a == pm_alloc_frame(n)
        ptbl == IF first_time THEN NextFrame(a) ELSE a.table[npdir][d].frame
        b == IF first_time
               THEN [pm_alloc_frame(a) EXCEPT
                         !.table[npdir] = Put(@, d, Entry(ptbl, TRUE))]
               ELSE a
    IN  [b EXCEPT !.table[ptbl] = Put(@, PTBLE(addr), Entry(copy, TRUE))]

(* One turn of task_copy_vm's loop.  Only the first copied page gives the
   child a table of its own, which is not cleared: what is left in the frame is
   entries of it now.  pm_alloc_frame's result is used as it is.  Both frames
   are written through the higher half. *)
CopyPage(n, npdir, addr, first_time) ==
    LET d == PDIRE(addr)
        entry == m.table[pdir[fgtask]][d]
        tentry == m.table[entry.frame][PTBLE(addr)]
        copy == NextFrame(n)
        a == Touch([pm_alloc_frame(n) EXCEPT
                        !.data[copy] = n.data[tentry.frame]], copy)
        ptbl == IF first_time THEN NextFrame(a) ELSE a.table[npdir][d].frame
        b == IF first_time
               THEN Touch([pm_alloc_frame(a) EXCEPT
                               !.table[npdir] =
                                   Put(@, d, Entry(ptbl, entry.user))], ptbl)
               ELSE a
        left == IF first_time THEN boot.dirt[ptbl] ELSE Absent
    IN  IF ~n.ok THEN n ELSE IF ~a.ok THEN a ELSE IF ~b.ok THEN b
        ELSE [b EXCEPT !.table[ptbl] = Put(Over(@, left), PTBLE(addr),
                                           Entry(copy, tentry.user))]

(* The pages from the start of the image up to the first that is not mapped. *)
Copied == {va \in boot.start .. VaTop - 1 :
              \A w \in boot.start .. va : Mapped(m, pdir[fgtask], w)}

task_copy_vm(n, npdir) ==
    LET count == IF Copied = {} THEN 0
                 ELSE (CHOOSE last \in Copied : last + 1 \notin Copied)
                          - boot.start + 1
        after[i \in 0 .. count] ==
            IF i = 0 THEN n
            ELSE CopyPage(after[i - 1], npdir, boot.start + i - 1, i = 1)
    IN  after[count]

-----------------------------------------------------------------------------
(* The frames that hold something of task t. *)
TablesOf(t) == {m.table[pdir[t]][d].frame : d \in DOMAIN m.table[pdir[t]]}
ImageOf(t) == {FrameAt(m, pdir[t], va) :
                  va \in {w \in Image : Mapped(m, pdir[t], w)}}
InUseBy(t) == {block[t].struct, block[t].kstack, block[t].ctx, pdir[t], stack[t]}
              \cup TablesOf(t) \cup ImageOf(t)
InUse == UNION {InUseBy(t) : t \in live}

Tables == {pdir[t] : t \in live} \cup UNION {TablesOf(t) : t \in live}

(* The frames that hold the kernel, its tables and what it knows of tasks. *)
KernelsOwn == (0 .. boot.kernel - 1) \cup Tables
              \cup UNION {{block[t].struct, block[t].kstack, block[t].ctx} : t \in live}

(* sysenter_eip loads the address of the task structure, not the kernel stack
   whose address is its first field: system calls run on the frame below. *)
SyscallStack(t) == block[t].struct - 1
Entered == IF SyscallStack(fgtask) \in InUse THEN {"trample"} ELSE {}

(* What a system call starts from. *)
Sound == [m EXCEPT !.ok = TRUE, !.stuck = FALSE]
Calls == fgtask \notin hung

(* What makes a fork unsafe: it is not the shell's, or the shell has a child
   already; the image spans two tables; the new stack's address is one of the
   image's; there is not enough memory. *)
ForkMishap(s, n) ==
    (IF live # {1} THEN {"siblings"} ELSE {})
    \cup (IF PDIRE(boot.start) # PDIRE(boot.start + Pages - 1)
            THEN {"crossing"} ELSE {})
    \cup (IF s \in Image THEN {"overlap"} ELSE {})
    \cup (IF (~n.ok /\ ~n.stuck) \/ NextFrame(n) = Null THEN {"oom"} ELSE {})

(* What makes the copying of pages into memory n unsafe: the child's table, the
   second frame that is taken, is not clean; the frames do not suffice, and
   frame 0 is used instead of those that are missing. *)
CopyMishap(n) ==
    IF Copied = {} THEN {}
    ELSE (IF boot.dirt[NextFrame(pm_alloc_frame(n))] # Absent THEN {"leftover"} ELSE {})
         \cup (IF n.used + Cardinality(Copied) >= n.top THEN {"corrupt"} ELSE {})

(* task_fork whose task_alloc returns 0, or never; the directory it may have
   made is the one in use. *)
ForkFails ==
    /\ Calls
    /\ live # Tasks
    /\ \E task \in {task_alloc(Sound)} :
          /\ ~task.m.ok
          /\ m' = task.m
          /\ cr3' = IF task.loaded THEN task.pdir ELSE cr3
          /\ hung' = IF task.m.stuck THEN hung \cup {fgtask} ELSE hung
          /\ mishap' = mishap \cup Entered
                       \cup (IF task.m.stuck THEN {} ELSE {"oom"})
    /\ UNCHANGED <<boot, block, pdir, stack, live, fgtask, execs>>

(* The child starts with the tables of its parent's directory. *)
Inherit(task) ==
    [task.m EXCEPT !.table[task.pdir] = m.table[pdir[fgtask]]]

(* A child whose pages cannot all be copied, or whose stack cannot be mapped,
   has no program to return to; Task has more to say about it. *)
Fork(u) ==
    /\ Calls
    /\ u \notin live
    /\ \E task \in {task_alloc(Sound)} :
          /\ task.m.ok
          /\ block' = [block EXCEPT ![u] = task.block]
          /\ pdir' = [pdir EXCEPT ![u] = task.pdir]
          /\ stack' = [stack EXCEPT ![u] = task.stack]
          /\ cr3' = task.pdir
          /\ \E n \in {vm_map_page(task_copy_vm(Inherit(task), task.pdir),
                                   task.pdir, task.stack, task.stack,
                                   TRUE, None)} :
                /\ m' = n
                /\ live' = IF n.ok THEN live \cup {u} ELSE live
                /\ hung' = IF n.stuck THEN hung \cup {fgtask} ELSE hung
                /\ mishap' = mishap \cup Entered \cup ForkMishap(task.stack, n)
                             \cup CopyMishap(Inherit(task))
    /\ UNCHANGED <<boot, fgtask, execs>>

(* sys_exec with a valid program; if it fails some pages are new. *)
Exec(image) ==
    /\ Calls
    /\ execs < MaxExecs
    /\ execs' = execs + 1
    /\ \E n \in {LoadImage(Sound, pdir[fgtask], image)} :
          /\ m' = n
          /\ hung' = IF n.stuck THEN hung \cup {fgtask} ELSE hung
          /\ mishap' = mishap \cup Entered
                       \cup (IF fgtask = 1 THEN {"reload"} ELSE {})
                       \cup (IF n.ok THEN {} ELSE {"partial"})
    /\ UNCHANGED <<boot, block, pdir, stack, live, fgtask, cr3>>

(* Mutant of Dispatch: the task is not looked at. *)
Dispatch_any(t) ==
    /\ fgtask' = t
    /\ cr3' = pdir[t]
    /\ UNCHANGED <<boot, m, block, pdir, stack, live, hung, execs, mishap>>

(* The scheduler's part: lcr3 and the switch. *)
Dispatch(t) ==
    /\ t \in live
    /\ fgtask' = t
    /\ cr3' = pdir[t]
    /\ UNCHANGED <<boot, m, block, pdir, stack, live, hung, execs, mishap>>

(* task_exit gives nothing back. *)
Exit(t) ==
    /\ Calls
    /\ t \in live \ {fgtask}
    /\ live' = live \ {fgtask}
    /\ fgtask' = t
    /\ cr3' = pdir[t]
    /\ mishap' = mishap \cup Entered
    /\ UNCHANGED <<boot, m, block, pdir, stack, hung, execs>>

(* The system calls that have to do with neither memory nor tasks. *)
OtherCall ==
    /\ Calls
    /\ mishap' = mishap \cup Entered
    /\ UNCHANGED <<boot, m, block, pdir, stack, live, hung, fgtask, cr3, execs>>

(* The program writes a page, which may be any that the directory in use lets
   it write: one of its image, its stack, but also a stack that came with the
   directory of its parent, or lies in a table that it shares. *)
UserWrite(va, v) ==
    /\ Calls
    /\ UserMay(m, cr3, va)
    /\ m' = [m EXCEPT !.data[FrameAt(m, cr3, va)] = v]
    /\ mishap' = mishap
           \cup (IF va \in Image /\ cr3 # pdir[fgtask] THEN {"borrowed"} ELSE {})
           \cup (IF va \notin Image \cup {stack[fgtask]} THEN {"shared"} ELSE {})
           \cup (IF FrameAt(m, cr3, va) \in KernelsOwn THEN {"corrupt"} ELSE {})
    /\ UNCHANGED <<boot, block, pdir, stack, live, hung, fgtask, cr3, execs>>

(* It reads or writes a page that is closed to it: the handler switches tasks. *)
PageFault(t) ==
    /\ Calls
    /\ ~\A va \in 0 .. VaTop - 1 : UserMay(m, cr3, va)
    /\ Dispatch(t)

Next == \/ \E u \in Tasks : Fork(u)
        \/ ForkFails
        \/ \E image \in [ImageNumbers -> Values] : Exec(image)
        \/ OtherCall
        \/ \E t \in Tasks : Dispatch(t) \/ Exit(t) \/ PageFault(t)
        \/ \E va \in 0 .. VaTop - 1, v \in Values : UserWrite(va, v)

Spec == Init /\ [][Next]_vars

-----------------------------------------------------------------------------
Without(mishaps) == mishap \cap mishaps = {}

Frames == 0 .. boot.top - 1
IsTable(table) == /\ DOMAIN table \subseteq 0 .. VaTop
                  /\ \A i \in DOMAIN table : table[i].frame \in 0 .. VaTop - 1
                                             /\ table[i].user \in BOOLEAN

(* The type invariant of memory and of what belongs to the tasks. *)
TypeOK ==
    /\ boot \in Machines
    /\ m.top = boot.top /\ m.used \in boot.kernel .. m.top
    /\ m.ok \in BOOLEAN /\ m.stuck \in BOOLEAN
    /\ DOMAIN m.table = Frames
    /\ \A f \in Frames : IsTable(m.table[f])
    /\ \A c \in {"kcache", "iocache"} : IsTable(m.cache[c])
    /\ m.data \in [Frames -> Values]
    /\ block \in [Tasks -> [struct : Frames, kstack : Frames, ctx : Frames]]
    /\ pdir \in [Tasks -> Frames] /\ stack \in [Tasks -> Frames]
    /\ live \subseteq Tasks /\ hung \subseteq Tasks
    /\ fgtask \in live /\ cr3 \in Frames /\ execs \in 0 .. MaxExecs
    /\ mishap \subseteq {"dirty", "trample", "siblings", "reload", "crossing",
                         "overlap", "oom", "partial", "borrowed", "shared",
                         "leftover", "corrupt"}

(* The first KHEAP pages of memory are in the higher half of every task's
   directory, and I/O is at its own addresses, both closed to programs: the
   kernel runs on whatever directory is loaded.  It takes clean caches at
   boot, of which vm_map_page believes every entry, clean frames for the tables
   of children, and no system call on a frame in use.  Running out of memory, or
   of reach, makes no exception, but for frame 0 taken for one that is missing. *)
KernelMapped ==
    Without({"dirty", "trample", "leftover", "corrupt"}) =>
        \A t \in live :
            /\ \A f \in 0 .. KHEAP - 1 :
                  /\ Mapped(m, pdir[t], KHALF + f)
                  /\ FrameAt(m, pdir[t], KHALF + f) = f
                  /\ ~UserMay(m, pdir[t], KHALF + f)
            /\ \A va \in IO_START .. VaTop - 1 :
                  /\ Mapped(m, pdir[t], va)
                  /\ FrameAt(m, pdir[t], va) = va
                  /\ ~UserMay(m, pdir[t], va)

(* No program can reach a page table, whosever it is, and the kernel can reach
   them all, and every page that it may have to copy: memory above the first
   KHEAP pages stops the task that gets it, but is never in a task that runs.
   A child whose table has not been clean may reach anything. *)
TablesAreClosed ==
    Without({"dirty", "trample", "oom", "leftover", "corrupt"}) =>
        /\ \A t \in live, va \in 0 .. KHALF - 1 :
              UserMay(m, pdir[t], va) =>
                  /\ FrameAt(m, pdir[t], va) \notin Tables
                  /\ FrameAt(m, pdir[t], va) >= boot.kernel
        /\ \A t \in live : \A f \in TablesOf(t) \cup ImageOf(t) : f < KHEAP

(* The frame that a task's system calls run on holds nothing of any task, if
   only the shell forks, one child at a time, and never replaces itself: then
   the frame below its children's structures is kctx's or was a child's that
   has exited. *)
StacksApart ==
    Without({"dirty", "siblings", "reload", "oom", "leftover", "corrupt"}) =>
        \A t \in live : SyscallStack(t) \notin InUse

(* Each task's memory as it sees it through its own directory: the pages of
   its program by number, and its stack as slot 0. *)
Slot(t, i) == IF i = 0 THEN stack[t] ELSE boot.start + i - 1
Seen(t) == [i \in 0 .. Pages |-> m.data[FrameAt(m, pdir[t], Slot(t, i))]]

memory == [t \in Tasks |-> IF t \in live THEN Seen(t) ELSE <<>>]

A == INSTANCE AddressSpace WITH Slots <- 0 .. Pages, Stack <- 0,
                                Nothing <- <<>>, running <- fgtask

(* As long as programs keep to their own pages, every task has a memory of its
   own: a write changes only the writer's, a fork copies the parent's, exec
   replaces the caller's, a dispatch or an exit changes no other.  The directories
   do not make them: a child can write its parent's stack, which is the mishap
   "shared".  Two others are no exception, a fork and an exec that the shell as
   it is does not make. *)
PrivateMemory ==
    /\ mishap \subseteq {"siblings", "reload"} => A!Init
    /\ [][mishap' \subseteq {"siblings", "reload"} =>
            (A!Next \/ UNCHANGED A!vars)]_vars
=============================================================================
