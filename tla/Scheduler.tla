------------------------------ MODULE Scheduler ------------------------------
(****************************************************************************)
(* Processes and context switches (process.c, the interrupt and call-gate   *)
(* entries of kernel-entry.asm, and the sleep and exit calls of syscall.c). *)
(*                                                                          *)
(* One CPU.  What it is doing is the current process, the page directory it *)
(* runs on (cr3), the kernel stack it enters the kernel with (esp0) and the *)
(* interrupt flag; a process switched away from is the frame on its kernel  *)
(* stack.  Interrupts and the calls that keep them off are single steps.    *)
(* The sleep call turns them on, so ticks and switches happen inside it.    *)
(* Whatever needs the disk waits for it in the kernel's own sleep(), which  *)
(* counts ticks and leaves the interrupt flag alone (ata.c, interrupt.c):   *)
(* a program's blocks that are not cached and, once the log file is open,   *)
(* every kprintf.  The machine may stop for good: the kernel halts, or an   *)
(* interrupt finds it on a stack it cannot use.                             *)
(****************************************************************************)
EXTENDS Processes, FiniteSets

CONSTANTS
  Quantum,          \* ticks of the system counter a process gets (16)
  MaxSleep,         \* bound on the argument of the sleep call
  DiskTicks         \* ticks waitForATABusy sleeps before it reads the status (100)

ASSUME SchedulerAssumption ==
  /\ Quantum \in Nat
  /\ MaxSleep \in Nat
  /\ DiskTicks \in Nat \ {0}

FirstUser == 2      \* the slot procInitUser finds for init

\* active_stack_addr of a process that has no frame.
NoStack == [interrupts |-> FALSE, cr3 |-> NoProc]

VARIABLES
  allocated,        \* slots whose proc_id is not 0
  runnable,         \* PROC_FLAGS_RUNNABLE
  terminated,       \* PROC_FLAGS_TERMINATED
  frame,            \* active_stack_addr: what resuming the process restores
  asleep,           \* ticks each process has left in the sleep call, or Awake
  tk_cur_proc_id,   \* the current process
  elapsed,          \* counter - active_start of the current process (capped)
  interrupts,       \* the interrupt flag
  cr3, esp0,        \* owner of the page directory, of the kernel stack
  log_file,         \* initLogger opened the log file
  disk_wait,        \* ticks left of the wait for the disk the kernel is in
  boot,             \* how far main() has come on its way into init
  machine_halted    \* the machine has stopped

schedulerVars == << allocated, runnable, terminated, frame, asleep, tk_cur_proc_id,
                    elapsed, interrupts, cr3, esp0, log_file, disk_wait, boot,
                    machine_halted >>

Awake == 0 - 1

\* Mutant: an interrupted process is resumed on its own directory, in a call or not.
IrqFrameOfProgram(directory) == [interrupts |-> TRUE, cr3 |-> tk_cur_proc_id]

\* The frame procInitUser prepares, which starts the program with flags 0, and the
\* one the interrupt handler leaves, which restores cr3 as it was found.
FreshFrame(p) == [interrupts |-> FALSE, cr3 |-> p]
IrqFrame(directory) == [interrupts |-> TRUE, cr3 |-> directory]

\* Boot: main() with interrupts on, about to read init's file.  The log is there unless
\* the disk is full or fails.  The kernel's active_start is uninitialised.
SchedulerInit ==
  /\ allocated = {Kernel}
  /\ runnable = {}
  /\ terminated = {}
  /\ frame = [p \in Procs |-> NoStack]
  /\ asleep = [p \in Procs |-> Awake]
  /\ tk_cur_proc_id = Kernel
  /\ elapsed \in 0..(Quantum + 1)
  /\ interrupts = TRUE
  /\ cr3 = Kernel
  /\ esp0 = NoProc
  /\ log_file \in BOOLEAN
  /\ disk_wait = DiskTicks
  /\ boot = "main"
  /\ machine_halted = FALSE

-----------------------------------------------------------------------------
\* procInitUser: the first unused slot, not runnable yet.
FreeSlot(p) == p \notin allocated /\ 1..(p - 1) \subseteq allocated

\* Mutant: a process that is not ready is picked.
CanSwitchToAny(p, cur, ready) ==
  /\ p \in allocated
  /\ p # Kernel
  /\ p # cur
  /\ frame[p] # NoStack

\* The test procCheckContextSwitch makes on a slot.
CanSwitchTo(p, cur, ready) ==
  /\ p \in allocated
  /\ p # Kernel
  /\ p \in ready
  /\ p # cur
  /\ frame[p] # NoStack

\* Mutant: the scan begins at the table's first slot.
ScannedFromFirst(cur, i) == i + 1

\* The id in the i-th slot the scan visits, from the one after the current.
Scanned(cur, i) == ((cur + i) % MAX_PROCESSES) + 1

\* The process the scan stops at, or the current one if it finds none.
NextProc(cur, ready) ==
  LET found == {i \in 0..(MAX_PROCESSES - 2) : CanSwitchTo(Scanned(cur, i), cur, ready)}
  IN  IF found = {} THEN cur
      ELSE Scanned(cur, CHOOSE i \in found : \A j \in found : i <= j)

\* Mutant: the kernel stack for calls stays the old process's.
SwitchToOldStack(p, saved) ==
  /\ frame' = [frame EXCEPT ![tk_cur_proc_id] = saved]
  /\ tk_cur_proc_id' = p
  /\ elapsed' = 0
  /\ cr3' = frame[p].cr3
  /\ interrupts' = frame[p].interrupts
  /\ UNCHANGED esp0

\* procDoContextSwitch from the current process to p, as far as p's own return:
\* the outgoing process's frame is saved and p's is restored.
SwitchTo(p, saved) ==
  /\ frame' = [frame EXCEPT ![tk_cur_proc_id] = saved]
  /\ tk_cur_proc_id' = p
  /\ elapsed' = 0
  /\ esp0' = p
  /\ cr3' = frame[p].cr3
  /\ interrupts' = frame[p].interrupts

\* Mutant: only a process that exited is ever due.
CheckOnlyOver(ticks, ready, over, saved) ==
  LET next == NextProc(tk_cur_proc_id, ready)
  IN  IF tk_cur_proc_id \in over /\ next # tk_cur_proc_id
      THEN SwitchTo(next, saved)
      ELSE /\ elapsed' = ticks
           /\ interrupts' = TRUE
           /\ UNCHANGED << frame, tk_cur_proc_id, esp0, cr3 >>

\* procCheckContextSwitch, given the ticks the current process has had and the
\* flags after what its caller did, or else stay with the current process.
CheckContextSwitch(ticks, ready, over, saved) ==
  LET next == NextProc(tk_cur_proc_id, ready)
      due  == tk_cur_proc_id \in over \/ ticks > Quantum
  IN  IF due /\ next # tk_cur_proc_id
      THEN SwitchTo(next, saved)
      ELSE /\ elapsed' = ticks
           /\ interrupts' = TRUE
           /\ UNCHANGED << frame, tk_cur_proc_id, esp0, cr3 >>

AtMost(n, bound) == IF n > bound THEN bound ELSE n

\* What is left of a wait after some ticks.
After(wait, ticks) == IF wait > ticks THEN wait - ticks ELSE 0

\* IRQ0, which counts a tick, and any other IRQ; both end with the check.
IRQ(ticks) ==
  /\ interrupts /\ ~machine_halted
  /\ boot # "jump"
  /\ asleep' = [p \in Procs |->
                  IF asleep[p] = Awake THEN Awake ELSE After(asleep[p], ticks)]
  /\ disk_wait' = After(disk_wait, ticks)
  /\ CheckContextSwitch(AtMost(elapsed + ticks, Quantum + 1), runnable, terminated,
                        IrqFrame(cr3))
  /\ UNCHANGED << allocated, runnable, terminated, log_file, boot, machine_halted >>

Tick == IRQ(1)

\* Everything but what stops the machine.
running == << allocated, runnable, terminated, frame, asleep, tk_cur_proc_id, elapsed,
              interrupts, cr3, esp0, log_file, disk_wait, boot >>

\* An IRQ in user_process_jump, between the switch to init's stack and the iret into
\* init.  The stack stays the same, as the kernel interrupts itself, and the kernel's page
\* directory, which the handler switches to if the kernel has not left it yet, does not
\* map it: neither the frame nor those of the faults that follow can be pushed.
IRQOnUserStack ==
  /\ interrupts /\ ~machine_halted
  /\ boot = "jump"
  /\ machine_halted' = TRUE
  /\ UNCHANGED running

-----------------------------------------------------------------------------
\* Mutant: the kernel prints its log with interrupts off.
BootInitUserMasked ==
  /\ boot = "main" /\ ~machine_halted
  /\ disk_wait = 0
  /\ FirstUser \notin allocated
  /\ allocated' = allocated \cup {FirstUser}
  /\ frame' = [frame EXCEPT ![FirstUser] = FreshFrame(FirstUser)]
  /\ disk_wait' = IF log_file THEN DiskTicks ELSE 0
  /\ interrupts' = FALSE
  /\ UNCHANGED << runnable, terminated, asleep, tk_cur_proc_id, elapsed, cr3, esp0,
                  log_file, boot, machine_halted >>

\* loadELF at boot, once the file is read: procInitUser, with interrupts on, which
\* logs what it does, and later procStart.
BootInitUser ==
  /\ boot = "main" /\ ~machine_halted
  /\ disk_wait = 0
  /\ FirstUser \notin allocated
  /\ allocated' = allocated \cup {FirstUser}
  /\ frame' = [frame EXCEPT ![FirstUser] = FreshFrame(FirstUser)]
  /\ disk_wait' = IF log_file THEN DiskTicks ELSE 0
  /\ UNCHANGED << runnable, terminated, asleep, tk_cur_proc_id, elapsed,
                  interrupts, cr3, esp0, log_file, boot, machine_halted >>

\* procStart by the kernel makes init the current process, still on the stack main() is on.
BootStart ==
  /\ boot = "main" /\ ~machine_halted
  /\ disk_wait = 0
  /\ FirstUser \in allocated
  /\ boot' = "start"
  /\ tk_cur_proc_id' = FirstUser
  /\ elapsed' = 0
  /\ esp0' = FirstUser
  /\ runnable' = runnable \cup {FirstUser}
  /\ UNCHANGED << allocated, terminated, frame, asleep, interrupts, cr3, log_file,
                  disk_wait, machine_halted >>

\* user_process_jump saves the kernel's stack pointer and takes init's.
BootJump ==
  /\ boot = "start" /\ ~machine_halted
  /\ boot' = "jump"
  /\ frame' = [frame EXCEPT ![Kernel] = IrqFrame(Kernel)]
  /\ UNCHANGED << allocated, runnable, terminated, asleep, tk_cur_proc_id, elapsed,
                  interrupts, cr3, esp0, log_file, disk_wait, machine_halted >>

\* The rest of it: init's page directory, and into init with the flags of the kernel.
BootEnter ==
  /\ boot = "jump" /\ ~machine_halted
  /\ boot' = "done"
  /\ cr3' = FirstUser
  /\ UNCHANGED << allocated, runnable, terminated, frame, asleep, tk_cur_proc_id, elapsed,
                  interrupts, esp0, log_file, disk_wait, machine_halted >>

\* The current process is in its program and not in a call.
InProgram(p) ==
  /\ tk_cur_proc_id = p
  /\ p \in Users
  /\ boot = "done" /\ ~machine_halted
  /\ asleep[p] = Awake
  /\ disk_wait = 0

\* puts and flush_streams: the way out of the call gate turns interrupts on.
Syscall(p) ==
  /\ InProgram(p)
  /\ interrupts' = TRUE
  /\ UNCHANGED << allocated, runnable, terminated, frame, asleep, tk_cur_proc_id,
                  elapsed, cr3, esp0, log_file, disk_wait, boot, machine_halted >>

\* A call that comes to need the disk with interrupts off: flush_streams that serves
\* a spawn or opens the keyboard, and exit, which all print to the log; and a spawn of
\* a program whose blocks are not cached, log or no log.
DiskCall(p) ==
  /\ InProgram(p)
  /\ disk_wait' = DiskTicks
  /\ interrupts' = FALSE
  /\ cr3' = Kernel
  /\ UNCHANGED << allocated, runnable, terminated, frame, asleep, tk_cur_proc_id,
                  elapsed, esp0, log_file, boot, machine_halted >>

\* The loop of sleep() finds the counter where it was, or that of halt() goes round.
Poll ==
  /\ disk_wait > 0 \/ machine_halted
  /\ UNCHANGED schedulerVars

\* The kernel halts.  At boot: init's file cannot be loaded.  Later: a spawn finds no slot
\* free in the process table, any call no page left in what the kernel maps (the pages are
\* counted in ProcessMemory), or the program raises an exception.
Halt ==
  /\ ~machine_halted
  /\ \/ boot = "main"
     \/ \E p \in Users : InProgram(p)
  /\ machine_halted' = TRUE
  /\ UNCHANGED running

\* flush_streams that serves a spawn request without the disk: procInitUser, where there
\* is a slot, and procStart by a process only makes the new one runnable.
SpawnCall(p) ==
  /\ InProgram(p)
  /\ ~log_file
  /\ \E q \in Procs :
       /\ FreeSlot(q)
       /\ allocated' = allocated \cup {q}
       /\ runnable' = runnable \cup {q}
       /\ frame' = [frame EXCEPT ![q] = FreshFrame(q)]
  /\ interrupts' = TRUE
  /\ UNCHANGED << terminated, asleep, tk_cur_proc_id, elapsed, cr3, esp0, log_file,
                  disk_wait, boot, machine_halted >>

\* Mutant: interrupts stay off.
SleepCallMasked(p) ==
  /\ InProgram(p)
  /\ \E n \in 0..MaxSleep : asleep' = [asleep EXCEPT ![p] = n]
  /\ interrupts' = FALSE
  /\ cr3' = Kernel
  /\ UNCHANGED << allocated, runnable, terminated, frame, tk_cur_proc_id, elapsed,
                  esp0, log_file, disk_wait, boot, machine_halted >>

\* The sleep call: interrupts on, on the kernel's page directory.
SleepCall(p) ==
  /\ InProgram(p)
  /\ \E n \in 0..MaxSleep : asleep' = [asleep EXCEPT ![p] = n]
  /\ interrupts' = TRUE
  /\ cr3' = Kernel
  /\ UNCHANGED << allocated, runnable, terminated, frame, tk_cur_proc_id, elapsed,
                  esp0, log_file, disk_wait, boot, machine_halted >>

\* Its loop finds the target reached, and the call returns.
SleepReturn(p) ==
  /\ tk_cur_proc_id = p /\ ~machine_halted
  /\ asleep[p] = 0
  /\ asleep' = [asleep EXCEPT ![p] = Awake]
  /\ cr3' = p
  /\ UNCHANGED << allocated, runnable, terminated, frame, tk_cur_proc_id, elapsed,
                  interrupts, esp0, log_file, disk_wait, boot, machine_halted >>

\* procExit where its message does not go to the disk.  Its last call switches away
\* and leaves a frame behind, in spite of the active_stack_addr it has just cleared.
\* init never exits.
ExitCall(p) ==
  /\ InProgram(p)
  /\ ~log_file
  /\ p # FirstUser
  /\ runnable' = runnable \ {p}
  /\ terminated' = terminated \cup {p}
  /\ CheckContextSwitch(elapsed, runnable \ {p}, terminated \cup {p}, IrqFrame(Kernel))
  /\ UNCHANGED << allocated, asleep, log_file, disk_wait, boot, machine_halted >>

SchedulerNext ==
  \/ Tick \/ IRQ(0) \/ IRQOnUserStack
  \/ BootInitUser \/ BootStart \/ BootJump \/ BootEnter
  \/ Poll \/ Halt
  \/ \E p \in Users :
       \/ Syscall(p) \/ DiskCall(p) \/ SpawnCall(p)
       \/ SleepCall(p) \/ SleepReturn(p) \/ ExitCall(p)

\* The timer ticks, the kernel goes on booting, and a sleeper that gets the CPU again
\* and again gets round to the test of its loop (a quantum is 16 ticks).
KernelFairness ==
  /\ WF_schedulerVars(Tick)
  /\ WF_schedulerVars(BootInitUser) /\ WF_schedulerVars(BootStart)
  /\ WF_schedulerVars(BootJump) /\ WF_schedulerVars(BootEnter)
  /\ \A p \in Users : SF_schedulerVars(SleepReturn(p))

\* Programs that were given the CPU with interrupts off make a call, some day.
ProgramFairness == \A p \in Users : WF_schedulerVars(~interrupts /\ Syscall(p))

SchedulerSpec ==
  SchedulerInit /\ [][SchedulerNext]_schedulerVars /\ KernelFairness /\ ProgramFairness

-----------------------------------------------------------------------------
Frames == [interrupts : BOOLEAN, cr3 : Procs]

TypeOK ==
  /\ allocated \subseteq Procs
  /\ runnable \subseteq Users
  /\ terminated \subseteq Users
  /\ frame \in [Procs -> Frames \cup {NoStack}]
  /\ asleep \in [Procs -> 0..MaxSleep \cup {Awake}]
  /\ tk_cur_proc_id \in Procs
  /\ elapsed \in 0..(Quantum + 1)
  /\ interrupts \in BOOLEAN
  /\ cr3 \in Procs
  /\ esp0 \in Users \cup {NoProc}
  /\ log_file \in BOOLEAN
  /\ disk_wait \in 0..DiskTicks
  /\ boot \in {"main", "start", "jump", "done"}
  /\ machine_halted \in BOOLEAN

\* The current process is in its program, not inside a call or still to be entered.
InUserCode == boot = "done" /\ asleep[tk_cur_proc_id] = Awake /\ disk_wait = 0

\* After any number of switches in programs and inside the sleep call, the CPU runs
\* a process on its own page directory (the kernel's, in a call and on the way into init)
\* and enters the kernel on that process's stack.
RunsInItsOwnContext ==
  tk_cur_proc_id # Kernel =>
    /\ esp0 = tk_cur_proc_id
    /\ cr3 = IF InUserCode THEN tk_cur_proc_id ELSE Kernel

\* Whatever procCheckContextSwitch may pick has a frame that puts it back where it
\* was: no runnable process is forgotten or resumed on somebody else's memory.
WaitingProcessResumable ==
  \A p \in runnable \ {tk_cur_proc_id} :
    /\ p \in allocated
    /\ frame[p] # NoStack
    /\ frame[p].cr3 = IF asleep[p] = Awake THEN p ELSE Kernel

\* A process that exited never gets the CPU back, although a frame is saved for it.
ExitedNeverRuns == tk_cur_proc_id \notin terminated

\* A call waits for the disk with interrupts off.
Hung == tk_cur_proc_id # Kernel /\ disk_wait > 0

\* Nothing else happens, as the next properties grant.
Stopped == Hung \/ machine_halted

\* "Context switches constant at 60hz": a process does not keep the CPU while
\* another one can run.
Preempted ==
  \A p \in Users :
    (tk_cur_proc_id = p /\ runnable \ {p} # {}) ~> (tk_cur_proc_id # p \/ Stopped)

\* Every runnable process runs, whatever the others do, as long as none of them brings
\* the whole machine to a stop.
NoStarvation ==
  \A p \in Users :
    (p \in runnable) ~> (tk_cur_proc_id = p \/ p \in terminated \/ Stopped)

\* The sleep call returns although its process is switched away from inside it.
SleepEnds == \A p \in Users : (asleep[p] # Awake) ~> (asleep[p] = Awake \/ Stopped)

\* At boot the kernel waits for the disk with interrupts on, so that the ticks its driver
\* counts arrive and init is entered, unless the kernel halts or a tick comes when it is on
\* init's stack already.
BootEnds == <>(boot = "done" \/ machine_halted)

\* "Henceforth all kprintf statements will go to the log file": a call that has
\* something to print gets it printed, and returns.
LoggedCallReturns == (log_file /\ Hung) ~> ~Hung
=============================================================================
