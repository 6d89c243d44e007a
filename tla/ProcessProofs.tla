----------------------------- MODULE ProcessProofs -----------------------------
(****************************************************************************)
(* Proofs about processes for any number of slots: what runs (Scheduler),   *)
(* for every length of a quantum and of waits, and what is mapped           *)
(* (ProcessMemory), for every layout the assumptions allow and every set of *)
(* programs.                                                                *)
(*                                                                          *)
(* The invariant of what runs adds to its three properties what makes them  *)
(* last: before init is entered there is nobody else to pick, afterwards    *)
(* init may always be picked, so that who exits is always replaced; only    *)
(* who may run sleeps; and a call that waits for the disk keeps interrupts  *)
(* off.                                                                     *)
(*                                                                          *)
(* Whatever an operation maps, it maps where nothing was mapped before      *)
(* (Grows), the window of the loader aside, and a user process is given     *)
(* pages nobody else was given (Owns).  That the final page number is       *)
(* within the kernel's identity map, without which the kernel halts, is     *)
(* what keeps a heap below the window.                                      *)
(****************************************************************************)
EXTENDS Scheduler, ProcessMemory, CommonLemmas, FiniteSetTheorems, SequenceTheorems, TLAPS

(* What runs.                                                               *)

\* Boot: the kernel runs on its own directory and nobody may be picked; then init is
\* current, nobody else may be picked and nothing is waited for.
BootingAlone ==
  /\ boot = "main" <=> tk_cur_proc_id = Kernel
  /\ boot = "main" => runnable = {} /\ terminated = {} /\ cr3 = Kernel
  /\ boot \in {"start", "jump"} =>
       /\ tk_cur_proc_id = FirstUser /\ runnable = {FirstUser}
       /\ asleep[FirstUser] = Awake /\ disk_wait = 0

\* Afterwards the current process and init may run.
InitMayRun == tk_cur_proc_id # Kernel => {tk_cur_proc_id, FirstUser} \subseteq runnable

\* The kernel has its slot; who may run was created and has not exited; nobody else sleeps
\* or has exited.
FlagsAgree ==
  /\ Kernel \in allocated
  /\ runnable \subseteq allocated
  /\ terminated \subseteq allocated
  /\ runnable \cap terminated = {}
  /\ \A p \in Procs : asleep[p] # Awake => p \in runnable

\* A call that waits for the disk is in nobody's sleep and has interrupts off.
WaitIsMasked ==
  tk_cur_proc_id # Kernel /\ disk_wait > 0 => ~interrupts /\ asleep[tk_cur_proc_id] = Awake

SchedulerInv ==
  /\ TypeOK
  /\ RunsInItsOwnContext
  /\ WaitingProcessResumable
  /\ BootingAlone
  /\ InitMayRun
  /\ FlagsAgree
  /\ WaitIsMasked

-----------------------------------------------------------------------------
LEMMA SchedulerConstants ==
  /\ MAX_PROCESSES \in Nat /\ MAX_PROCESSES >= 2
  /\ Quantum \in Nat /\ MaxSleep \in Nat /\ DiskTicks \in Nat
  /\ Kernel \in Procs /\ FirstUser \in Users /\ Kernel \notin Users
BY SchedulerAssumption, ProcessesAssumption DEF Kernel, FirstUser, Users, Procs

\* The scan stays within the table.
LEMMA ScannedInTable ==
  ASSUME NEW cur \in Procs, NEW i \in 0..(MAX_PROCESSES - 2)
  PROVE  Scanned(cur, i) \in Procs
BY SchedulerConstants DEF Scanned, Procs

\* The scan comes past init, from anybody but init.
LEMMA ScanFindsInit ==
  ASSUME NEW cur \in Users, cur # FirstUser
  PROVE  \E i \in 0..(MAX_PROCESSES - 2) : Scanned(cur, i) = FirstUser
<1>1. MAX_PROCESSES + 1 - cur \in 0..(MAX_PROCESSES - 2)
  BY SchedulerConstants DEF Users, Procs, Kernel, FirstUser
<1>2. (cur + (MAX_PROCESSES + 1 - cur)) % MAX_PROCESSES = 1
  BY SchedulerConstants DEF Users, Procs
<1> QED BY <1>1, <1>2 DEF Scanned, FirstUser

\* What NextProc returns passed the test, unless it is the current process; and it is
\* not the current process if any slot of the scan passes.
LEMMA NextProcPasses ==
  ASSUME NEW cur \in Procs, NEW ready
  PROVE  /\ \/ NextProc(cur, ready) = cur
            \/ /\ NextProc(cur, ready) \in Procs
               /\ CanSwitchTo(NextProc(cur, ready), cur, ready)
         /\ (\E i \in 0..(MAX_PROCESSES - 2) : CanSwitchTo(Scanned(cur, i), cur, ready))
              => NextProc(cur, ready) # cur
<1> DEFINE found ==
      {i \in 0..(MAX_PROCESSES - 2) : CanSwitchTo(Scanned(cur, i), cur, ready)}
           least == CHOOSE i \in found : \A j \in found : i <= j
<1>1. CASE found = {}
  BY <1>1 DEF NextProc
<1>2. CASE found # {}
  <2>1. found \in SUBSET Nat
    BY SchedulerConstants
  <2>2. \E i \in found : \A j \in found : i <= j
    BY <2>1, <1>2, LeastOfSet
  <2>3. least \in found
    BY <2>2
  <2>4. NextProc(cur, ready) = Scanned(cur, least)
    BY <1>2 DEF NextProc
  <2>5. CanSwitchTo(Scanned(cur, least), cur, ready) /\ Scanned(cur, least) \in Procs
    BY <2>3, ScannedInTable
  <2> QED BY <2>4, <2>5 DEF CanSwitchTo
<1> QED BY <1>1, <1>2

-----------------------------------------------------------------------------
LEMMA SchedulerInitInvariant == SchedulerInit => SchedulerInv
<1> SUFFICES ASSUME SchedulerInit PROVE SchedulerInv
  OBVIOUS
<1>1. TypeOK
  <2>1. {Kernel} \subseteq Procs /\ DiskTicks \in 0..DiskTicks
    BY SchedulerConstants
  <2> QED BY <2>1 DEF SchedulerInit, TypeOK
<1>2. RunsInItsOwnContext /\ WaitingProcessResumable /\ InitMayRun /\ WaitIsMasked
  BY DEF SchedulerInit, RunsInItsOwnContext, WaitingProcessResumable, InitMayRun, WaitIsMasked
<1>3. BootingAlone /\ FlagsAgree
  BY DEF SchedulerInit, BootingAlone, FlagsAgree
<1> QED BY <1>1, <1>2, <1>3 DEF SchedulerInv

\* A wait counted down is as much of one as before; nobody falls asleep or wakes.
LEMMA WaitsCountDown ==
  ASSUME TypeOK, NEW ticks \in {0, 1},
         asleep' = [p \in Procs |->
                      IF asleep[p] = Awake THEN Awake ELSE After(asleep[p], ticks)],
         disk_wait' = After(disk_wait, ticks)
  PROVE  /\ asleep' \in [Procs -> 0..MaxSleep \cup {Awake}]
         /\ \A p \in Procs : asleep'[p] = Awake <=> asleep[p] = Awake
         /\ disk_wait' \in 0..DiskTicks
         /\ disk_wait = 0 => disk_wait' = 0
         /\ disk_wait' > 0 => disk_wait > 0
<1>1. /\ asleep \in [Procs -> 0..MaxSleep \cup {Awake}]
      /\ disk_wait \in 0..DiskTicks
  BY DEF TypeOK
<1>2. \A p \in Procs : asleep[p] \in 0..MaxSleep \cup {Awake}
  BY <1>1
<1>3. \A n \in 0..MaxSleep : After(n, ticks) \in 0..MaxSleep /\ After(n, ticks) # Awake
  BY SchedulerConstants DEF After, Awake
<1>4. \A p \in Procs :
        asleep'[p] = IF asleep[p] = Awake THEN Awake ELSE After(asleep[p], ticks)
  OBVIOUS
<1>5. disk_wait' \in 0..DiskTicks /\ (disk_wait = 0 => disk_wait' = 0)
      /\ (disk_wait' > 0 => disk_wait > 0)
  BY <1>1, SchedulerConstants DEF After
<1> QED BY <1>2, <1>3, <1>4, <1>5

\* The interrupt of a process that goes on afterwards.
LEMMA IRQStays ==
  ASSUME SchedulerInv, NEW ticks \in {0, 1}, IRQ(ticks),
         UNCHANGED << frame, tk_cur_proc_id, esp0, cr3 >>,
         interrupts' = TRUE, elapsed' \in 0..(Quantum + 1)
  PROVE  SchedulerInv'
<1>1. /\ asleep' \in [Procs -> 0..MaxSleep \cup {Awake}]
      /\ \A p \in Procs : asleep'[p] = Awake <=> asleep[p] = Awake
      /\ disk_wait' \in 0..DiskTicks
      /\ disk_wait = 0 => disk_wait' = 0
      /\ disk_wait' > 0 => disk_wait > 0
  BY WaitsCountDown DEF SchedulerInv, IRQ
<1>2. interrupts /\ UNCHANGED << allocated, runnable, terminated, log_file, boot, machine_halted >>
  BY DEF IRQ
<1>3. tk_cur_proc_id # Kernel => disk_wait = 0 /\ disk_wait' = 0
  BY <1>1, <1>2, SchedulerConstants DEF SchedulerInv, TypeOK, WaitIsMasked
<1>4. TypeOK'
  BY <1>1, <1>2 DEF SchedulerInv, TypeOK
<1>5. RunsInItsOwnContext'
  BY <1>1, <1>2, <1>3 DEF SchedulerInv, TypeOK, RunsInItsOwnContext, InUserCode
<1>6. WaitingProcessResumable'
  BY <1>1, <1>2 DEF SchedulerInv, TypeOK, WaitingProcessResumable, Users
<1>7. BootingAlone' /\ InitMayRun' /\ FlagsAgree'
  BY <1>1, <1>2, SchedulerConstants
  DEF SchedulerInv, BootingAlone, InitMayRun, FlagsAgree, Users
<1>8. WaitIsMasked'
  BY <1>3 DEF WaitIsMasked
<1> QED BY <1>4, <1>5, <1>6, <1>7, <1>8 DEF SchedulerInv

\* The interrupt after which another process goes on.
LEMMA IRQSwitches ==
  ASSUME SchedulerInv, NEW ticks \in {0, 1}, IRQ(ticks), NEW next \in Procs,
         CanSwitchTo(next, tk_cur_proc_id, runnable), SwitchTo(next, IrqFrame(cr3))
  PROVE  SchedulerInv'
<1>1. /\ asleep' \in [Procs -> 0..MaxSleep \cup {Awake}]
      /\ \A p \in Procs : asleep'[p] = Awake <=> asleep[p] = Awake
      /\ disk_wait' \in 0..DiskTicks
      /\ disk_wait = 0 => disk_wait' = 0
      /\ disk_wait' > 0 => disk_wait > 0
  BY WaitsCountDown DEF SchedulerInv, IRQ
<1>2. interrupts /\ UNCHANGED << allocated, runnable, terminated, log_file, boot, machine_halted >>
  BY DEF IRQ
<1>3. /\ next \in runnable \ {tk_cur_proc_id} /\ next \in Users
      /\ tk_cur_proc_id # Kernel /\ boot = "done"
  BY SchedulerConstants DEF CanSwitchTo, SchedulerInv, TypeOK, BootingAlone, Users
<1>4. /\ disk_wait = 0 /\ disk_wait' = 0
      /\ tk_cur_proc_id \in Procs
      /\ cr3 = IF asleep[tk_cur_proc_id] = Awake THEN tk_cur_proc_id ELSE Kernel
  BY <1>1, <1>2, <1>3, SchedulerConstants
  DEF SchedulerInv, TypeOK, WaitIsMasked, RunsInItsOwnContext, InUserCode
<1>5. /\ frame[next] \in Frames
      /\ frame[next].cr3 = IF asleep[next] = Awake THEN next ELSE Kernel
  BY <1>3 DEF SchedulerInv, TypeOK, WaitingProcessResumable
<1>6. /\ frame' = [frame EXCEPT ![tk_cur_proc_id] = IrqFrame(cr3)]
      /\ tk_cur_proc_id' = next /\ esp0' = next /\ elapsed' = 0
      /\ cr3' = frame[next].cr3 /\ interrupts' = frame[next].interrupts
  BY DEF SwitchTo
<1>7. IrqFrame(cr3) \in Frames /\ IrqFrame(cr3).cr3 = cr3 /\ IrqFrame(cr3) # NoStack
  BY SchedulerConstants DEF SchedulerInv, TypeOK, IrqFrame, Frames, NoStack, NoProc, Procs
<1>8. TypeOK'
  BY <1>1, <1>2, <1>3, <1>5, <1>6, <1>7, SchedulerConstants DEF SchedulerInv, TypeOK, Frames
<1>9. RunsInItsOwnContext'
  BY <1>1, <1>2, <1>3, <1>4, <1>5, <1>6 DEF RunsInItsOwnContext, InUserCode
<1>10. WaitingProcessResumable'
  <2> SUFFICES ASSUME NEW p \in runnable, p # next
               PROVE  /\ p \in allocated
                      /\ frame'[p] # NoStack
                      /\ frame'[p].cr3 = IF asleep'[p] = Awake THEN p ELSE Kernel
    BY <1>2, <1>6 DEF WaitingProcessResumable
  <2>1. p \in Procs /\ p \in allocated /\ frame \in [Procs -> Frames \cup {NoStack}]
    BY DEF SchedulerInv, TypeOK, FlagsAgree, Users
  <2>2. CASE p = tk_cur_proc_id
    BY <2>1, <2>2, <1>1, <1>4, <1>6, <1>7
  <2>3. CASE p # tk_cur_proc_id
    BY <2>1, <2>3, <1>1, <1>6 DEF SchedulerInv, WaitingProcessResumable
  <2> QED BY <2>2, <2>3
<1>11. BootingAlone' /\ InitMayRun' /\ FlagsAgree'
  BY <1>1, <1>2, <1>3, <1>6, SchedulerConstants
  DEF SchedulerInv, BootingAlone, InitMayRun, FlagsAgree, Users
<1>12. WaitIsMasked'
  BY <1>4 DEF WaitIsMasked
<1> QED BY <1>8, <1>9, <1>10, <1>11, <1>12 DEF SchedulerInv

\* Tick and the other interrupts.
LEMMA IRQKeepsInvariant ==
  ASSUME SchedulerInv, NEW ticks \in {0, 1}, IRQ(ticks)
  PROVE  SchedulerInv'
<1> DEFINE next == NextProc(tk_cur_proc_id, runnable)
           later == AtMost(elapsed + ticks, Quantum + 1)
<1>1. tk_cur_proc_id \in Procs /\ later \in 0..(Quantum + 1)
  BY SchedulerConstants DEF SchedulerInv, TypeOK, AtMost
<1>2. CheckContextSwitch(later, runnable, terminated, IrqFrame(cr3))
  BY DEF IRQ
<1>3. \/ next # tk_cur_proc_id /\ SwitchTo(next, IrqFrame(cr3))
      \/ /\ elapsed' = later /\ interrupts' = TRUE
         /\ UNCHANGED << frame, tk_cur_proc_id, esp0, cr3 >>
  BY <1>2 DEF CheckContextSwitch
<1>4. CASE next # tk_cur_proc_id /\ SwitchTo(next, IrqFrame(cr3))
  <2>1. next \in Procs /\ CanSwitchTo(next, tk_cur_proc_id, runnable)
    BY <1>1, <1>4, NextProcPasses
  <2> QED BY <2>1, <1>4, IRQSwitches
<1>5. CASE /\ elapsed' = later /\ interrupts' = TRUE
           /\ UNCHANGED << frame, tk_cur_proc_id, esp0, cr3 >>
  BY <1>1, <1>5, IRQStays
<1> QED BY <1>3, <1>4, <1>5

-----------------------------------------------------------------------------
\* Boot: init is created, made current and entered.
LEMMA BootKeepsInvariant ==
  ASSUME SchedulerInv, BootInitUser \/ BootStart \/ BootJump \/ BootEnter
  PROVE  SchedulerInv'
<1>1. FirstUser \in Procs /\ FreshFrame(FirstUser) \in Frames
      /\ IrqFrame(Kernel) \in Frames /\ Kernel # FirstUser
  BY SchedulerConstants DEF FreshFrame, IrqFrame, Frames, Users, Kernel, FirstUser
<1>3. CASE BootInitUser
  <2>1. TypeOK'
    BY <1>1, <1>3, SchedulerConstants DEF SchedulerInv, TypeOK, BootInitUser
  <2>2. RunsInItsOwnContext' /\ WaitingProcessResumable' /\ WaitIsMasked'
    BY <1>3 DEF SchedulerInv, BootInitUser, RunsInItsOwnContext, WaitingProcessResumable,
                WaitIsMasked, BootingAlone
  <2>3. BootingAlone' /\ InitMayRun' /\ FlagsAgree'
    BY <1>3 DEF SchedulerInv, BootInitUser, BootingAlone, InitMayRun, FlagsAgree
  <2> QED BY <2>1, <2>2, <2>3 DEF SchedulerInv
<1>4. CASE BootStart
  <2>1. runnable = {} /\ terminated = {} /\ cr3 = Kernel /\ tk_cur_proc_id = Kernel
    BY <1>4 DEF SchedulerInv, BootingAlone, BootStart
  <2>2. asleep[FirstUser] = Awake
    BY <2>1, <1>1 DEF SchedulerInv, FlagsAgree
  <2>3. TypeOK'
    <3>1. elapsed' \in 0..(Quantum + 1)
      BY <1>4, SchedulerConstants DEF BootStart
    <3>2. runnable' \subseteq Users /\ tk_cur_proc_id' \in Procs /\ esp0' \in Users
      BY <1>1, <1>4, SchedulerConstants DEF SchedulerInv, TypeOK, BootStart
    <3> QED BY <3>1, <3>2, <1>4 DEF SchedulerInv, TypeOK, BootStart
  <2>4. RunsInItsOwnContext' /\ WaitingProcessResumable' /\ WaitIsMasked'
    BY <1>1, <1>4, <2>1 DEF BootStart, RunsInItsOwnContext, WaitingProcessResumable,
                            WaitIsMasked, InUserCode
  <2>5. BootingAlone' /\ InitMayRun' /\ FlagsAgree'
    BY <1>1, <1>4, <2>1, <2>2 DEF SchedulerInv, BootStart, BootingAlone, InitMayRun, FlagsAgree
  <2> QED BY <2>3, <2>4, <2>5 DEF SchedulerInv
<1>5. CASE BootJump
  <2>1. TypeOK'
    BY <1>1, <1>5, SchedulerConstants DEF SchedulerInv, TypeOK, BootJump
  <2>2. RunsInItsOwnContext' /\ WaitIsMasked'
    BY <1>5 DEF SchedulerInv, BootJump, RunsInItsOwnContext, WaitIsMasked, InUserCode
  <2>3. WaitingProcessResumable'
    BY <1>5 DEF SchedulerInv, BootJump, WaitingProcessResumable, BootingAlone
  <2>4. BootingAlone' /\ InitMayRun' /\ FlagsAgree'
    BY <1>1, <1>5 DEF SchedulerInv, BootJump, BootingAlone, InitMayRun, FlagsAgree
  <2> QED BY <2>1, <2>2, <2>3, <2>4 DEF SchedulerInv
<1>6. CASE BootEnter
  <2>1. TypeOK'
    BY <1>1, <1>6 DEF SchedulerInv, TypeOK, BootEnter
  <2>2. RunsInItsOwnContext' /\ WaitIsMasked'
    BY <1>1, <1>6 DEF SchedulerInv, BootEnter, BootingAlone, RunsInItsOwnContext, WaitIsMasked,
                      InUserCode
  <2>3. WaitingProcessResumable'
    BY <1>6 DEF SchedulerInv, BootEnter, WaitingProcessResumable
  <2>4. BootingAlone' /\ InitMayRun' /\ FlagsAgree'
    BY <1>1, <1>6 DEF SchedulerInv, BootEnter, BootingAlone, InitMayRun, FlagsAgree
  <2> QED BY <2>1, <2>2, <2>3, <2>4 DEF SchedulerInv
<1> QED BY <1>3, <1>4, <1>5, <1>6

\* Calls that do not end the process: everything but exit.
LEMMA CallKeepsInvariant ==
  ASSUME SchedulerInv, NEW p \in Users,
         Syscall(p) \/ DiskCall(p) \/ SpawnCall(p) \/ SleepCall(p) \/ SleepReturn(p)
  PROVE  SchedulerInv'
<1>1. tk_cur_proc_id = p /\ p \in runnable /\ p # Kernel /\ p \in Procs /\ Kernel \in Procs
  BY SchedulerConstants
  DEF SchedulerInv, InitMayRun, Users, Syscall, DiskCall, SpawnCall, SleepCall, SleepReturn,
      InProgram
<1>2. CASE Syscall(p)
  BY <1>1, <1>2
  DEF SchedulerInv, TypeOK, Syscall, InProgram, RunsInItsOwnContext, InUserCode,
      WaitingProcessResumable, BootingAlone, InitMayRun, FlagsAgree, WaitIsMasked
<1>3. CASE DiskCall(p)
  <2>1. TypeOK'
    <3>1. disk_wait' \in 0..DiskTicks /\ cr3' \in Procs
      BY <1>1, <1>3, SchedulerConstants DEF DiskCall
    <3>2. interrupts' \in BOOLEAN
      BY <1>3 DEF DiskCall
    <3> QED BY <3>1, <3>2, <1>3 DEF SchedulerInv, TypeOK, DiskCall
  <2>2. RunsInItsOwnContext' /\ WaitIsMasked'
    BY <1>1, <1>3, SchedulerAssumption
    DEF SchedulerInv, DiskCall, InProgram, RunsInItsOwnContext, InUserCode, WaitIsMasked
  <2>3. WaitingProcessResumable' /\ BootingAlone' /\ InitMayRun' /\ FlagsAgree'
    BY <1>1, <1>3
    DEF SchedulerInv, DiskCall, InProgram, WaitingProcessResumable, BootingAlone, InitMayRun, FlagsAgree
  <2> QED BY <2>1, <2>2, <2>3 DEF SchedulerInv
<1>4. CASE SpawnCall(p)
  <2>1. PICK q \in Procs :
          /\ q \notin allocated
          /\ allocated' = allocated \cup {q}
          /\ runnable' = runnable \cup {q}
          /\ frame' = [frame EXCEPT ![q] = FreshFrame(q)]
    BY <1>4 DEF SpawnCall, FreeSlot
  <2>2. /\ interrupts' = TRUE
        /\ UNCHANGED << terminated, asleep, tk_cur_proc_id, elapsed, cr3, esp0, log_file,
                        disk_wait, boot, machine_halted >>
        /\ asleep[p] = Awake /\ disk_wait = 0 /\ boot = "done"
    BY <1>4 DEF SpawnCall, InProgram
  <2>3. /\ q \in Users /\ q \notin runnable /\ q \notin terminated
        /\ asleep[q] = Awake
        /\ FreshFrame(q) \in Frames /\ FreshFrame(q) # NoStack /\ FreshFrame(q).cr3 = q
    <3>1. q # Kernel
      BY <2>1 DEF SchedulerInv, FlagsAgree
    <3> QED BY <3>1, <2>1 DEF SchedulerInv, FlagsAgree, Users, FreshFrame, Frames, NoStack, NoProc,
                              Procs
  <2>4. TypeOK'
    BY <2>1, <2>2, <2>3 DEF SchedulerInv, TypeOK
  <2>5. RunsInItsOwnContext' /\ WaitIsMasked'
    BY <2>2 DEF SchedulerInv, RunsInItsOwnContext, InUserCode, WaitIsMasked
  <2>6. WaitingProcessResumable'
    BY <2>1, <2>2, <2>3 DEF SchedulerInv, TypeOK, WaitingProcessResumable, Users
  <2>7. BootingAlone' /\ InitMayRun' /\ FlagsAgree'
    BY <1>1, <2>1, <2>2, <2>3 DEF SchedulerInv, BootingAlone, InitMayRun, FlagsAgree
  <2> QED BY <2>4, <2>5, <2>6, <2>7 DEF SchedulerInv
<1>5. CASE SleepCall(p)
  <2>1. PICK n \in 0..MaxSleep : asleep' = [asleep EXCEPT ![p] = n]
    BY <1>5 DEF SleepCall
  <2>2. n # Awake /\ n \in 0..MaxSleep \cup {Awake}
    BY SchedulerConstants DEF Awake
  <2>3. TypeOK'
    BY <1>1, <1>5, <2>1, <2>2 DEF SchedulerInv, TypeOK, SleepCall
  <2>4. RunsInItsOwnContext' /\ WaitIsMasked'
    BY <1>1, <1>5, <2>1, <2>2
    DEF SchedulerInv, TypeOK, SleepCall, InProgram, RunsInItsOwnContext, InUserCode, WaitIsMasked
  <2>5. WaitingProcessResumable' /\ BootingAlone' /\ InitMayRun' /\ FlagsAgree'
    BY <1>1, <1>5, <2>1, <2>2
    DEF SchedulerInv, TypeOK, SleepCall, InProgram, WaitingProcessResumable, BootingAlone,
        InitMayRun, FlagsAgree, Users
  <2> QED BY <2>3, <2>4, <2>5 DEF SchedulerInv
<1>6. CASE SleepReturn(p)
  <2>1. asleep[p] # Awake /\ asleep' = [asleep EXCEPT ![p] = Awake]
    BY <1>6 DEF SleepReturn, Awake
  <2>2. disk_wait = 0
    BY <1>1, <2>1, SchedulerConstants DEF SchedulerInv, TypeOK, WaitIsMasked
  <2>6. boot = "done"
    BY <1>1, <2>1 DEF SchedulerInv, TypeOK, BootingAlone
  <2>3. TypeOK'
    BY <1>1, <1>6, <2>1 DEF SchedulerInv, TypeOK, SleepReturn
  <2>4. RunsInItsOwnContext' /\ WaitIsMasked'
    BY <1>1, <1>6, <2>1, <2>2, <2>6
    DEF SchedulerInv, TypeOK, SleepReturn, RunsInItsOwnContext, InUserCode, WaitIsMasked
  <2>5. WaitingProcessResumable' /\ BootingAlone' /\ InitMayRun' /\ FlagsAgree'
    BY <1>1, <1>6, <2>1, <2>6
    DEF SchedulerInv, TypeOK, SleepReturn, WaitingProcessResumable, BootingAlone, InitMayRun,
        FlagsAgree, Users
  <2> QED BY <2>3, <2>4, <2>5 DEF SchedulerInv
<1> QED BY <1>2, <1>3, <1>4, <1>5, <1>6

\* Exit: init may be picked, so that somebody else goes on.
LEMMA ExitKeepsInvariant ==
  ASSUME SchedulerInv, NEW p \in Users, ExitCall(p)
  PROVE  SchedulerInv'
<1> DEFINE ready == runnable \ {p}
           next == NextProc(p, ready)
<1>1. /\ tk_cur_proc_id = p /\ p \in Procs /\ p # Kernel /\ p # FirstUser
      /\ asleep[p] = Awake /\ disk_wait = 0 /\ boot = "done"
      /\ {p, FirstUser} \subseteq runnable
  BY DEF SchedulerInv, InitMayRun, Users, ExitCall, InProgram
<1>2. CanSwitchTo(FirstUser, p, ready)
  BY <1>1, SchedulerConstants
  DEF CanSwitchTo, SchedulerInv, WaitingProcessResumable, FlagsAgree, Users
<1>3. next # p /\ next \in Procs /\ CanSwitchTo(next, p, ready)
  <2>1. \E i \in 0..(MAX_PROCESSES - 2) : CanSwitchTo(Scanned(p, i), p, ready)
    BY <1>1, <1>2, ScanFindsInit
  <2> QED BY <2>1, <1>1, NextProcPasses
<1>4. /\ SwitchTo(next, IrqFrame(Kernel))
      /\ runnable' = ready /\ terminated' = terminated \cup {p}
      /\ UNCHANGED << allocated, asleep, log_file, disk_wait, boot, machine_halted >>
  BY <1>1, <1>3 DEF ExitCall, CheckContextSwitch
<1>5. /\ frame' = [frame EXCEPT ![p] = IrqFrame(Kernel)]
      /\ tk_cur_proc_id' = next /\ esp0' = next /\ elapsed' = 0
      /\ cr3' = frame[next].cr3 /\ interrupts' = frame[next].interrupts
  BY <1>1, <1>4 DEF SwitchTo
<1>6. /\ next \in ready /\ next \in Users
      /\ frame[next] \in Frames
      /\ frame[next].cr3 = IF asleep[next] = Awake THEN next ELSE Kernel
  BY <1>1, <1>3 DEF CanSwitchTo, SchedulerInv, TypeOK, WaitingProcessResumable, Users
<1>7. IrqFrame(Kernel) \in Frames
  BY SchedulerConstants DEF IrqFrame, Frames
<1>8. TypeOK'
  <2>1. frame' \in [Procs -> Frames \cup {NoStack}] /\ elapsed' \in 0..(Quantum + 1)
    BY <1>1, <1>5, <1>7, SchedulerConstants DEF SchedulerInv, TypeOK
  <2>2. /\ runnable' \subseteq Users /\ terminated' \subseteq Users
        /\ tk_cur_proc_id' \in Procs /\ esp0' \in Users
        /\ cr3' \in Procs /\ interrupts' \in BOOLEAN
    BY <1>1, <1>3, <1>4, <1>5, <1>6 DEF SchedulerInv, TypeOK, Frames
  <2> QED BY <2>1, <2>2, <1>4 DEF SchedulerInv, TypeOK
<1>9. RunsInItsOwnContext' /\ WaitIsMasked'
  BY <1>1, <1>4, <1>5, <1>6 DEF RunsInItsOwnContext, InUserCode, WaitIsMasked
<1>10. WaitingProcessResumable'
  BY <1>1, <1>4, <1>5 DEF SchedulerInv, TypeOK, WaitingProcessResumable, Users
<1>11. BootingAlone' /\ InitMayRun' /\ FlagsAgree'
  BY <1>1, <1>4, <1>5, <1>6 DEF SchedulerInv, BootingAlone, InitMayRun, FlagsAgree, Users
<1> QED BY <1>8, <1>9, <1>10, <1>11 DEF SchedulerInv

-----------------------------------------------------------------------------
LEMMA SchedulerStepInvariant == SchedulerInv /\ [SchedulerNext]_schedulerVars => SchedulerInv'
<1> SUFFICES ASSUME SchedulerInv, [SchedulerNext]_schedulerVars PROVE SchedulerInv'
  OBVIOUS
<1>1. CASE Tick \/ IRQ(0)
  BY <1>1, IRQKeepsInvariant DEF Tick
<1>2. CASE BootInitUser \/ BootStart \/ BootJump \/ BootEnter
  BY <1>2, BootKeepsInvariant
<1>6. CASE IRQOnUserStack \/ Halt
  <2>1. UNCHANGED running /\ machine_halted' = TRUE
    BY <1>6 DEF IRQOnUserStack, Halt
  <2> QED
    BY <2>1
    DEF running, SchedulerInv, TypeOK, RunsInItsOwnContext, InUserCode, WaitingProcessResumable,
        BootingAlone, InitMayRun, FlagsAgree, WaitIsMasked
<1>3. CASE Poll \/ UNCHANGED schedulerVars
  BY <1>3
  DEF Poll, schedulerVars, SchedulerInv, TypeOK, RunsInItsOwnContext, InUserCode,
      WaitingProcessResumable, BootingAlone, InitMayRun, FlagsAgree, WaitIsMasked
<1>4. ASSUME NEW p \in Users,
             Syscall(p) \/ DiskCall(p) \/ SpawnCall(p) \/ SleepCall(p) \/ SleepReturn(p)
      PROVE  SchedulerInv'
  BY <1>4, CallKeepsInvariant
<1>5. ASSUME NEW p \in Users, ExitCall(p) PROVE SchedulerInv'
  BY <1>5, ExitKeepsInvariant
<1> QED BY <1>1, <1>2, <1>3, <1>4, <1>5, <1>6 DEF SchedulerNext

\* The inductive invariant holds for ever, whatever programs do and whenever the
\* timer ticks.
THEOREM SchedulerInvariant == SchedulerSpec => []SchedulerInv
<1> QED BY SchedulerInitInvariant, SchedulerStepInvariant, PTL DEF SchedulerSpec

\* The process table, its frames and the CPU's registers keep their types.
THEOREM SchedulerTypeCorrect == SchedulerSpec => []TypeOK
<1>1. SchedulerInv => TypeOK
  BY DEF SchedulerInv
<1> QED BY <1>1, SchedulerInvariant, PTL

\* Through any number of switches, in programs and inside sleep, a process runs on its
\* own page directory, or the kernel's in a call, and enters the kernel on its own stack.
THEOREM EachRunsInItsOwnContext == SchedulerSpec => []RunsInItsOwnContext
<1>1. SchedulerInv => RunsInItsOwnContext
  BY DEF SchedulerInv
<1> QED BY <1>1, SchedulerInvariant, PTL

\* The frame of every process that may be picked puts it back where it was.
THEOREM WaitingStayResumable == SchedulerSpec => []WaitingProcessResumable
<1>1. SchedulerInv => WaitingProcessResumable
  BY DEF SchedulerInv
<1> QED BY <1>1, SchedulerInvariant, PTL

\* Nobody who has exited has the CPU: the scan always comes past init.
THEOREM TheExitedNeverRun == SchedulerSpec => []ExitedNeverRuns
<1>1. SchedulerInv => ExitedNeverRuns
  <2> SUFFICES ASSUME SchedulerInv PROVE tk_cur_proc_id \notin terminated
    BY DEF ExitedNeverRuns
  <2>1. CASE tk_cur_proc_id = Kernel
    BY <2>1 DEF SchedulerInv, BootingAlone
  <2>2. CASE tk_cur_proc_id # Kernel
    BY <2>2 DEF SchedulerInv, InitMayRun, FlagsAgree
  <2> QED BY <2>1, <2>2
<1> QED BY <1>1, SchedulerInvariant, PTL

-----------------------------------------------------------------------------
(* What is mapped.                                                          *)

PageTables == UNION {[places -> Nat] : places \in SUBSET Nat}

Pointers == [page : Nat, slot : Nat]

PoolPages == [page : Nat, vaddr : Nat, allocated : Nat]

StreamRecords ==
  [page : Nat, read_owner : Procs, read_ptr : Pointers, read_vaddr : Nat,
   write_owner : Procs, write_ptr : Pointers, write_vaddr : Nat]

Tellings == [process : Procs, stream : Nat, vaddr : Pointers]

MemoryStates ==
  [next : Nat, map : [Procs -> PageTables], tables : SUBSET (Procs \X Nat),
   mapped_pages : [Procs -> Nat], stack_pages : [Procs -> Nat],
   stream_list : [Procs -> Seq(PoolPages)], streams : Seq(StreamRecords),
   told : SUBSET Tellings, keyboard : Procs \cup {NoProc},
   program : [Procs -> ProgramFiles], copied : SUBSET (Nat \X Procs \X Nat),
   users : SUBSET Users, started : SUBSET Users]

\* Places of an address space: a heap, and what the loader and the stack are mapped in.
InHeap(v) == HeapStart <= v /\ v < LoaderBase
InWindow(v) == LoaderBase <= v /\ v < StackStart
InStack(v) == StackStart - MaxStack <= v /\ v < StackStart

\* No user has a page that was not handed out, or, the kernel's code aside, another's.
Apart(m) ==
  /\ \A p \in Users : \A v \in DOMAIN m.map[p] : m.map[p][v] < m.next
  /\ \A p, q \in Users : p # q =>
       \A v \in DOMAIN m.map[p], w \in DOMAIN m.map[q] :
         m.map[p][v] = m.map[q][w] => m.map[p][v] \in KernelCode

\* Heaps are mapped up to their last page, and stacks from it.
HeapBelow(m) ==
  \A p \in Procs : \A v \in DOMAIN m.map[p] :
    InHeap(v) => v < HeapStart + m.mapped_pages[p]

StackAbove(m) ==
  \A p \in Users : \A v \in DOMAIN m.map[p] :
    InStack(v) => v >= StackStart - m.stack_pages[p]

\* A page is mapped at most twice in a heap.
TwicePaged(m) == \A p \in Procs : m.mapped_pages[p] <= 2 * m.next

Pages(m) == /\ m \in MemoryStates /\ FirstPage <= m.next
            /\ Apart(m) /\ HeapBelow(m) /\ StackAbove(m)

\* A page of stream pointers is where the process and the kernel look for it.
PoolAt(m, p, e) ==
  /\ e.vaddr \in DOMAIN m.map[p] /\ m.map[p][e.vaddr] = e.page
  /\ InHeap(e.vaddr)

PoolsMapped(m) ==
  \A p \in Procs : \A i \in 1..Len(m.stream_list[p]) : PoolAt(m, p, m.stream_list[p][i])

EndAt(m, p, vaddr, page) ==
  /\ vaddr \in DOMAIN m.map[p] /\ m.map[p][vaddr] = page
  /\ vaddr + 1 \in DOMAIN m.map[p] /\ m.map[p][vaddr + 1] = page
  /\ InHeap(vaddr) /\ InHeap(vaddr + 1)

RingAt(m, s) ==
  /\ EndAt(m, s.read_owner, s.read_vaddr, s.page)
  /\ EndAt(m, s.write_owner, s.write_vaddr, s.page)

RingsMapped(m) == \A i \in 1..Len(m.streams) : RingAt(m, m.streams[i])

PointerOf(s, p) == IF s.read_owner = p THEN s.read_ptr ELSE s.write_ptr

PointerAt(m, p, vaddr, ptr) ==
  /\ vaddr.page \in DOMAIN m.map[p] /\ m.map[p][vaddr.page] = ptr.page
  /\ vaddr.slot = ptr.slot /\ ~InWindow(vaddr.page)

TellingAt(m, t) ==
  /\ t.process \in Users /\ t.stream \in 1..Len(m.streams)
  /\ PointerAt(m, t.process, t.vaddr, PointerOf(m.streams[t.stream], t.process))

TellingsRight(m) == \A t \in m.told : TellingAt(m, t)

\* What the program of a process that runs needs is mapped.
SectionsAt(m, p) ==
  LET file == m.program[p]
  IN  \A i \in DOMAIN file.sections :
        /\ file.sections[i] \in DOMAIN m.map[p]
        /\ << m.map[p][file.sections[i]], p, i >> \in m.copied

SectionsMapped(m) == m.started \subseteq m.users /\ \A p \in m.started : SectionsAt(m, p)

\* Nothing is there of a process before it is created.
UnusedEmpty(m) ==
  \A p \in Users \ m.users : m.map[p] = << >> /\ m.stream_list[p] = << >>

\* Two streams a process, and one for the keyboard.
StreamsCounted(m) ==
  \E n \in 0..(MAX_PROCESSES - 1) :
    /\ m.users = 2..(n + 1)
    /\ Len(m.streams) = 2 * n + (IF m.keyboard = NoProc THEN 0 ELSE 1)

Linked(m) == PoolsMapped(m) /\ RingsMapped(m) /\ TellingsRight(m)

Consistent(m) ==
  /\ Pages(m) /\ TwicePaged(m) /\ Linked(m)
  /\ SectionsMapped(m) /\ UnusedEmpty(m) /\ StreamsCounted(m)

IInv == Consistent(mem)

-----------------------------------------------------------------------------
\* The assumptions, one by one.
LEMMA Constants ==
  /\ MAX_PROCESSES \in Nat /\ MAX_PROCESSES >= 2
  /\ MAX_STREAMS \in Nat /\ MAX_STREAMS > 2 * (MAX_PROCESSES - 1)
  /\ PerPool \in Nat /\ PerPool >= 2
  /\ TablePages \in Nat \ {0}
  /\ FirstPage \in Nat /\ IdentityPages \in Nat
  /\ \A page \in KernelCode : page \in Nat /\ page < FirstPage
  /\ HeapStart \in Nat /\ LoaderBase \in Nat /\ StackStart \in Nat \ {0} /\ SharedPage \in Nat
  /\ MaxMisses \in Nat /\ MaxStack \in Nat
  /\ Programs \subseteq ProgramFiles
BY ProcessMemoryAssumption, ProcessesAssumption

LEMMA Layout ==
  /\ IdentityPages <= HeapStart
  /\ HeapStart + 2 * IdentityPages <= LoaderBase
  /\ LoaderBase + IdentityPages <= StackStart - MaxStack
  /\ StackStart <= SharedPage
  /\ \A file \in Programs : \A i \in DOMAIN file.headers :
       file.headers[i] \in LoaderBase..(StackStart - MaxStack - 1)
BY LayoutAssumption

LEMMA KernelIsProcess ==
  /\ Kernel \in Procs /\ Kernel \notin Users /\ Users \subseteq Procs
  /\ Procs \subseteq Nat /\ NoProc \notin Procs
  /\ \A p \in Procs : p = Kernel \/ p \in Users
BY Constants DEF Kernel, Users, Procs, NoProc

LEMMA EmptyTable == << >> \in PageTables /\ DOMAIN << >> = {}
<1>1. << >> \in [{} -> Nat] /\ DOMAIN << >> = {}
  OBVIOUS
<1> QED BY <1>1 DEF PageTables

LEMMA PutTable ==
  ASSUME NEW f \in PageTables, NEW x \in Nat, NEW y \in Nat
  PROVE  /\ Put(f, x, y) \in PageTables
         /\ DOMAIN f \subseteq Nat
         /\ DOMAIN Put(f, x, y) = DOMAIN f \cup {x}
         /\ Put(f, x, y)[x] = y
         /\ \A z \in DOMAIN f : z # x => Put(f, x, y)[z] = f[z]
<1>1. PICK places \in SUBSET Nat : f \in [places -> Nat]
  BY DEF PageTables
<1>2. Put(f, x, y) \in [places \cup {x} -> Nat]
  BY <1>1 DEF Put
<1>3. places \cup {x} \in SUBSET Nat
  OBVIOUS
<1>4. Put(f, x, y) \in PageTables
  BY <1>2, <1>3 DEF PageTables
<1> QED BY <1>1, <1>4 DEF Put

LEMMA TableEntries ==
  ASSUME NEW f \in PageTables, NEW v \in DOMAIN f
  PROVE  v \in Nat /\ f[v] \in Nat
<1>1. PICK places \in SUBSET Nat : f \in [places -> Nat]
  BY DEF PageTables
<1> QED BY <1>1

\* The fields that mapping a page leaves alone.
Rest(m) ==
  << m.stack_pages, m.stream_list, m.streams, m.told, m.keyboard, m.program, m.copied,
     m.users, m.started >>

LEMMA Fields ==
  ASSUME NEW m \in MemoryStates
  PROVE  /\ m.next \in Nat /\ m.map \in [Procs -> PageTables]
         /\ m.tables \in SUBSET (Procs \X Nat)
         /\ m.mapped_pages \in [Procs -> Nat] /\ m.stack_pages \in [Procs -> Nat]
         /\ m.stream_list \in [Procs -> Seq(PoolPages)] /\ m.streams \in Seq(StreamRecords)
         /\ m.told \in SUBSET Tellings /\ m.keyboard \in Procs \cup {NoProc}
         /\ m.program \in [Procs -> ProgramFiles]
         /\ m.copied \in SUBSET (Nat \X Procs \X Nat)
         /\ m.users \in SUBSET Users /\ m.started \in SUBSET Users
BY DEF MemoryStates

LEMMA SameRest ==
  ASSUME NEW m, NEW m2, Rest(m2) = Rest(m)
  PROVE  /\ m2.stack_pages = m.stack_pages /\ m2.stream_list = m.stream_list
         /\ m2.streams = m.streams /\ m2.told = m.told /\ m2.keyboard = m.keyboard
         /\ m2.program = m.program /\ m2.copied = m.copied
         /\ m2.users = m.users /\ m2.started = m.started
BY DEF Rest

LEMMA AllocPageFields ==
  ASSUME NEW m \in MemoryStates
  PROVE  /\ AllocPage(m) \in MemoryStates
         /\ AllocPage(m).next = m.next + 1
         /\ AllocPage(m).map = m.map /\ AllocPage(m).tables = m.tables
         /\ AllocPage(m).mapped_pages = m.mapped_pages
         /\ Rest(AllocPage(m)) = Rest(m)
<1> DEFINE b == AllocPage(m)
<1>1. b = [m EXCEPT !.next = m.next + 1]
  BY DEF AllocPage
<1>2. b \in MemoryStates
  <2>1. m.next + 1 \in Nat
    BY Fields
  <2> QED BY <1>1, <2>1 DEF MemoryStates
<1>3. /\ b.next = m.next + 1 /\ b.map = m.map /\ b.tables = m.tables
      /\ b.mapped_pages = m.mapped_pages
      /\ b.stack_pages = m.stack_pages /\ b.stream_list = m.stream_list
      /\ b.streams = m.streams /\ b.told = m.told /\ b.keyboard = m.keyboard
      /\ b.program = m.program /\ b.copied = m.copied
      /\ b.users = m.users /\ b.started = m.started
  BY <1>1 DEF MemoryStates
<1> HIDE DEF b
<1>4. Rest(b) = Rest(m)
  BY <1>3 DEF Rest
<1> QED BY <1>2, <1>3, <1>4 DEF b

LEMMA WithTableFields ==
  ASSUME NEW m \in MemoryStates, NEW p \in Procs, NEW part \in Nat
  PROVE  /\ WithTable(m, p, part) \in MemoryStates
         /\ WithTable(m, p, part).next \in {m.next, m.next + 1}
         /\ WithTable(m, p, part).map = m.map
         /\ WithTable(m, p, part).mapped_pages = m.mapped_pages
         /\ Rest(WithTable(m, p, part)) = Rest(m)
<1>1. CASE << p, part >> \in m.tables
  BY <1>1, Fields DEF WithTable
<1>2. CASE << p, part >> \notin m.tables
  <2> DEFINE a == AllocPage(m)
  <2>1. /\ a \in MemoryStates /\ a.next = m.next + 1 /\ a.map = m.map
        /\ a.mapped_pages = m.mapped_pages /\ Rest(a) = Rest(m)
    BY AllocPageFields
  <2> HIDE DEF a
  <2>2. WithTable(m, p, part) = [a EXCEPT !.tables = a.tables \cup {<< p, part >>}]
    BY <1>2 DEF WithTable, a
  <2>3. << p, part >> \in Procs \X Nat
    OBVIOUS
  <2>4. [a EXCEPT !.tables = a.tables \cup {<< p, part >>}] \in MemoryStates
    BY <2>1, <2>3 DEF MemoryStates
  <2> QED BY <2>1, <2>2, <2>4 DEF MemoryStates, Rest
<1> QED BY <1>1, <1>2

LEMMA MapPageFields ==
  ASSUME NEW m \in MemoryStates, NEW p \in Procs, NEW src \in Nat, NEW dest \in Nat
  PROVE  /\ MapPage(m, p, src, dest) \in MemoryStates
         /\ MapPage(m, p, src, dest).next \in {m.next, m.next + 1}
         /\ MapPage(m, p, src, dest).map = [m.map EXCEPT ![p] = Put(m.map[p], src, dest)]
         /\ MapPage(m, p, src, dest).mapped_pages = m.mapped_pages
         /\ Rest(MapPage(m, p, src, dest)) = Rest(m)
<1> DEFINE a == WithTable(m, p, src \div TablePages)
<1>1. src \div TablePages \in Nat
  BY Constants
<1>2. /\ a \in MemoryStates /\ a.next \in {m.next, m.next + 1} /\ a.map = m.map
      /\ a.mapped_pages = m.mapped_pages /\ Rest(a) = Rest(m)
  <2> HIDE DEF a
  <2> QED BY <1>1, WithTableFields DEF a
<1> HIDE DEF a
<1> DEFINE b == MapPage(m, p, src, dest)
<1>3. b = [a EXCEPT !.map[p] = Put(a.map[p], src, dest)]
  BY DEF MapPage, a
<1>4. Put(m.map[p], src, dest) \in PageTables
  BY Fields, PutTable
<1> HIDE DEF b
<1>5. b \in MemoryStates
  BY <1>2, <1>3, <1>4 DEF MemoryStates
<1>6. /\ b.next = a.next /\ b.map = [a.map EXCEPT ![p] = Put(a.map[p], src, dest)]
      /\ b.mapped_pages = a.mapped_pages
      /\ b.stack_pages = a.stack_pages /\ b.stream_list = a.stream_list
      /\ b.streams = a.streams /\ b.told = a.told /\ b.keyboard = a.keyboard
      /\ b.program = a.program /\ b.copied = a.copied
      /\ b.users = a.users /\ b.started = a.started
  BY <1>2, <1>3 DEF MemoryStates
<1>7. Rest(b) = Rest(m)
  BY <1>2, <1>6 DEF Rest
<1> QED BY <1>2, <1>5, <1>6, <1>7 DEF b

LEMMA MapHeapPageFields ==
  ASSUME NEW m \in MemoryStates, NEW p \in Procs, NEW dest \in Nat
  PROVE  /\ MapHeapPage(m, p, dest) \in MemoryStates
         /\ MapHeapPage(m, p, dest).next \in {m.next, m.next + 1}
         /\ HeapAddress(m, p) \in Nat
         /\ MapHeapPage(m, p, dest).map =
              [m.map EXCEPT ![p] = Put(m.map[p], HeapAddress(m, p), dest)]
         /\ MapHeapPage(m, p, dest).mapped_pages =
              [m.mapped_pages EXCEPT ![p] = m.mapped_pages[p] + 1]
         /\ Rest(MapHeapPage(m, p, dest)) = Rest(m)
<1> DEFINE a == MapPage(m, p, HeapAddress(m, p), dest)
<1>1. HeapAddress(m, p) \in Nat
  BY Fields, Constants DEF HeapAddress
<1>2. /\ a \in MemoryStates /\ a.next \in {m.next, m.next + 1}
      /\ a.map = [m.map EXCEPT ![p] = Put(m.map[p], HeapAddress(m, p), dest)]
      /\ a.mapped_pages = m.mapped_pages /\ Rest(a) = Rest(m)
  BY <1>1, MapPageFields
<1> HIDE DEF a
<1> DEFINE b == MapHeapPage(m, p, dest)
<1>3. b = [a EXCEPT !.mapped_pages[p] = a.mapped_pages[p] + 1]
  BY DEF MapHeapPage, a
<1>4. m.mapped_pages[p] + 1 \in Nat
  BY Fields
<1> HIDE DEF b
<1>5. b \in MemoryStates
  BY <1>2, <1>3, <1>4 DEF MemoryStates
<1>6. /\ b.next = a.next /\ b.map = a.map
      /\ b.mapped_pages = [a.mapped_pages EXCEPT ![p] = a.mapped_pages[p] + 1]
      /\ b.stack_pages = a.stack_pages /\ b.stream_list = a.stream_list
      /\ b.streams = a.streams /\ b.told = a.told /\ b.keyboard = a.keyboard
      /\ b.program = a.program /\ b.copied = a.copied
      /\ b.users = a.users /\ b.started = a.started
  BY <1>2, <1>3 DEF MemoryStates
<1>7. Rest(b) = Rest(m)
  BY <1>2, <1>6 DEF Rest
<1> QED BY <1>1, <1>2, <1>5, <1>6, <1>7 DEF b

-----------------------------------------------------------------------------
\* What an operation leaves in place.  In the address space of the kernel, and of the
\* process being loaded, the loader maps what it likes in its part.
Grows(m, m2, p) ==
  /\ m.next <= m2.next
  /\ \A q \in Procs : \A v \in DOMAIN m.map[q] :
       ~(q \in {Kernel, p} /\ InWindow(v)) =>
         v \in DOMAIN m2.map[q] /\ m2.map[q][v] = m.map[q][v]

OthersSame(m, m2, p) == \A q \in Procs \ {Kernel, p} : m2.map[q] = m.map[q]

\* Nobody but u has the page, which was handed out.
Owns(m, u, page) ==
  /\ page \in Nat /\ page < m.next
  /\ \A q \in Users \ {u} : \A v \in DOMAIN m.map[q] : m.map[q][v] # page

LEMMA GrowsOn ==
  ASSUME NEW m \in MemoryStates, NEW mid \in MemoryStates, NEW m2 \in MemoryStates, NEW p,
         Grows(m, mid, p), Grows(mid, m2, p)
  PROVE  Grows(m, m2, p)
<1>1. m.next <= m2.next
  <2>1. m.next \in Nat /\ mid.next \in Nat /\ m2.next \in Nat
    BY Fields
  <2> QED BY <2>1 DEF Grows
<1> QED BY <1>1 DEF Grows

LEMMA OthersSameOn ==
  ASSUME NEW m, NEW mid, NEW m2, NEW p, OthersSame(m, mid, p), OthersSame(mid, m2, p)
  PROVE  OthersSame(m, m2, p)
BY DEF OthersSame

LEMMA GrowsForKernel ==
  ASSUME NEW m, NEW m2, NEW p, Grows(m, m2, Kernel)
  PROVE  Grows(m, m2, p)
BY DEF Grows

LEMMA OthersForKernel ==
  ASSUME NEW m, NEW m2, NEW p, OthersSame(m, m2, Kernel)
  PROVE  OthersSame(m, m2, p)
BY DEF OthersSame

LEMMA SameMapsGrow ==
  ASSUME NEW m, NEW m2, m2.map = m.map, m.next <= m2.next
  PROVE  Grows(m, m2, Kernel) /\ OthersSame(m, m2, Kernel)
BY DEF Grows, OthersSame

\* Where the only change to address spaces is a page mapped at src for p.
LEMMA PutAt ==
  ASSUME NEW m \in MemoryStates, NEW m2, NEW p \in Procs, NEW src \in Nat, NEW dest \in Nat,
         m2.map = [m.map EXCEPT ![p] = Put(m.map[p], src, dest)]
  PROVE  /\ DOMAIN m2.map[p] = DOMAIN m.map[p] \cup {src}
         /\ m2.map[p][src] = dest
         /\ \A v \in DOMAIN m.map[p] : v # src => m2.map[p][v] = m.map[p][v]
         /\ \A q \in Procs : q # p => m2.map[q] = m.map[q]
<1>1. m.map \in [Procs -> PageTables] /\ m.map[p] \in PageTables
  BY Fields
<1>2. m2.map[p] = Put(m.map[p], src, dest) /\ \A q \in Procs : q # p => m2.map[q] = m.map[q]
  BY <1>1
<1> DEFINE f == m.map[p]
           g == Put(f, src, dest)
<1>3. /\ DOMAIN g = DOMAIN f \cup {src} /\ g[src] = dest
      /\ \A v \in DOMAIN f : v # src => g[v] = f[v]
  <2>1. \A h \in PageTables :
          /\ DOMAIN Put(h, src, dest) = DOMAIN h \cup {src} /\ Put(h, src, dest)[src] = dest
          /\ \A v \in DOMAIN h : v # src => Put(h, src, dest)[v] = h[v]
    BY PutTable
  <2> QED BY <1>1, <2>1
<1> HIDE DEF g
<1> QED BY <1>2, <1>3 DEF g

LEMMA PutGrows ==
  ASSUME NEW m \in MemoryStates, NEW m2, NEW p \in Procs, NEW src \in Nat, NEW dest \in Nat,
         m2.map = [m.map EXCEPT ![p] = Put(m.map[p], src, dest)], m.next <= m2.next
  PROVE  /\ src \notin DOMAIN m.map[p] => Grows(m, m2, Kernel)
         /\ InWindow(src) => Grows(m, m2, p)
         /\ OthersSame(m, m2, p)
<1>1. /\ DOMAIN m2.map[p] = DOMAIN m.map[p] \cup {src}
      /\ \A v \in DOMAIN m.map[p] : v # src => m2.map[p][v] = m.map[p][v]
      /\ \A q \in Procs : q # p => m2.map[q] = m.map[q]
  BY PutAt
<1>2. ASSUME NEW q \in Procs, NEW v \in DOMAIN m.map[q], q = p => v # src
      PROVE  v \in DOMAIN m2.map[q] /\ m2.map[q][v] = m.map[q][v]
  BY <1>1, <1>2
<1>3. ASSUME src \notin DOMAIN m.map[p] PROVE Grows(m, m2, Kernel)
  BY <1>2, <1>3 DEF Grows
<1>4. ASSUME InWindow(src) PROVE Grows(m, m2, p)
  BY <1>2, <1>4 DEF Grows
<1>5. OthersSame(m, m2, p)
  BY <1>1 DEF OthersSame
<1> QED BY <1>3, <1>4, <1>5

LEMMA PutApart ==
  ASSUME NEW m \in MemoryStates, NEW m2 \in MemoryStates, NEW p \in Procs, NEW src \in Nat,
         NEW dest \in Nat,
         m2.map = [m.map EXCEPT ![p] = Put(m.map[p], src, dest)], m.next <= m2.next,
         Apart(m), p \in Users => Owns(m, p, dest)
  PROVE  Apart(m2)
<1>1. /\ DOMAIN m2.map[p] = DOMAIN m.map[p] \cup {src} /\ m2.map[p][src] = dest
      /\ \A v \in DOMAIN m.map[p] : v # src => m2.map[p][v] = m.map[p][v]
      /\ \A q \in Procs : q # p => m2.map[q] = m.map[q]
  BY PutAt
<1>2. m.next \in Nat /\ m2.next \in Nat /\ m.map \in [Procs -> PageTables]
  BY Fields
<1>3. ASSUME NEW q \in Users, NEW v \in DOMAIN m2.map[q]
      PROVE  \/ v \in DOMAIN m.map[q] /\ m2.map[q][v] = m.map[q][v]
             \/ q = p /\ m2.map[q][v] = dest
  BY <1>1, KernelIsProcess
<1>4. ASSUME NEW q \in Users, NEW v \in DOMAIN m2.map[q] PROVE m2.map[q][v] < m2.next
  <2>1. CASE q = p /\ m2.map[q][v] = dest
    BY <1>2, <2>1 DEF Owns
  <2>2. CASE v \in DOMAIN m.map[q] /\ m2.map[q][v] = m.map[q][v]
    <3>1. m.map[q][v] < m.next /\ m.map[q][v] \in Nat
      BY <1>2, <2>2, TableEntries, KernelIsProcess DEF Apart
    <3> QED BY <1>2, <2>2, <3>1
  <2> QED BY <1>3, <2>1, <2>2
<1>5. ASSUME NEW q \in Users, NEW r \in Users, q # r,
             NEW v \in DOMAIN m2.map[q], NEW w \in DOMAIN m2.map[r],
             m2.map[q][v] = m2.map[r][w]
      PROVE  m2.map[q][v] \in KernelCode
  <2>1. CASE q = p /\ m2.map[q][v] = dest
    <3>1. w \in DOMAIN m.map[r] /\ m2.map[r][w] = m.map[r][w]
      BY <1>3, <1>5, <2>1
    <3> QED BY <1>5, <2>1, <3>1 DEF Owns
  <2>2. CASE r = p /\ m2.map[r][w] = dest
    <3>1. v \in DOMAIN m.map[q] /\ m2.map[q][v] = m.map[q][v]
      BY <1>3, <1>5, <2>2
    <3> QED BY <1>5, <2>2, <3>1 DEF Owns
  <2>3. CASE /\ v \in DOMAIN m.map[q] /\ m2.map[q][v] = m.map[q][v]
             /\ w \in DOMAIN m.map[r] /\ m2.map[r][w] = m.map[r][w]
    BY <1>5, <2>3 DEF Apart
  <2> QED BY <1>3, <2>1, <2>2, <2>3
<1> QED BY <1>4, <1>5 DEF Apart

\* A page stays with its owner when it is mapped for the owner or for the kernel.
LEMMA PutOwns ==
  ASSUME NEW m \in MemoryStates, NEW m2 \in MemoryStates, NEW p \in Procs, NEW src \in Nat,
         NEW dest \in Nat,
         m2.map = [m.map EXCEPT ![p] = Put(m.map[p], src, dest)], m.next <= m2.next,
         NEW u, NEW page, Owns(m, u, page), p \in {Kernel, u} \/ page # dest
  PROVE  Owns(m2, u, page)
<1>1. /\ DOMAIN m2.map[p] = DOMAIN m.map[p] \cup {src} /\ m2.map[p][src] = dest
      /\ \A v \in DOMAIN m.map[p] : v # src => m2.map[p][v] = m.map[p][v]
      /\ \A q \in Procs : q # p => m2.map[q] = m.map[q]
  BY PutAt
<1>2. page \in Nat /\ page < m2.next
  BY Fields DEF Owns
<1>3. ASSUME NEW q \in Users \ {u}, NEW v \in DOMAIN m2.map[q] PROVE m2.map[q][v] # page
  <2>1. CASE q = p
    BY <1>1, <2>1, KernelIsProcess DEF Owns
  <2>2. CASE q # p
    BY <1>1, <2>2, KernelIsProcess DEF Owns
  <2> QED BY <2>1, <2>2
<1> QED BY <1>2, <1>3 DEF Owns

\* The page that is next belongs to whoever it is allocated for.
LEMMA AllocOwns ==
  ASSUME NEW m \in MemoryStates, NEW m2 \in MemoryStates, Apart(m), m2.map = m.map,
         m.next < m2.next, NEW u
  PROVE  /\ Apart(m2)
         /\ \A page \in m.next..(m2.next - 1) : Owns(m2, u, page)
         /\ \A page : Owns(m, u, page) => Owns(m2, u, page)
<1>1. m.next \in Nat /\ m2.next \in Nat /\ m.map \in [Procs -> PageTables]
  BY Fields
<1>2. ASSUME NEW q \in Users, NEW v \in DOMAIN m.map[q]
      PROVE  m.map[q][v] < m.next /\ m.map[q][v] \in Nat
  BY <1>1, TableEntries, KernelIsProcess DEF Apart
<1>3. Apart(m2)
  <2>1. \A q \in Users : \A v \in DOMAIN m2.map[q] : m2.map[q][v] < m2.next
    BY <1>1, <1>2
  <2> QED BY <2>1 DEF Apart
<1>4. ASSUME NEW page \in m.next..(m2.next - 1) PROVE Owns(m2, u, page)
  <2>1. page \in Nat /\ page < m2.next /\ m.next <= page
    BY <1>1
  <2>2. ASSUME NEW q \in Users, NEW v \in DOMAIN m2.map[q] PROVE m2.map[q][v] # page
    BY <1>1, <1>2, <2>1
  <2> QED BY <2>1, <2>2 DEF Owns
<1>5. ASSUME NEW page, Owns(m, u, page) PROVE Owns(m2, u, page)
  BY <1>1, <1>5 DEF Owns
<1> QED BY <1>3, <1>4, <1>5

-----------------------------------------------------------------------------
\* Mapping one page.

LEMMA PutPages ==
  ASSUME NEW m, NEW m2 \in MemoryStates, NEW p \in Procs, NEW src \in Nat, NEW dest \in Nat,
         Pages(m), m2.map = [m.map EXCEPT ![p] = Put(m.map[p], src, dest)],
         m.next <= m2.next, p \in Users => Owns(m, p, dest),
         \A q \in Procs : m2.mapped_pages[q] >= m.mapped_pages[q],
         \A q \in Procs : m2.stack_pages[q] >= m.stack_pages[q],
         InHeap(src) => src < HeapStart + m2.mapped_pages[p],
         p \in Users /\ InStack(src) => src >= StackStart - m2.stack_pages[p]
  PROVE  Pages(m2)
<1>1. m \in MemoryStates /\ FirstPage <= m.next /\ Apart(m) /\ HeapBelow(m) /\ StackAbove(m)
  BY DEF Pages
<1>2. Apart(m2)
  BY <1>1, PutApart
<1>3. /\ DOMAIN m2.map[p] = DOMAIN m.map[p] \cup {src}
      /\ \A q \in Procs : q # p => m2.map[q] = m.map[q]
  BY <1>1, PutAt
<1>4. ASSUME NEW q \in Procs
      PROVE  /\ m.mapped_pages[q] \in Nat /\ m2.mapped_pages[q] \in Nat
             /\ m.stack_pages[q] \in Nat /\ m2.stack_pages[q] \in Nat
  BY <1>1, Fields
<1>5. ASSUME NEW q \in Procs, NEW v \in DOMAIN m2.map[q]
      PROVE  v \in Nat /\ (v \in DOMAIN m.map[q] \/ (q = p /\ v = src))
  <2>1. m2.map[q] \in PageTables
    BY Fields
  <2> QED BY <1>3, <2>1, TableEntries
<1>6. FirstPage <= m2.next
  BY <1>1, Fields, Constants
<1>7. HeapBelow(m2)
  <2> SUFFICES ASSUME NEW q \in Procs, NEW v \in DOMAIN m2.map[q], InHeap(v)
               PROVE  v < HeapStart + m2.mapped_pages[q]
    BY DEF HeapBelow
  <2>1. CASE v \in DOMAIN m.map[q]
    <3>1. v < HeapStart + m.mapped_pages[q]
      BY <1>1, <2>1 DEF HeapBelow
    <3> QED BY <1>4, <1>5, <3>1, Constants
  <2>2. CASE q = p /\ v = src
    BY <2>2
  <2> QED BY <1>5, <2>1, <2>2
<1>8. StackAbove(m2)
  <2> SUFFICES ASSUME NEW q \in Users, NEW v \in DOMAIN m2.map[q], InStack(v)
               PROVE  v >= StackStart - m2.stack_pages[q]
    BY DEF StackAbove
  <2>1. q \in Procs
    BY KernelIsProcess
  <2>2. CASE v \in DOMAIN m.map[q]
    <3>1. v >= StackStart - m.stack_pages[q]
      BY <1>1, <2>2 DEF StackAbove
    <3> QED BY <1>4, <1>5, <2>1, <3>1, Constants
  <2>3. CASE q = p /\ v = src
    BY <2>3
  <2> QED BY <1>5, <2>1, <2>2, <2>3
<1> QED BY <1>2, <1>6, <1>7, <1>8 DEF Pages

LEMMA NextPages ==
  ASSUME NEW m, NEW m2 \in MemoryStates, Pages(m), m2.map = m.map, m.next <= m2.next,
         m2.mapped_pages = m.mapped_pages, m2.stack_pages = m.stack_pages
  PROVE  Pages(m2)
<1>1. m \in MemoryStates /\ FirstPage <= m.next /\ Apart(m) /\ HeapBelow(m) /\ StackAbove(m)
  BY DEF Pages
<1>2. m.next \in Nat /\ m2.next \in Nat
  BY <1>1, Fields
<1>3. Apart(m2)
  <2>1. CASE m.next < m2.next
    BY <1>1, <2>1, AllocOwns
  <2>2. CASE m.next = m2.next
    BY <1>1, <2>2 DEF Apart
  <2> QED BY <1>2, <2>1, <2>2
<1> QED BY <1>1, <1>2, <1>3, Constants DEF Pages, HeapBelow, StackAbove

\* allocPage: the page belongs to whoever it is for.
LEMMA AllocKeeps ==
  ASSUME NEW m, Pages(m)
  PROVE  LET a == AllocPage(m)
         IN  /\ Pages(a) /\ a \in MemoryStates /\ a.next = m.next + 1 /\ a.map = m.map
             /\ a.mapped_pages = m.mapped_pages /\ Rest(a) = Rest(m)
             /\ m.next \in Nat
             /\ \A u : Owns(a, u, m.next)
             /\ \A u, page : Owns(m, u, page) => Owns(a, u, page)
             /\ Grows(m, a, Kernel) /\ OthersSame(m, a, Kernel)
<1> DEFINE a == AllocPage(m)
<1>1. m \in MemoryStates /\ Apart(m) /\ m.next \in Nat
  BY Fields DEF Pages
<1>2. /\ a \in MemoryStates /\ a.next = m.next + 1 /\ a.map = m.map
      /\ a.mapped_pages = m.mapped_pages /\ Rest(a) = Rest(m)
  BY <1>1, AllocPageFields
<1> HIDE DEF a
<1>3. a.stack_pages = m.stack_pages
  BY <1>2, SameRest
<1>4. m.next < a.next /\ m.next <= a.next /\ m.next \in m.next..(a.next - 1)
  BY <1>1, <1>2
<1>5. Pages(a)
  BY <1>2, <1>3, <1>4, NextPages
<1>6. ASSUME NEW u
      PROVE  /\ Owns(a, u, m.next)
             /\ \A page : Owns(m, u, page) => Owns(a, u, page)
  BY <1>1, <1>2, <1>4, AllocOwns
<1>7. Grows(m, a, Kernel) /\ OthersSame(m, a, Kernel)
  BY <1>2, <1>4, SameMapsGrow
<1> QED BY <1>1, <1>2, <1>5, <1>6, <1>7 DEF a

\* vmmMapPage outside of the heaps, for the kernel or the owner of the page.
LEMMA MapPageKeeps ==
  ASSUME NEW m, Pages(m), NEW p \in Procs, NEW src \in Nat, NEW dest \in Nat,
         p \in Users => Owns(m, p, dest), ~InHeap(src),
         p \in Users /\ InStack(src) => src >= StackStart - m.stack_pages[p]
  PROVE  LET m2 == MapPage(m, p, src, dest)
         IN  /\ Pages(m2) /\ m2 \in MemoryStates
             /\ m.next <= m2.next
             /\ m2.map = [m.map EXCEPT ![p] = Put(m.map[p], src, dest)]
             /\ m2.mapped_pages = m.mapped_pages /\ Rest(m2) = Rest(m)
             /\ src \notin DOMAIN m.map[p] => Grows(m, m2, Kernel)
             /\ InWindow(src) => Grows(m, m2, p)
             /\ OthersSame(m, m2, p)
<1> DEFINE m2 == MapPage(m, p, src, dest)
<1>1. m \in MemoryStates /\ m.next \in Nat
  BY Fields DEF Pages
<1>2. /\ m2 \in MemoryStates /\ m2.next \in {m.next, m.next + 1}
      /\ m2.map = [m.map EXCEPT ![p] = Put(m.map[p], src, dest)]
      /\ m2.mapped_pages = m.mapped_pages /\ Rest(m2) = Rest(m)
  BY <1>1, MapPageFields
<1> HIDE DEF m2
<1>3. m.next <= m2.next
  BY <1>1, <1>2
<1>4. m2.stack_pages = m.stack_pages
  BY <1>2, SameRest
<1>5. \A q \in Procs : m.mapped_pages[q] \in Nat /\ m.stack_pages[q] \in Nat
  BY <1>1, Fields
<1>6. /\ \A q \in Procs : m2.mapped_pages[q] >= m.mapped_pages[q]
      /\ \A q \in Procs : m2.stack_pages[q] >= m.stack_pages[q]
  BY <1>2, <1>4, <1>5
<1>7. Pages(m2)
  BY <1>2, <1>3, <1>4, <1>6, PutPages
<1>8. /\ src \notin DOMAIN m.map[p] => Grows(m, m2, Kernel)
      /\ InWindow(src) => Grows(m, m2, p)
      /\ OthersSame(m, m2, p)
  BY <1>1, <1>2, <1>3, PutGrows
<1> QED BY <1>2, <1>3, <1>7, <1>8 DEF m2

\* procMapHeapPage, for the kernel or the owner of the page: the next page of the heap
\* is free, as long as it is one of a heap.
LEMMA MapHeapPageKeeps ==
  ASSUME NEW m, Pages(m), NEW u \in Users, NEW p, p = Kernel \/ p = u,
         NEW dest, Owns(m, u, dest)
  PROVE  LET m2 == MapHeapPage(m, p, dest)
             v  == HeapAddress(m, p)
         IN  /\ p = Kernel \/ m.mapped_pages[p] < 2 * IdentityPages => Pages(m2)
             /\ m2 \in MemoryStates
             /\ m.next <= m2.next
             /\ Owns(m2, u, dest)
             /\ m2.mapped_pages = [m.mapped_pages EXCEPT ![p] = m.mapped_pages[p] + 1]
             /\ Rest(m2) = Rest(m)
             /\ OthersSame(m, m2, p)
             /\ m.mapped_pages[p] < 2 * IdentityPages =>
                  /\ Grows(m, m2, Kernel)
                  /\ v \in Nat /\ InHeap(v)
                  /\ v \in DOMAIN m2.map[p] /\ m2.map[p][v] = dest
<1> DEFINE m2 == MapHeapPage(m, p, dest)
           v == HeapAddress(m, p)
<1>1. m \in MemoryStates /\ m.next \in Nat /\ p \in Procs /\ dest \in Nat
  BY Fields, KernelIsProcess DEF Pages, Owns
<1>2. /\ m2 \in MemoryStates /\ m2.next \in {m.next, m.next + 1} /\ v \in Nat
      /\ m2.map = [m.map EXCEPT ![p] = Put(m.map[p], v, dest)]
      /\ m2.mapped_pages = [m.mapped_pages EXCEPT ![p] = m.mapped_pages[p] + 1]
      /\ Rest(m2) = Rest(m)
  BY <1>1, MapHeapPageFields
<1>3. v = HeapStart + m.mapped_pages[p]
  BY DEF HeapAddress
<1> HIDE DEF m2, v
<1>4. m.next <= m2.next
  BY <1>1, <1>2
<1>5. m2.stack_pages = m.stack_pages
  BY <1>2, SameRest
<1>6. \A q \in Procs : m.mapped_pages[q] \in Nat /\ m.stack_pages[q] \in Nat
  BY <1>1, Fields
<1>7. m.mapped_pages \in [Procs -> Nat]
  BY <1>1, Fields
<1>8. /\ \A q \in Procs : m2.mapped_pages[q] >= m.mapped_pages[q]
      /\ \A q \in Procs : m2.stack_pages[q] >= m.stack_pages[q]
      /\ m2.mapped_pages[p] = m.mapped_pages[p] + 1
  BY <1>1, <1>2, <1>5, <1>6, <1>7
<1>9. v < HeapStart + m2.mapped_pages[p]
  BY <1>1, <1>3, <1>6, <1>8, Constants
<1>10. ASSUME m.mapped_pages[p] < 2 * IdentityPages PROVE InHeap(v) /\ ~InStack(v)
  BY <1>1, <1>3, <1>6, <1>10, Constants, Layout DEF InHeap, InStack
<1>11. ASSUME p = Kernel \/ m.mapped_pages[p] < 2 * IdentityPages PROVE Pages(m2)
  <2>1. p \in Users /\ InStack(v) => FALSE
    BY <1>10, <1>11, KernelIsProcess
  <2>2. p \in Users => Owns(m, p, dest)
    BY KernelIsProcess
  <2> QED BY <1>1, <1>2, <1>4, <1>8, <1>9, <2>1, <2>2, PutPages
<1>12. Owns(m2, u, dest)
  BY <1>1, <1>2, <1>4, PutOwns
<1>13. OthersSame(m, m2, p)
  BY <1>1, <1>2, <1>4, PutGrows
<1>14. ASSUME m.mapped_pages[p] < 2 * IdentityPages
       PROVE  /\ Grows(m, m2, Kernel)
              /\ v \in Nat /\ InHeap(v)
              /\ v \in DOMAIN m2.map[p] /\ m2.map[p][v] = dest
  <2>1. InHeap(v)
    BY <1>10, <1>14
  <2>2. v \notin DOMAIN m.map[p]
    BY <1>1, <1>2, <1>3, <1>6, <2>1, Constants DEF Pages, HeapBelow
  <2>3. v \in DOMAIN m2.map[p] /\ m2.map[p][v] = dest
    BY <1>1, <1>2, PutAt
  <2> QED BY <1>1, <1>2, <1>4, <2>1, <2>2, <2>3, PutGrows
<1> QED BY <1>2, <1>4, <1>11, <1>12, <1>13, <1>14 DEF m2, v

-----------------------------------------------------------------------------
\* heapVirtAllocContiguous, page by page.

LEMMA SomeUser == \E u \in Procs : u \in Users
<1>1. 2 \in Procs /\ 2 \in Users
  BY Constants DEF Procs, Users, Kernel
<1> QED BY <1>1

LEMMA VirtAllocRound ==
  ASSUME NEW m, Pages(m)
  PROVE  LET m2 == MapHeapPage(AllocPage(m), Kernel, m.next)
         IN  /\ Pages(m2) /\ m2 \in MemoryStates
             /\ m.next + 1 <= m2.next
             /\ Rest(m2) = Rest(m) /\ OthersSame(m, m2, Kernel)
             /\ m2.mapped_pages = [m.mapped_pages EXCEPT ![Kernel] = m.mapped_pages[Kernel] + 1]
             /\ m.mapped_pages[Kernel] < 2 * IdentityPages => Grows(m, m2, Kernel)
<1> DEFINE a == AllocPage(m)
           m2 == MapHeapPage(a, Kernel, m.next)
<1>1. PICK u \in Users : TRUE
  BY SomeUser
<1>2. /\ Pages(a) /\ a \in MemoryStates /\ a.next = m.next + 1
      /\ a.mapped_pages = m.mapped_pages /\ Rest(a) = Rest(m) /\ m.next \in Nat
      /\ Owns(a, u, m.next)
      /\ Grows(m, a, Kernel) /\ OthersSame(m, a, Kernel)
  BY AllocKeeps
<1> HIDE DEF a
<1>3. /\ Pages(m2) /\ m2 \in MemoryStates /\ a.next <= m2.next
      /\ m2.mapped_pages = [a.mapped_pages EXCEPT ![Kernel] = a.mapped_pages[Kernel] + 1]
      /\ Rest(m2) = Rest(a) /\ OthersSame(a, m2, Kernel)
      /\ a.mapped_pages[Kernel] < 2 * IdentityPages => Grows(a, m2, Kernel)
  <2> DEFINE page == m.next
  <2>1. Pages(a) /\ Owns(a, u, page)
    BY <1>2
  <2> HIDE DEF page
  <2>2. ASSUME NEW p, p = Kernel
        PROVE  LET b == MapHeapPage(a, p, page)
               IN  /\ Pages(b) /\ b \in MemoryStates /\ a.next <= b.next
                   /\ b.mapped_pages = [a.mapped_pages EXCEPT ![p] = a.mapped_pages[p] + 1]
                   /\ Rest(b) = Rest(a) /\ OthersSame(a, b, p)
                   /\ a.mapped_pages[p] < 2 * IdentityPages => Grows(a, b, Kernel)
    <3>1. p = Kernel \/ p = u
      BY <2>2
    <3> QED BY <2>1, <2>2, <3>1, MapHeapPageKeeps
  <2> QED BY <2>2 DEF page
<1> HIDE DEF m2
<1>4. OthersSame(m, m2, Kernel)
  BY <1>2, <1>3, OthersSameOn
<1>5. ASSUME m.mapped_pages[Kernel] < 2 * IdentityPages PROVE Grows(m, m2, Kernel)
  <2>1. m \in MemoryStates
    BY DEF Pages
  <2> QED BY <1>2, <1>3, <1>5, <2>1, GrowsOn
<1> QED BY <1>2, <1>3, <1>4, <1>5 DEF m2, a

LEMMA VirtAllocRounds ==
  ASSUME NEW m, Pages(m), NEW pages \in Nat
  PROVE  \E f : /\ f[0] = m
                /\ \A n \in 1..pages :
                     f[n] = MapHeapPage(AllocPage(f[n - 1]), Kernel, f[n - 1].next)
                /\ VirtAllocContiguous(m, pages) = f[pages]
<1> DEFINE Body(x) == MapHeapPage(AllocPage(x), Kernel, x.next)
           S == {x \in MemoryStates : Pages(x)}
           IsMapped(f) == f = [n \in 0..pages |-> IF n = 0 THEN m ELSE Body(f[n - 1])]
           mapped == CHOOSE f : IsMapped(f)
<1>1. VirtAllocContiguous(m, pages) = mapped[pages]
  BY DEF VirtAllocContiguous
<1>2. m \in S /\ \A x \in S : Body(x) \in S
  BY VirtAllocRound DEF Pages
<1> HIDE DEF Body, S
<1>3. \E f : IsMapped(f)
  <2> DEFINE step == [n \in 1..pages |-> [x \in S |-> Body(x)]]
  <2>1. Loop(step, pages, S)
    BY <1>2 DEF Loop
  <2>2. \A n \in 1..pages, x \in S : step[n][x] = Body(x)
    OBVIOUS
  <2> HIDE DEF step
  <2>3. PICK f : History(f, pages, S, m, step)
    BY <1>2, <2>1, Rounds
  <2>4. ASSUME NEW n \in 0..pages PROVE f[n] = IF n = 0 THEN m ELSE Body(f[n - 1])
    <3>1. CASE n = 0
      BY <2>3, <3>1 DEF History
    <3>2. CASE n # 0
      <4>1. n \in 1..pages /\ n - 1 \in 0..pages
        BY <3>2
      <4>2. f[n - 1] \in S /\ f[n] = step[n][f[n - 1]]
        BY <2>3, <4>1 DEF History
      <4> QED BY <2>2, <3>2, <4>1, <4>2
    <3> QED BY <3>1, <3>2
  <2>5. f = [n \in 0..pages |-> f[n]]
    BY <2>3 DEF History
  <2>6. IsMapped(f)
    BY <2>4, <2>5
  <2> HIDE DEF IsMapped
  <2> QED BY <2>6
<1>4. IsMapped(mapped)
  <2> HIDE DEF IsMapped
  <2> QED BY <1>3
<1> HIDE DEF mapped
<1>5. mapped[0] = m /\ \A n \in 1..pages : mapped[n] = Body(mapped[n - 1])
  <2>1. \A n \in 0..pages : mapped[n] = IF n = 0 THEN m ELSE Body(mapped[n - 1])
    BY <1>4
  <2>2. 0 \in 0..pages /\ \A n \in 1..pages : n \in 0..pages /\ n # 0
    OBVIOUS
  <2> QED BY <2>1, <2>2
<1> QED BY <1>1, <1>5 DEF Body

LEMMA VirtAllocKeeps ==
  ASSUME NEW m, Pages(m), NEW pages \in Nat
  PROVE  LET m2 == VirtAllocContiguous(m, pages)
         IN  /\ Pages(m2) /\ m2 \in MemoryStates
             /\ m.next + pages <= m2.next
             /\ Rest(m2) = Rest(m) /\ OthersSame(m, m2, Kernel)
             /\ m2.mapped_pages =
                  [m.mapped_pages EXCEPT ![Kernel] = m.mapped_pages[Kernel] + pages]
             /\ m.mapped_pages[Kernel] + pages <= 2 * IdentityPages => Grows(m, m2, Kernel)
<1> DEFINE was == m.mapped_pages[Kernel]
           Good(x, n) ==
             /\ Pages(x) /\ x \in MemoryStates
             /\ m.next + n <= x.next
             /\ Rest(x) = Rest(m) /\ OthersSame(m, x, Kernel)
             /\ x.mapped_pages = [m.mapped_pages EXCEPT ![Kernel] = was + n]
             /\ was + n <= 2 * IdentityPages => Grows(m, x, Kernel)
<1>1. PICK f : /\ f[0] = m
               /\ \A n \in 1..pages :
                    f[n] = MapHeapPage(AllocPage(f[n - 1]), Kernel, f[n - 1].next)
               /\ VirtAllocContiguous(m, pages) = f[pages]
  BY VirtAllocRounds
<1>2. /\ m \in MemoryStates /\ m.next \in Nat /\ was \in Nat
      /\ m.mapped_pages \in [Procs -> Nat] /\ Kernel \in Procs
  BY Fields, KernelIsProcess DEF Pages
<1> DEFINE good == {n \in 0..pages : Good(f[n], n)}
<1>3. 0 \in good
  <2>1. m.mapped_pages = [m.mapped_pages EXCEPT ![Kernel] = was + 0]
    BY <1>2
  <2>2. m.next <= m.next
    BY <1>2
  <2>3. Grows(m, m, Kernel) /\ OthersSame(m, m, Kernel)
    BY <2>2, SameMapsGrow
  <2>4. m.next + 0 <= m.next
    BY <1>2
  <2> HIDE DEF was
  <2> QED BY <1>1, <1>2, <2>1, <2>2, <2>3, <2>4
<1>4. ASSUME NEW n \in 1..pages, n - 1 \in good PROVE n \in good
  <2> DEFINE x == f[n - 1]
             z == f[n]
  <2>1. Good(x, n - 1)
    BY <1>4
  <2>2. n \in Nat /\ n - 1 \in Nat /\ n \in 0..pages
    OBVIOUS
  <2>3. z = MapHeapPage(AllocPage(x), Kernel, x.next)
    BY <1>1
  <2> HIDE DEF x, z
  <2>4. /\ Pages(z) /\ z \in MemoryStates
        /\ x.next + 1 <= z.next
        /\ Rest(z) = Rest(x) /\ OthersSame(x, z, Kernel)
        /\ z.mapped_pages = [x.mapped_pages EXCEPT ![Kernel] = x.mapped_pages[Kernel] + 1]
        /\ x.mapped_pages[Kernel] < 2 * IdentityPages => Grows(x, z, Kernel)
    BY <2>1, <2>3, VirtAllocRound
  <2>5. x.next \in Nat /\ z.next \in Nat
    BY <2>1, <2>4, Fields
  <2>6. m.next + n <= z.next
    BY <1>2, <2>1, <2>2, <2>4, <2>5
  <2>7. x.mapped_pages[Kernel] = was + (n - 1)
    <3> HIDE DEF was
    <3> QED BY <1>2, <2>1
  <2>8. z.mapped_pages = [m.mapped_pages EXCEPT ![Kernel] = was + n]
    <3>1. was + (n - 1) + 1 = was + n
      BY <1>2, <2>2
    <3> HIDE DEF was
    <3> QED BY <1>2, <2>1, <2>4, <2>7, <3>1
  <2>9. ASSUME was + n <= 2 * IdentityPages PROVE Grows(m, z, Kernel)
    <3>1. was + (n - 1) <= 2 * IdentityPages /\ was + (n - 1) < 2 * IdentityPages
      BY <1>2, <2>2, <2>9, Constants
    <3>2. Grows(m, x, Kernel) /\ Grows(x, z, Kernel)
      BY <2>1, <2>4, <2>7, <3>1
    <3> QED BY <1>2, <2>1, <2>4, <3>2, GrowsOn
  <2>10. OthersSame(m, z, Kernel) /\ Rest(z) = Rest(m)
    BY <2>1, <2>4, OthersSameOn
  <2>11. Good(z, n)
    BY <2>4, <2>6, <2>8, <2>9, <2>10
  <2> HIDE DEF Good
  <2> QED BY <2>2, <2>11 DEF z
<1>5. 0..pages \subseteq good
  <2> HIDE DEF good
  <2> QED BY <1>3, <1>4, UpTo
<1>6. pages \in 0..pages
  OBVIOUS
<1>7. Good(f[pages], pages)
  <2> HIDE DEF Good
  <2> QED BY <1>5, <1>6
<1> QED BY <1>1, <1>7

-----------------------------------------------------------------------------
\* streamCreate.

\* A state reached from m while a page of u's is mapped in heaps.
Reached(m, x, u, page) ==
  /\ Pages(x) /\ x \in MemoryStates /\ Owns(x, u, page)
  /\ Grows(m, x, Kernel) /\ OthersSame(m, x, u)

\* A page in the heap of p, where it stays.
HeapPageAt(x, p, v, page) ==
  /\ v \in Nat /\ InHeap(v) /\ v \in DOMAIN x.map[p] /\ x.map[p][v] = page

LEMMA HeapPageStays ==
  ASSUME NEW x, NEW y, NEW p \in Procs, NEW v, NEW page, HeapPageAt(x, p, v, page),
         NEW q, Grows(x, y, q)
  PROVE  HeapPageAt(y, p, v, page)
<1>1. ~InWindow(v)
  BY Constants DEF HeapPageAt, InHeap, InWindow
<1> QED BY <1>1 DEF HeapPageAt, Grows

LEMMA ReachedOn ==
  ASSUME NEW m \in MemoryStates, NEW u \in Users, NEW page, NEW x, Reached(m, x, u, page),
         NEW p, p = Kernel \/ p = u, x.mapped_pages[p] < 2 * IdentityPages
  PROVE  /\ Reached(m, MapHeapPage(x, p, page), u, page)
         /\ Grows(x, MapHeapPage(x, p, page), Kernel)
         /\ HeapPageAt(MapHeapPage(x, p, page), p, HeapAddress(x, p), page)
<1> DEFINE y == MapHeapPage(x, p, page)
           v == HeapAddress(x, p)
<1>1. /\ Pages(x) /\ x \in MemoryStates /\ Owns(x, u, page)
      /\ Grows(m, x, Kernel) /\ OthersSame(m, x, u)
  BY DEF Reached
<1>2. /\ Pages(y) /\ y \in MemoryStates /\ Owns(y, u, page)
      /\ Grows(x, y, Kernel) /\ OthersSame(x, y, p)
      /\ v \in Nat /\ InHeap(v) /\ v \in DOMAIN y.map[p] /\ y.map[p][v] = page
  <2>1. Pages(x) /\ Owns(x, u, page)
    BY <1>1
  <2>2. \A dest : Owns(x, u, dest) =>
          LET z == MapHeapPage(x, p, dest)
              w == HeapAddress(x, p)
          IN  /\ Pages(z) /\ z \in MemoryStates /\ x.next <= z.next /\ Owns(z, u, dest)
              /\ z.mapped_pages = [x.mapped_pages EXCEPT ![p] = x.mapped_pages[p] + 1]
              /\ Rest(z) = Rest(x)
              /\ Grows(x, z, Kernel) /\ OthersSame(x, z, p)
              /\ w \in Nat /\ InHeap(w) /\ w \in DOMAIN z.map[p] /\ z.map[p][w] = dest
    BY <2>1, MapHeapPageKeeps
  <2> QED BY <2>1, <2>2
<1> HIDE DEF y, v
<1>3. OthersSame(x, y, u)
  BY <1>2 DEF OthersSame
<1>4. Grows(m, y, Kernel) /\ OthersSame(m, y, u)
  BY <1>1, <1>2, <1>3, GrowsOn, OthersSameOn
<1>5. Reached(m, y, u, page) /\ HeapPageAt(y, p, v, page)
  BY <1>1, <1>2, <1>4 DEF Reached, HeapPageAt
<1> QED BY <1>2, <1>5 DEF y, v

\* A page more in the heap of p.
OneMore(x, y, p) ==
  /\ y \in MemoryStates /\ x.next <= y.next /\ Rest(y) = Rest(x)
  /\ y.mapped_pages = [x.mapped_pages EXCEPT ![p] = x.mapped_pages[p] + 1]

LEMMA HeapPageCounts ==
  ASSUME NEW x \in MemoryStates, NEW p \in Procs, NEW dest \in Nat
  PROVE  OneMore(x, MapHeapPage(x, p, dest), p)
<1> DEFINE y == MapHeapPage(x, p, dest)
<1>1. /\ y \in MemoryStates /\ y.next \in {x.next, x.next + 1} /\ HeapAddress(x, p) \in Nat
      /\ y.map = [x.map EXCEPT ![p] = Put(x.map[p], HeapAddress(x, p), dest)]
      /\ y.mapped_pages = [x.mapped_pages EXCEPT ![p] = x.mapped_pages[p] + 1]
      /\ Rest(y) = Rest(x)
  BY MapHeapPageFields
<1>2. x.next \in Nat
  BY Fields
<1> HIDE DEF y
<1>3. x.next <= y.next
  BY <1>1, <1>2
<1>4. OneMore(x, y, p)
  BY <1>1, <1>3 DEF OneMore
<1> QED BY <1>4 DEF y

Once(m, reader, writer) ==
  MapHeapPage(MapHeapPage(AllocPage(m), reader, m.next), writer, m.next)

Twice(m, reader, writer) ==
  MapHeapPage(MapHeapPage(Once(m, reader, writer), reader, m.next), writer, m.next)

LEMMA TwiceFields ==
  ASSUME NEW m \in MemoryStates, NEW reader \in Procs, NEW writer \in Procs, reader # writer
  PROVE  LET e == Twice(m, reader, writer)
         IN  /\ e \in MemoryStates /\ m.next + 1 <= e.next
             /\ e.mapped_pages = [m.mapped_pages EXCEPT ![reader] = m.mapped_pages[reader] + 2,
                                                        ![writer] = m.mapped_pages[writer] + 2]
             /\ Rest(e) = Rest(m)
<1> DEFINE a == AllocPage(m)
           page == m.next
           b == MapHeapPage(a, reader, page)
           c == MapHeapPage(b, writer, page)
           d == MapHeapPage(c, reader, page)
           e == MapHeapPage(d, writer, page)
<1>1. page \in Nat /\ m.mapped_pages \in [Procs -> Nat]
  BY Fields
<1>2. /\ a \in MemoryStates /\ a.next = page + 1 /\ a.mapped_pages = m.mapped_pages
      /\ Rest(a) = Rest(m)
  BY AllocPageFields
<1> HIDE DEF a, page
<1>3. /\ b \in MemoryStates /\ a.next <= b.next /\ Rest(b) = Rest(a)
      /\ b.mapped_pages = [a.mapped_pages EXCEPT ![reader] = a.mapped_pages[reader] + 1]
  <2>1. OneMore(a, b, reader)
    BY <1>1, <1>2, HeapPageCounts
  <2> HIDE DEF b
  <2> QED BY <2>1 DEF OneMore
<1> HIDE DEF b
<1>4. /\ c \in MemoryStates /\ b.next <= c.next /\ Rest(c) = Rest(b)
      /\ c.mapped_pages = [b.mapped_pages EXCEPT ![writer] = b.mapped_pages[writer] + 1]
  <2>1. OneMore(b, c, writer)
    BY <1>1, <1>3, HeapPageCounts
  <2> HIDE DEF c
  <2> QED BY <2>1 DEF OneMore
<1> HIDE DEF c
<1>5. /\ d \in MemoryStates /\ c.next <= d.next /\ Rest(d) = Rest(c)
      /\ d.mapped_pages = [c.mapped_pages EXCEPT ![reader] = c.mapped_pages[reader] + 1]
  <2>1. OneMore(c, d, reader)
    BY <1>1, <1>4, HeapPageCounts
  <2> HIDE DEF d
  <2> QED BY <2>1 DEF OneMore
<1> HIDE DEF d
<1>6. /\ e \in MemoryStates /\ d.next <= e.next /\ Rest(e) = Rest(d)
      /\ e.mapped_pages = [d.mapped_pages EXCEPT ![writer] = d.mapped_pages[writer] + 1]
  <2>1. OneMore(d, e, writer)
    BY <1>1, <1>5, HeapPageCounts
  <2> HIDE DEF e
  <2> QED BY <2>1 DEF OneMore
<1>7. e = Twice(m, reader, writer)
  BY DEF Twice, Once, a, b, c, d, page
<1> HIDE DEF e
<1>8. page + 1 <= e.next
  <2>1. /\ a.next \in Nat /\ b.next \in Nat /\ c.next \in Nat /\ d.next \in Nat
        /\ e.next \in Nat
    BY <1>2, <1>3, <1>4, <1>5, <1>6, Fields
  <2> QED BY <1>1, <1>2, <1>3, <1>4, <1>5, <1>6, <2>1
<1>9. e.mapped_pages = [m.mapped_pages EXCEPT ![reader] = m.mapped_pages[reader] + 2,
                                              ![writer] = m.mapped_pages[writer] + 2]
  <2>1. c.mapped_pages = [m.mapped_pages EXCEPT ![reader] = m.mapped_pages[reader] + 1,
                                                ![writer] = m.mapped_pages[writer] + 1]
    BY <1>1, <1>2, <1>3, <1>4
  <2>2. m.mapped_pages[reader] \in Nat /\ m.mapped_pages[writer] \in Nat
    BY <1>1
  <2>3. /\ c.mapped_pages[reader] = m.mapped_pages[reader] + 1
        /\ c.mapped_pages[writer] = m.mapped_pages[writer] + 1
    BY <1>1, <2>1
  <2>4. /\ c.mapped_pages[reader] + 1 = m.mapped_pages[reader] + 2
        /\ c.mapped_pages[writer] + 1 = m.mapped_pages[writer] + 2
    BY <2>2, <2>3
  <2>5. e.mapped_pages = [c.mapped_pages EXCEPT ![reader] = c.mapped_pages[reader] + 1,
                                                ![writer] = c.mapped_pages[writer] + 1]
    BY <1>1, <1>5, <1>6, <2>1
  <2> QED BY <1>1, <2>1, <2>4, <2>5
<1> QED BY <1>2, <1>3, <1>4, <1>5, <1>6, <1>7, <1>8, <1>9 DEF page

\* One end is the kernel, the other a user process.
Ends(reader, writer, u) ==
  \/ reader = Kernel /\ writer = u
  \/ reader = u /\ writer = Kernel

\* The page of the ring is twice in a row in both heaps.
LEMMA TwiceKeeps ==
  ASSUME NEW m, Pages(m), NEW u \in Users, NEW reader, NEW writer, Ends(reader, writer, u),
         m.mapped_pages[reader] + 2 <= 2 * IdentityPages,
         m.mapped_pages[writer] + 2 <= 2 * IdentityPages
  PROVE  LET e == Twice(m, reader, writer)
         IN  /\ Pages(e) /\ Grows(m, e, Kernel) /\ OthersSame(m, e, u)
             /\ EndAt(e, reader, HeapAddress(m, reader), m.next)
             /\ EndAt(e, writer, HeapAddress(m, writer), m.next)
<1> DEFINE a == AllocPage(m)
           page == m.next
           b == MapHeapPage(a, reader, page)
           c == MapHeapPage(b, writer, page)
           d == MapHeapPage(c, reader, page)
           e == MapHeapPage(d, writer, page)
<1>1. m \in MemoryStates /\ page \in Nat /\ m.mapped_pages \in [Procs -> Nat]
  BY Fields DEF Pages
<1>2. /\ reader \in Procs /\ writer \in Procs /\ reader # writer
      /\ reader = Kernel \/ reader = u
      /\ writer = Kernel \/ writer = u
  BY KernelIsProcess DEF Ends
<1>3. /\ Pages(a) /\ a \in MemoryStates /\ a.mapped_pages = m.mapped_pages
      /\ Owns(a, u, page) /\ Grows(m, a, Kernel) /\ OthersSame(m, a, Kernel)
  BY AllocKeeps
<1> HIDE DEF a, page
<1>4. Reached(m, a, u, page)
  <2>1. OthersSame(m, a, u)
    BY <1>3, OthersForKernel
  <2> QED BY <1>3, <2>1 DEF Reached
<1>5. /\ m.mapped_pages[reader] \in Nat /\ m.mapped_pages[writer] \in Nat
      /\ m.mapped_pages[reader] < 2 * IdentityPages
      /\ m.mapped_pages[writer] < 2 * IdentityPages
      /\ m.mapped_pages[reader] + 1 < 2 * IdentityPages
      /\ m.mapped_pages[writer] + 1 < 2 * IdentityPages
  BY <1>1, <1>2, Constants
<1>6. /\ Reached(m, b, u, page) /\ Grows(a, b, Kernel)
      /\ HeapPageAt(b, reader, HeapAddress(a, reader), page)
  BY <1>1, <1>2, <1>3, <1>4, <1>5, ReachedOn
<1>7. b.mapped_pages = [m.mapped_pages EXCEPT ![reader] = m.mapped_pages[reader] + 1]
  <2>1. OneMore(a, b, reader)
    BY <1>1, <1>2, <1>3, HeapPageCounts
  <2> HIDE DEF b
  <2> QED BY <1>3, <2>1 DEF OneMore
<1> HIDE DEF b
<1>8. b.mapped_pages[writer] = m.mapped_pages[writer]
  BY <1>1, <1>2, <1>7
<1>9. /\ Reached(m, c, u, page) /\ Grows(b, c, Kernel)
      /\ HeapPageAt(c, writer, HeapAddress(b, writer), page)
  BY <1>1, <1>2, <1>5, <1>6, <1>8, ReachedOn
<1>10. c.mapped_pages = [m.mapped_pages EXCEPT ![reader] = m.mapped_pages[reader] + 1,
                                               ![writer] = m.mapped_pages[writer] + 1]
  <2>1. b \in MemoryStates
    BY <1>6 DEF Reached
  <2>2. OneMore(b, c, writer)
    BY <1>1, <1>2, <2>1, HeapPageCounts
  <2> HIDE DEF c
  <2> QED BY <1>1, <1>2, <1>7, <1>8, <2>2 DEF OneMore
<1> HIDE DEF c
<1>11. c.mapped_pages[reader] = m.mapped_pages[reader] + 1
  BY <1>1, <1>2, <1>10
<1>12. /\ Reached(m, d, u, page) /\ Grows(c, d, Kernel)
       /\ HeapPageAt(d, reader, HeapAddress(c, reader), page)
  BY <1>1, <1>2, <1>5, <1>9, <1>11, ReachedOn
<1>13. d.mapped_pages[writer] = m.mapped_pages[writer] + 1
  <2>1. c \in MemoryStates
    BY <1>9 DEF Reached
  <2>2. OneMore(c, d, reader)
    BY <1>1, <1>2, <2>1, HeapPageCounts
  <2> HIDE DEF d
  <2> QED BY <1>1, <1>2, <1>10, <2>2 DEF OneMore
<1> HIDE DEF d
<1>14. /\ Reached(m, e, u, page) /\ Grows(d, e, Kernel)
       /\ HeapPageAt(e, writer, HeapAddress(d, writer), page)
  BY <1>1, <1>2, <1>5, <1>12, <1>13, ReachedOn
<1>15. e = Twice(m, reader, writer)
  BY DEF Twice, Once, a, b, c, d, page
<1> HIDE DEF e
<1>16. /\ HeapAddress(a, reader) = HeapAddress(m, reader)
       /\ HeapAddress(b, writer) = HeapAddress(m, writer)
       /\ HeapAddress(c, reader) = HeapAddress(m, reader) + 1
       /\ HeapAddress(d, writer) = HeapAddress(m, writer) + 1
  BY <1>3, <1>5, <1>8, <1>11, <1>13, Constants DEF HeapAddress
<1>17. HeapPageAt(e, reader, HeapAddress(m, reader), page)
  BY <1>2, <1>6, <1>9, <1>12, <1>14, <1>16, HeapPageStays
<1>18. HeapPageAt(e, reader, HeapAddress(m, reader) + 1, page)
  BY <1>2, <1>12, <1>14, <1>16, HeapPageStays
<1>19. HeapPageAt(e, writer, HeapAddress(m, writer), page)
  BY <1>2, <1>9, <1>12, <1>14, <1>16, HeapPageStays
<1>20. HeapPageAt(e, writer, HeapAddress(m, writer) + 1, page)
  BY <1>14, <1>16
<1>21. /\ EndAt(e, reader, HeapAddress(m, reader), page)
       /\ EndAt(e, writer, HeapAddress(m, writer), page)
  BY <1>17, <1>18, <1>19, <1>20 DEF EndAt, HeapPageAt
<1>22. Pages(e) /\ Grows(m, e, Kernel) /\ OthersSame(m, e, u)
  BY <1>14 DEF Reached
<1> QED BY <1>15, <1>21, <1>22 DEF page

-----------------------------------------------------------------------------
\* What is linked stays linked while pages are mapped.

\* The fields that streams and their pointers leave alone.
Account(m) == << m.stack_pages, m.keyboard, m.program, m.copied, m.users, m.started >>

LEMMA SameAccount ==
  ASSUME NEW m, NEW m2, Account(m2) = Account(m)
  PROVE  /\ m2.stack_pages = m.stack_pages /\ m2.keyboard = m.keyboard
         /\ m2.program = m.program /\ m2.copied = m.copied
         /\ m2.users = m.users /\ m2.started = m.started
BY DEF Account

LEMMA RestAccount ==
  ASSUME NEW m, NEW m2, Rest(m2) = Rest(m)
  PROVE  /\ Account(m2) = Account(m) /\ m2.stream_list = m.stream_list
         /\ m2.streams = m.streams /\ m2.told = m.told
BY SameRest DEF Account

Steady(m) == Pages(m) /\ TwicePaged(m) /\ Linked(m)

Extends(m, m2) ==
  /\ Len(m.streams) <= Len(m2.streams)
  /\ \A i \in 1..Len(m.streams) : m2.streams[i] = m.streams[i]

LEMMA PoolStays ==
  ASSUME NEW m \in MemoryStates, NEW m2, NEW q, Grows(m, m2, q), NEW p \in Procs, NEW e, PoolAt(m, p, e)
  PROVE  PoolAt(m2, p, e)
<1>1. ~InWindow(e.vaddr)
  <2>1. m.map[p] \in PageTables
    BY Fields
  <2>2. e.vaddr \in Nat
    BY <2>1, TableEntries DEF PoolAt
  <2> QED BY <2>2, Constants DEF PoolAt, InHeap, InWindow
<1> QED BY <1>1 DEF PoolAt, Grows

LEMMA EndStays ==
  ASSUME NEW m \in MemoryStates, NEW m2, NEW q, Grows(m, m2, q), NEW p \in Procs, NEW v, NEW page,
         EndAt(m, p, v, page)
  PROVE  EndAt(m2, p, v, page)
<1>1. ~InWindow(v) /\ ~InWindow(v + 1)
  <2>1. m.map[p] \in PageTables
    BY Fields
  <2>2. v \in Nat
    BY <2>1, TableEntries DEF EndAt
  <2> QED BY <2>2, Constants DEF EndAt, InHeap, InWindow
<1> QED BY <1>1 DEF EndAt, Grows

LEMMA RingStays ==
  ASSUME NEW m \in MemoryStates, NEW m2, NEW q, Grows(m, m2, q), NEW s \in StreamRecords, RingAt(m, s)
  PROVE  RingAt(m2, s)
<1>1. s.read_owner \in Procs /\ s.write_owner \in Procs
  BY DEF StreamRecords
<1> QED BY <1>1, EndStays DEF RingAt

LEMMA TellingStays ==
  ASSUME NEW m \in MemoryStates, NEW m2 \in MemoryStates, NEW q, Grows(m, m2, q),
         Extends(m, m2), NEW t, TellingAt(m, t)
  PROVE  TellingAt(m2, t)
<1>1. t.process \in Procs /\ t.process \in Users /\ t.stream \in 1..Len(m.streams)
  BY KernelIsProcess DEF TellingAt
<1>2. m.streams \in Seq(StreamRecords) /\ m2.streams \in Seq(StreamRecords)
  BY Fields
<1>3. t.stream \in 1..Len(m2.streams) /\ m2.streams[t.stream] = m.streams[t.stream]
  <2>1. Len(m.streams) \in Nat /\ Len(m2.streams) \in Nat /\ Len(m.streams) <= Len(m2.streams)
    BY <1>2 DEF Extends
  <2> QED BY <1>1, <2>1 DEF Extends
<1> DEFINE ptr == PointerOf(m.streams[t.stream], t.process)
<1>4. PointerAt(m, t.process, t.vaddr, ptr)
  BY DEF TellingAt
<1> HIDE DEF ptr
<1>5. PointerAt(m2, t.process, t.vaddr, ptr)
  BY <1>1, <1>4 DEF PointerAt, Grows
<1> QED BY <1>1, <1>3, <1>5 DEF TellingAt, ptr

\* The parts of Linked that an operation leaves alone.
LEMMA LinksStay ==
  ASSUME NEW m \in MemoryStates, NEW m2 \in MemoryStates, NEW q, Grows(m, m2, q), Linked(m)
  PROVE  /\ m2.stream_list = m.stream_list => PoolsMapped(m2)
         /\ m2.streams = m.streams => RingsMapped(m2) /\ Extends(m, m2)
         /\ Extends(m, m2) /\ m2.told = m.told => TellingsRight(m2)
<1>1. ASSUME m2.stream_list = m.stream_list PROVE PoolsMapped(m2)
  <2> SUFFICES ASSUME NEW p \in Procs, NEW i \in 1..Len(m2.stream_list[p])
               PROVE  PoolAt(m2, p, m2.stream_list[p][i])
    BY DEF PoolsMapped
  <2>1. PoolAt(m, p, m.stream_list[p][i])
    BY <1>1 DEF Linked, PoolsMapped
  <2> QED BY <1>1, <2>1, PoolStays
<1>2. ASSUME m2.streams = m.streams PROVE RingsMapped(m2) /\ Extends(m, m2)
  <2>1. m.streams \in Seq(StreamRecords)
    BY Fields
  <2>2. ASSUME NEW i \in 1..Len(m2.streams) PROVE RingAt(m2, m2.streams[i])
    <3>1. m.streams[i] \in StreamRecords /\ RingAt(m, m.streams[i])
      BY <1>2, <2>1 DEF Linked, RingsMapped
    <3> QED BY <1>2, <3>1, RingStays
  <2>3. Len(m.streams) <= Len(m2.streams)
    BY <1>2, <2>1
  <2> QED BY <1>2, <2>2, <2>3 DEF RingsMapped, Extends
<1>3. ASSUME Extends(m, m2), m2.told = m.told PROVE TellingsRight(m2)
  <2> SUFFICES ASSUME NEW t \in m2.told PROVE TellingAt(m2, t)
    BY DEF TellingsRight
  <2>1. TellingAt(m, t)
    BY <1>3 DEF Linked, TellingsRight
  <2> QED BY <1>3, <2>1, TellingStays
<1> QED BY <1>1, <1>2, <1>3

LEMMA StaysLinked ==
  ASSUME NEW m \in MemoryStates, NEW m2 \in MemoryStates, NEW q, Grows(m, m2, q), Linked(m),
         m2.stream_list = m.stream_list, m2.streams = m.streams, m2.told = m.told
  PROVE  Linked(m2)
BY LinksStay DEF Linked

-----------------------------------------------------------------------------
\* streamCreate, with its entry in the table.

Ring(m, reader, read_ptr, writer, write_ptr) ==
  [page |-> m.next,
   read_owner  |-> reader, read_ptr  |-> read_ptr, read_vaddr  |-> HeapAddress(m, reader),
   write_owner |-> writer, write_ptr |-> write_ptr, write_vaddr |-> HeapAddress(m, writer)]

LEMMA StreamCreateIsTwice ==
  ASSUME NEW m, NEW reader, NEW read_ptr, NEW writer, NEW write_ptr
  PROVE  LET e == Twice(m, reader, writer)
         IN  StreamCreate(m, reader, read_ptr, writer, write_ptr) =
               [e EXCEPT !.streams = Append(e.streams, Ring(m, reader, read_ptr, writer, write_ptr))]
BY DEF StreamCreate, Twice, Once, Ring

LEMMA RingIsStream ==
  ASSUME NEW m \in MemoryStates, NEW reader \in Procs, NEW writer \in Procs,
         NEW read_ptr \in Pointers, NEW write_ptr \in Pointers
  PROVE  Ring(m, reader, read_ptr, writer, write_ptr) \in StreamRecords
<1>1. m.next \in Nat /\ HeapAddress(m, reader) \in Nat /\ HeapAddress(m, writer) \in Nat
  BY Fields, Constants DEF HeapAddress
<1> QED BY <1>1 DEF Ring, StreamRecords

\* A stream more, whatever its address spaces are like.
StreamMore(m, m2, s) ==
  /\ m2 \in MemoryStates /\ m.next + 1 <= m2.next
  /\ m2.streams = Append(m.streams, s)
  /\ m2.stream_list = m.stream_list /\ m2.told = m.told /\ Account(m2) = Account(m)

LEMMA StreamCreateFields ==
  ASSUME NEW m \in MemoryStates, NEW reader \in Procs, NEW writer \in Procs, reader # writer,
         NEW read_ptr \in Pointers, NEW write_ptr \in Pointers
  PROVE  LET e  == Twice(m, reader, writer)
             m2 == StreamCreate(m, reader, read_ptr, writer, write_ptr)
         IN  /\ StreamMore(m, m2, Ring(m, reader, read_ptr, writer, write_ptr))
             /\ e \in MemoryStates
             /\ m2.next = e.next /\ m2.map = e.map /\ m2.mapped_pages = e.mapped_pages
<1> DEFINE e == Twice(m, reader, writer)
           m2 == StreamCreate(m, reader, read_ptr, writer, write_ptr)
           s == Ring(m, reader, read_ptr, writer, write_ptr)
<1>1. e \in MemoryStates /\ m.next + 1 <= e.next /\ Rest(e) = Rest(m)
  <2>1. LET f == Twice(m, reader, writer)
        IN  /\ f \in MemoryStates /\ m.next + 1 <= f.next
            /\ f.mapped_pages = [m.mapped_pages EXCEPT ![reader] = m.mapped_pages[reader] + 2,
                                                       ![writer] = m.mapped_pages[writer] + 2]
            /\ Rest(f) = Rest(m)
    BY TwiceFields
  <2> QED BY <2>1
<1>2. s \in StreamRecords
  BY RingIsStream
<1>3. m2 = [e EXCEPT !.streams = Append(e.streams, s)]
  BY StreamCreateIsTwice
<1> HIDE DEF e, m2, s
<1>4. e.streams = m.streams
  BY <1>1, SameRest
<1>5. Append(e.streams, s) \in Seq(StreamRecords)
  BY <1>1, <1>2, Fields
<1>6. m2 \in MemoryStates
  BY <1>1, <1>3, <1>5 DEF MemoryStates
<1>7. /\ m2.next = e.next /\ m2.map = e.map /\ m2.mapped_pages = e.mapped_pages
      /\ m2.streams = Append(e.streams, s)
      /\ m2.stack_pages = e.stack_pages /\ m2.stream_list = e.stream_list
      /\ m2.told = e.told /\ m2.keyboard = e.keyboard
      /\ m2.program = e.program /\ m2.copied = e.copied
      /\ m2.users = e.users /\ m2.started = e.started
  BY <1>1, <1>3 DEF MemoryStates
<1>8. m2.stream_list = m.stream_list /\ m2.told = m.told /\ Account(m2) = Account(m)
  BY <1>1, <1>7, SameRest DEF Account
<1>9. StreamMore(m, m2, s)
  BY <1>1, <1>4, <1>6, <1>7, <1>8 DEF StreamMore
<1> QED BY <1>1, <1>7, <1>9 DEF e, m2, s

\* What an operation for u leaves in order.
Serves(m, m2, u) ==
  /\ Steady(m2) /\ m.next <= m2.next
  /\ Grows(m, m2, Kernel) /\ OthersSame(m, m2, u)

LEMMA ServesOn ==
  ASSUME NEW m, NEW mid, NEW m2, NEW u, Steady(m), Serves(m, mid, u), Serves(mid, m2, u)
  PROVE  Serves(m, m2, u)
<1>1. m \in MemoryStates /\ mid \in MemoryStates /\ m2 \in MemoryStates
  BY DEF Serves, Steady, Pages
<1>2. m.next \in Nat /\ mid.next \in Nat /\ m2.next \in Nat
  BY <1>1, Fields
<1>3. m.next <= m2.next
  BY <1>2 DEF Serves
<1>4. Grows(m, m2, Kernel)
  BY <1>1, GrowsOn DEF Serves
<1>5. OthersSame(m, m2, u)
  BY OthersSameOn DEF Serves
<1> QED BY <1>3, <1>4, <1>5 DEF Serves

LEMMA StreamCreateServes ==
  ASSUME NEW m, Steady(m), NEW u \in Users, NEW reader, NEW writer, Ends(reader, writer, u),
         NEW read_ptr \in Pointers, NEW write_ptr \in Pointers,
         StreamCreate(m, reader, read_ptr, writer, write_ptr).next <= IdentityPages
  PROVE  Serves(m, StreamCreate(m, reader, read_ptr, writer, write_ptr), u)
<1> DEFINE e == Twice(m, reader, writer)
           m2 == StreamCreate(m, reader, read_ptr, writer, write_ptr)
           s == Ring(m, reader, read_ptr, writer, write_ptr)
<1>1. Pages(m) /\ TwicePaged(m) /\ Linked(m) /\ m \in MemoryStates
  BY DEF Steady, Pages
<1>2. reader \in Procs /\ writer \in Procs /\ reader # writer
  BY KernelIsProcess DEF Ends
<1>3. m.next \in Nat /\ m.mapped_pages \in [Procs -> Nat] /\ m.streams \in Seq(StreamRecords)
  BY <1>1, Fields
<1>4. /\ StreamMore(m, m2, s) /\ e \in MemoryStates
      /\ m2.next = e.next /\ m2.map = e.map /\ m2.mapped_pages = e.mapped_pages
  BY <1>1, <1>2, StreamCreateFields
<1>5. e.mapped_pages = [m.mapped_pages EXCEPT ![reader] = m.mapped_pages[reader] + 2,
                                              ![writer] = m.mapped_pages[writer] + 2]
  <2>1. LET f == Twice(m, reader, writer)
        IN  /\ f \in MemoryStates /\ m.next + 1 <= f.next
            /\ f.mapped_pages = [m.mapped_pages EXCEPT ![reader] = m.mapped_pages[reader] + 2,
                                                       ![writer] = m.mapped_pages[writer] + 2]
            /\ Rest(f) = Rest(m)
    BY <1>1, <1>2, TwiceFields
  <2> QED BY <2>1
<1>6. m2.next <= IdentityPages
  OBVIOUS
<1>7. s \in StreamRecords
  BY <1>1, <1>2, RingIsStream
<1>8. /\ s.page = m.next
      /\ s.read_owner = reader /\ s.read_vaddr = HeapAddress(m, reader)
      /\ s.write_owner = writer /\ s.write_vaddr = HeapAddress(m, writer)
  BY DEF Ring
<1> HIDE DEF m2, s
<1>9. /\ m2 \in MemoryStates /\ m2.next \in Nat /\ m.next + 1 <= m2.next
      /\ m2.streams = Append(m.streams, s)
      /\ m2.stream_list = m.stream_list /\ m2.told = m.told /\ Account(m2) = Account(m)
  BY <1>4, Fields DEF StreamMore
<1>10. \A q \in Procs : m.mapped_pages[q] \in Nat /\ m.mapped_pages[q] <= 2 * m.next
  BY <1>1, <1>3 DEF TwicePaged
<1>11. /\ m.mapped_pages[reader] + 2 <= 2 * IdentityPages
       /\ m.mapped_pages[writer] + 2 <= 2 * IdentityPages
  <2>1. IdentityPages \in Nat
    BY Constants
  <2>2. m.next \in Nat /\ m2.next \in Nat /\ m.next + 1 <= m2.next
    BY <1>3, <1>9
  <2>3. m.next + 1 <= IdentityPages
    BY <1>6, <2>1, <2>2
  <2>4. /\ m.mapped_pages[reader] \in Nat /\ m.mapped_pages[reader] <= 2 * m.next
        /\ m.mapped_pages[writer] \in Nat /\ m.mapped_pages[writer] <= 2 * m.next
    BY <1>2, <1>10
  <2> QED BY <2>1, <2>2, <2>3, <2>4
<1>12. /\ Pages(e) /\ Grows(m, e, Kernel) /\ OthersSame(m, e, u)
       /\ EndAt(e, reader, HeapAddress(m, reader), m.next)
       /\ EndAt(e, writer, HeapAddress(m, writer), m.next)
  BY <1>1, <1>11, TwiceKeeps
<1> HIDE DEF e
<1>13. /\ Grows(m, m2, Kernel) /\ OthersSame(m, m2, u)
       /\ EndAt(m2, reader, HeapAddress(m, reader), m.next)
       /\ EndAt(m2, writer, HeapAddress(m, writer), m.next)
  BY <1>4, <1>12 DEF Grows, OthersSame, EndAt
<1>14. Pages(m2)
  <2>1. m2.stack_pages = m.stack_pages
    BY <1>9, SameAccount
  <2>2. e.stack_pages = m.stack_pages
    <3>1. LET f == Twice(m, reader, writer)
          IN  /\ f \in MemoryStates /\ m.next + 1 <= f.next
              /\ f.mapped_pages = [m.mapped_pages EXCEPT ![reader] = m.mapped_pages[reader] + 2,
                                                         ![writer] = m.mapped_pages[writer] + 2]
              /\ Rest(f) = Rest(m)
      BY <1>1, <1>2, TwiceFields
    <3> QED BY <3>1, SameRest DEF e
  <2>3. e.next <= m2.next
    BY <1>4, <1>9
  <2> QED BY <1>4, <1>9, <1>12, <2>1, <2>2, <2>3, NextPages
<1>15. TwicePaged(m2)
  <2> SUFFICES ASSUME NEW q \in Procs PROVE m2.mapped_pages[q] <= 2 * m2.next
    BY DEF TwicePaged
  <2>1. m2.mapped_pages[q] \in {m.mapped_pages[q], m.mapped_pages[q] + 2}
    BY <1>2, <1>3, <1>4, <1>5
  <2> QED BY <1>3, <1>9, <1>10, <2>1
<1>16. Linked(m2)
  <2>1. PoolsMapped(m2)
    BY <1>1, <1>9, <1>13, LinksStay
  <2>2. RingAt(m2, s)
    BY <1>8, <1>13 DEF RingAt
  <2>3. ASSUME NEW i \in 1..Len(m.streams) PROVE RingAt(m2, m.streams[i])
    <3>1. m.streams[i] \in StreamRecords /\ RingAt(m, m.streams[i])
      BY <1>1, <1>3 DEF Linked, RingsMapped
    <3> QED BY <1>1, <1>13, <3>1, RingStays
  <2>4. /\ Len(m2.streams) = Len(m.streams) + 1 /\ Len(m.streams) \in Nat
        /\ \A i \in 1..Len(m.streams) : m2.streams[i] = m.streams[i]
        /\ m2.streams[Len(m.streams) + 1] = s
    BY <1>3, <1>7, <1>9
  <2>5. RingsMapped(m2)
    <3> SUFFICES ASSUME NEW i \in 1..Len(m2.streams) PROVE RingAt(m2, m2.streams[i])
      BY DEF RingsMapped
    <3>1. i \in 1..Len(m.streams) \/ i = Len(m.streams) + 1
      BY <2>4
    <3> QED BY <2>2, <2>3, <2>4, <3>1
  <2>6. Extends(m, m2)
    BY <2>4 DEF Extends
  <2>7. TellingsRight(m2)
    BY <1>1, <1>9, <1>13, <2>6, LinksStay
  <2> QED BY <2>1, <2>5, <2>7 DEF Linked
<1>17. m.next <= m2.next
  BY <1>3, <1>9
<1> QED BY <1>13, <1>14, <1>15, <1>16, <1>17 DEF Serves, Steady, m2

-----------------------------------------------------------------------------
\* Pointers: heapSmallAlloc, and what processes are sent.

\* A pointer more in the pool of p.
PoolMore(m, m2, p) ==
  /\ m2 \in MemoryStates /\ m.next <= m2.next
  /\ m2.streams = m.streams /\ m2.told = m.told /\ Account(m2) = Account(m)
  /\ \A q \in Procs : q # p => m2.stream_list[q] = m.stream_list[q]
  /\ m2.stream_list[p] # << >>

HasRoom(m, p) ==
  m.stream_list[p] # << >> /\ m.stream_list[p][Len(m.stream_list[p])].allocated < PerPool

LEMMA SmallAllocInPool ==
  ASSUME NEW m \in MemoryStates, NEW p \in Procs, HasRoom(m, p)
  PROVE  LET m2 == SmallAlloc(m, p)
             was == m.stream_list[p]
             now == m2.stream_list[p]
         IN  /\ PoolMore(m, m2, p)
             /\ m2.next = m.next /\ m2.map = m.map /\ m2.mapped_pages = m.mapped_pages
             /\ Len(now) = Len(was) /\ was \in Seq(PoolPages) /\ was # << >>
             /\ \A i \in 1..Len(was) : now[i].page = was[i].page /\ now[i].vaddr = was[i].vaddr
<1> DEFINE pool == m.stream_list[p]
           last == Len(pool)
           more == [pool EXCEPT ![last].allocated = pool[last].allocated + 1]
           m2 == SmallAlloc(m, p)
<1>1. m.stream_list \in [Procs -> Seq(PoolPages)] /\ pool \in Seq(PoolPages) /\ m.next \in Nat
  BY Fields
<1>2. pool # << >> /\ pool[last].allocated < PerPool
  BY DEF HasRoom
<1>3. m2 = [m EXCEPT !.stream_list[p] = more]
  <2>1. m2 = [m EXCEPT !.stream_list[p][Len(pool)].allocated = @ + 1]
    BY <1>2 DEF SmallAlloc
  <2> QED BY <1>1, <2>1 DEF MemoryStates
<1> HIDE DEF m2, pool
<1>4. last \in 1..Len(pool) /\ last \in Nat
  BY <1>1, <1>2
<1>5. pool[last] \in PoolPages /\ pool[last].allocated \in Nat
  <2>1. pool[last] \in PoolPages
    BY <1>1, <1>4
  <2> QED BY <2>1 DEF PoolPages
<1>6. [pool[last] EXCEPT !.allocated = pool[last].allocated + 1] \in PoolPages
  BY <1>5 DEF PoolPages
<1>7. /\ more \in Seq(PoolPages) /\ Len(more) = Len(pool) /\ more # << >>
      /\ \A i \in 1..Len(pool) : more[i].page = pool[i].page /\ more[i].vaddr = pool[i].vaddr
  <2> DEFINE x == [pool[last] EXCEPT !.allocated = pool[last].allocated + 1]
  <2>1. x \in PoolPages /\ x.page = pool[last].page /\ x.vaddr = pool[last].vaddr
    BY <1>5, <1>6 DEF PoolPages
  <2>2. more = [pool EXCEPT ![last] = x]
    BY <1>1, <1>4
  <2> HIDE DEF x
  <2>3. pool \in [1..Len(pool) -> PoolPages]
    BY <1>1
  <2>4. more \in [1..Len(pool) -> PoolPages]
    BY <1>4, <2>1, <2>2, <2>3
  <2>5. ASSUME NEW i \in 1..Len(pool)
        PROVE  more[i].page = pool[i].page /\ more[i].vaddr = pool[i].vaddr
    <3>1. CASE i = last
      BY <1>4, <2>1, <2>2, <2>3, <3>1
    <3>2. CASE i # last
      BY <1>4, <2>2, <2>3, <3>2
    <3> QED BY <3>1, <3>2
  <2> HIDE DEF more
  <2>6. more \in Seq(PoolPages) /\ Len(more) = Len(pool)
    BY <1>4, <2>4
  <2> QED BY <1>4, <2>5, <2>6
<1> HIDE DEF more
<1>8. m2.stream_list = [m.stream_list EXCEPT ![p] = more]
  BY <1>3 DEF MemoryStates
<1>9. m2.stream_list \in [Procs -> Seq(PoolPages)]
  BY <1>1, <1>7, <1>8
<1>10. m2 \in MemoryStates
  BY <1>1, <1>3, <1>7 DEF MemoryStates
<1>11. /\ m2.next = m.next /\ m2.map = m.map /\ m2.mapped_pages = m.mapped_pages
       /\ m2.streams = m.streams /\ m2.told = m.told /\ m2.stack_pages = m.stack_pages
       /\ m2.keyboard = m.keyboard /\ m2.program = m.program /\ m2.copied = m.copied
       /\ m2.users = m.users /\ m2.started = m.started
  BY <1>3 DEF MemoryStates
<1>12. m2.stream_list[p] = more /\ \A q \in Procs : q # p => m2.stream_list[q] = m.stream_list[q]
  BY <1>1, <1>8
<1>13. PoolMore(m, m2, p)
  BY <1>1, <1>7, <1>10, <1>11, <1>12 DEF PoolMore, Account
<1> QED BY <1>1, <1>2, <1>7, <1>11, <1>12, <1>13 DEF m2, pool

LEMMA SmallAllocNewPool ==
  ASSUME NEW m \in MemoryStates, NEW p \in Procs, ~HasRoom(m, p)
  PROVE  LET y  == MapHeapPage(AllocPage(m), p, m.next)
             m2 == SmallAlloc(m, p)
             x  == [page |-> m.next, vaddr |-> HeapAddress(m, p), allocated |-> 1]
         IN  /\ PoolMore(m, m2, p)
             /\ y \in MemoryStates /\ m.next + 1 <= y.next /\ Rest(y) = Rest(m)
             /\ m2.next = y.next /\ m2.map = y.map /\ m2.mapped_pages = y.mapped_pages
             /\ m2.stream_list[p] = Append(m.stream_list[p], x)
             /\ x \in PoolPages /\ m.stream_list[p] \in Seq(PoolPages)
<1> DEFINE a == AllocPage(m)
           y == MapHeapPage(a, p, m.next)
           x == [page |-> m.next, vaddr |-> HeapAddress(m, p), allocated |-> 1]
           m2 == SmallAlloc(m, p)
<1>1. /\ m.next \in Nat /\ m.stream_list \in [Procs -> Seq(PoolPages)]
      /\ m.stream_list[p] \in Seq(PoolPages)
  BY Fields
<1>2. x \in PoolPages
  <2>1. HeapAddress(m, p) \in Nat
    BY Fields, Constants DEF HeapAddress
  <2> QED BY <1>1, <2>1 DEF PoolPages
<1>3. a \in MemoryStates /\ a.next = m.next + 1 /\ Rest(a) = Rest(m)
  BY AllocPageFields
<1> HIDE DEF a
<1>4. /\ y \in MemoryStates /\ a.next <= y.next /\ Rest(y) = Rest(a)
  <2>1. OneMore(a, y, p)
    BY <1>1, <1>3, HeapPageCounts
  <2> HIDE DEF y
  <2> QED BY <2>1 DEF OneMore
<1>5. m2 = [y EXCEPT !.stream_list[p] = Append(@, x)]
  BY DEF SmallAlloc, HasRoom, a
<1> HIDE DEF m2, x, y
<1>6. /\ y.stack_pages = m.stack_pages /\ y.stream_list = m.stream_list
      /\ y.streams = m.streams /\ y.told = m.told /\ y.keyboard = m.keyboard
      /\ y.program = m.program /\ y.copied = m.copied
      /\ y.users = m.users /\ y.started = m.started
  BY <1>3, <1>4, SameRest
<1>7. Append(m.stream_list[p], x) \in Seq(PoolPages) /\ Append(m.stream_list[p], x) # << >>
  BY <1>1, <1>2
<1>8. m2.stream_list = [m.stream_list EXCEPT ![p] = Append(m.stream_list[p], x)]
  BY <1>4, <1>5, <1>6 DEF MemoryStates
<1>9. m2 \in MemoryStates
  BY <1>4, <1>5, <1>6, <1>7 DEF MemoryStates
<1>10. /\ m2.next = y.next /\ m2.map = y.map /\ m2.mapped_pages = y.mapped_pages
       /\ m2.streams = y.streams /\ m2.told = y.told /\ m2.stack_pages = y.stack_pages
       /\ m2.keyboard = y.keyboard /\ m2.program = y.program /\ m2.copied = y.copied
       /\ m2.users = y.users /\ m2.started = y.started
  BY <1>4, <1>5 DEF MemoryStates
<1>11. /\ m2.stream_list[p] = Append(m.stream_list[p], x)
       /\ \A q \in Procs : q # p => m2.stream_list[q] = m.stream_list[q]
  BY <1>1, <1>8
<1>12. m.next + 1 <= y.next /\ m.next <= m2.next
  <2>1. y.next \in Nat
    BY <1>4, Fields
  <2> QED BY <1>1, <1>3, <1>4, <1>10, <2>1
<1>13. PoolMore(m, m2, p)
  BY <1>6, <1>7, <1>9, <1>10, <1>11, <1>12 DEF PoolMore, Account
<1> QED BY <1>1, <1>2, <1>3, <1>4, <1>10, <1>11, <1>12, <1>13 DEF m2, x, y, a

LEMMA SmallAllocFields ==
  ASSUME NEW m \in MemoryStates, NEW p \in Procs
  PROVE  PoolMore(m, SmallAlloc(m, p), p)
BY SmallAllocInPool, SmallAllocNewPool

LEMMA NewPointerFields ==
  ASSUME NEW m \in MemoryStates, NEW p \in Procs, m.stream_list[p] # << >>
  PROVE  NewPointer(m, p) \in Pointers /\ NewVAddr(m, p) \in Pointers
<1> DEFINE pool == m.stream_list[p]
<1>1. pool \in Seq(PoolPages) /\ pool # << >>
  BY Fields
<1> HIDE DEF pool
<1>2. pool[Len(pool)] \in PoolPages
  BY <1>1
<1> QED BY <1>2 DEF NewPointer, NewVAddr, Pointers, PoolPages, pool

\* The address of the newest pointer of a pool is where the process finds it.
LEMMA NewPointerAt ==
  ASSUME NEW m \in MemoryStates, PoolsMapped(m), NEW p \in Procs, m.stream_list[p] # << >>
  PROVE  PointerAt(m, p, NewVAddr(m, p), NewPointer(m, p))
<1> DEFINE pool == m.stream_list[p]
           last == pool[Len(pool)]
<1>1. pool \in Seq(PoolPages) /\ pool # << >>
  BY Fields
<1>2. Len(pool) \in 1..Len(pool)
  <2> HIDE DEF pool
  <2> QED BY <1>1
<1>3. PoolAt(m, p, last)
  BY <1>2 DEF PoolsMapped
<1>4. last.vaddr \in Nat
  <2>1. last \in PoolPages
    <3> HIDE DEF pool
    <3> QED BY <1>1, <1>2
  <2> HIDE DEF last
  <2> QED BY <2>1 DEF PoolPages
<1>5. /\ NewVAddr(m, p).page = last.vaddr /\ NewVAddr(m, p).slot = last.allocated
      /\ NewPointer(m, p).page = last.page /\ NewPointer(m, p).slot = last.allocated
  BY DEF NewVAddr, NewPointer
<1> HIDE DEF last
<1>6. ~InWindow(last.vaddr)
  BY <1>3, <1>4, Constants DEF PoolAt, InHeap, InWindow
<1> QED BY <1>3, <1>5, <1>6 DEF PoolAt, PointerAt

LEMMA PointerStays ==
  ASSUME NEW m, NEW m2, NEW q, Grows(m, m2, q), NEW p \in Procs, NEW vaddr, NEW ptr,
         PointerAt(m, p, vaddr, ptr)
  PROVE  PointerAt(m2, p, vaddr, ptr)
BY DEF PointerAt, Grows

LEMMA SmallAllocServes ==
  ASSUME NEW m, Steady(m), NEW u \in Users, NEW p, p = Kernel \/ p = u,
         SmallAlloc(m, p).next <= IdentityPages
  PROVE  Serves(m, SmallAlloc(m, p), u)
<1> DEFINE m2 == SmallAlloc(m, p)
<1>1. Pages(m) /\ TwicePaged(m) /\ Linked(m) /\ m \in MemoryStates
  BY DEF Steady, Pages
<1>2. p \in Procs
  BY KernelIsProcess
<1>3. /\ m.next \in Nat /\ m.mapped_pages \in [Procs -> Nat]
      /\ m.stream_list \in [Procs -> Seq(PoolPages)]
  BY <1>1, Fields
<1>4. m2.next <= IdentityPages
  OBVIOUS
<1>5. PoolMore(m, m2, p)
  BY <1>1, <1>2, SmallAllocFields
<1>6. /\ m2 \in MemoryStates /\ m2.next \in Nat /\ m.next <= m2.next
      /\ m2.streams = m.streams /\ m2.told = m.told /\ Account(m2) = Account(m)
      /\ m2.stack_pages = m.stack_pages
      /\ \A q \in Procs : q # p => m2.stream_list[q] = m.stream_list[q]
  <2> HIDE DEF m2
  <2> QED BY <1>5, Fields, SameAccount DEF PoolMore
<1>7. CASE HasRoom(m, p)
  <2> DEFINE was == m.stream_list[p]
             now == m2.stream_list[p]
  <2>1. /\ m2.map = m.map /\ m2.mapped_pages = m.mapped_pages
        /\ Len(now) = Len(was)
        /\ \A i \in 1..Len(was) : now[i].page = was[i].page /\ now[i].vaddr = was[i].vaddr
    BY <1>1, <1>2, <1>7, SmallAllocInPool
  <2> HIDE DEF m2
  <2>2. Grows(m, m2, Kernel) /\ OthersSame(m, m2, u)
    <3>1. OthersSame(m, m2, Kernel)
      BY <1>6, <2>1, SameMapsGrow
    <3> QED BY <1>6, <2>1, <3>1, SameMapsGrow, OthersForKernel
  <2>3. Pages(m2)
    BY <1>1, <1>6, <2>1, NextPages
  <2>4. TwicePaged(m2)
    BY <1>1, <1>3, <1>6, <2>1 DEF TwicePaged
  <2>5. PoolsMapped(m2)
    <3> SUFFICES ASSUME NEW q \in Procs, NEW i \in 1..Len(m2.stream_list[q])
                 PROVE  PoolAt(m2, q, m2.stream_list[q][i])
      BY DEF PoolsMapped
    <3>1. CASE q = p
      <4>1. PoolAt(m, p, was[i])
        BY <1>1, <1>2, <2>1, <3>1 DEF Linked, PoolsMapped
      <4>2. PoolAt(m2, p, was[i])
        BY <1>1, <1>2, <2>2, <4>1, PoolStays
      <4> QED BY <2>1, <3>1, <4>2 DEF PoolAt
    <3>2. CASE q # p
      <4>1. PoolAt(m, q, m2.stream_list[q][i])
        BY <1>1, <1>6, <3>2 DEF Linked, PoolsMapped
      <4> QED BY <1>1, <2>2, <4>1, PoolStays
    <3> QED BY <3>1, <3>2
  <2>6. RingsMapped(m2) /\ TellingsRight(m2)
    BY <1>1, <1>6, <2>2, LinksStay
  <2> QED BY <1>6, <2>2, <2>3, <2>4, <2>5, <2>6 DEF Serves, Steady, Linked, m2
<1>8. CASE ~HasRoom(m, p)
  <2> DEFINE a == AllocPage(m)
             page == m.next
             y == MapHeapPage(a, p, page)
             x == [page |-> m.next, vaddr |-> HeapAddress(m, p), allocated |-> 1]
  <2>1. /\ y \in MemoryStates /\ m.next + 1 <= y.next /\ Rest(y) = Rest(m)
        /\ m2.next = y.next /\ m2.map = y.map /\ m2.mapped_pages = y.mapped_pages
        /\ m2.stream_list[p] = Append(m.stream_list[p], x)
        /\ x \in PoolPages /\ m.stream_list[p] \in Seq(PoolPages)
    BY <1>1, <1>2, <1>8, SmallAllocNewPool
  <2>2. x.page = page /\ x.vaddr = HeapAddress(m, p)
    OBVIOUS
  <2> HIDE DEF m2, x
  <2>3. /\ Pages(a) /\ a \in MemoryStates /\ a.mapped_pages = m.mapped_pages
        /\ Owns(a, u, page) /\ Grows(m, a, Kernel) /\ OthersSame(m, a, Kernel)
    BY <1>1, AllocKeeps
  <2> HIDE DEF a
  <2>4. Reached(m, a, u, page)
    <3>1. OthersSame(m, a, u)
      BY <2>3, OthersForKernel
    <3> QED BY <2>3, <3>1 DEF Reached
  <2>5. \A q \in Procs : m.mapped_pages[q] \in Nat /\ m.mapped_pages[q] <= 2 * m.next
    BY <1>1, <1>3 DEF TwicePaged
  <2>6. a.mapped_pages[p] < 2 * IdentityPages
    BY <1>2, <1>3, <1>4, <1>6, <2>1, <2>3, <2>5, Constants
  <2>7. /\ Reached(m, y, u, page)
        /\ HeapPageAt(y, p, HeapAddress(a, p), page)
    BY <1>1, <2>4, <2>6, ReachedOn
  <2>8. y.mapped_pages = [m.mapped_pages EXCEPT ![p] = m.mapped_pages[p] + 1]
    <3>1. OneMore(a, y, p)
      BY <1>2, <1>3, <2>3, HeapPageCounts
    <3> HIDE DEF y
    <3> QED BY <2>3, <3>1 DEF OneMore
  <2> HIDE DEF y
  <2>9. Pages(y) /\ Grows(m, y, Kernel) /\ OthersSame(m, y, u)
    BY <2>7 DEF Reached
  <2>10. Grows(m, m2, Kernel) /\ OthersSame(m, m2, u)
    BY <2>1, <2>9 DEF Grows, OthersSame
  <2>11. Pages(m2)
    <3>1. y.stack_pages = m2.stack_pages /\ y.next <= m2.next
      BY <1>6, <2>1, SameRest
    <3> QED BY <1>6, <2>1, <2>9, <3>1, NextPages
  <2>12. TwicePaged(m2)
    <3> SUFFICES ASSUME NEW q \in Procs PROVE m2.mapped_pages[q] <= 2 * m2.next
      BY DEF TwicePaged
    <3>1. m2.mapped_pages[q] \in {m.mapped_pages[q], m.mapped_pages[q] + 1}
      BY <1>2, <1>3, <2>1, <2>8
    <3>2. m.mapped_pages[q] \in Nat /\ m.mapped_pages[q] <= 2 * m.next
      BY <2>5
    <3>3. m.next \in Nat /\ m2.next \in Nat /\ m.next + 1 <= m2.next
      BY <1>3, <1>6, <2>1
    <3> QED BY <3>1, <3>2, <3>3
  <2>13. PoolAt(m2, p, x)
    <3>1. HeapAddress(a, p) = HeapAddress(m, p)
      BY <2>3 DEF HeapAddress
    <3> QED BY <2>1, <2>2, <2>7, <3>1 DEF HeapPageAt, PoolAt
  <2>14. PoolsMapped(m2)
    <3> SUFFICES ASSUME NEW q \in Procs, NEW i \in 1..Len(m2.stream_list[q])
                 PROVE  PoolAt(m2, q, m2.stream_list[q][i])
      BY DEF PoolsMapped
    <3>1. CASE q = p
      <4> DEFINE was == m.stream_list[p]
      <4>1. was \in Seq(PoolPages) /\ m2.stream_list[p] = Append(was, x)
        BY <2>1
      <4>2. \A j \in 1..Len(was) : PoolAt(m, p, was[j])
        BY <1>1, <1>2 DEF Linked, PoolsMapped
      <4> HIDE DEF was
      <4>3. \/ i \in 1..Len(was) /\ m2.stream_list[p][i] = was[i]
            \/ m2.stream_list[p][i] = x
        BY <2>1, <3>1, <4>1
      <4>4. CASE i \in 1..Len(was) /\ m2.stream_list[p][i] = was[i]
        <5>1. PoolAt(m, p, was[i])
          BY <4>2, <4>4
        <5> QED BY <1>1, <1>2, <2>10, <3>1, <4>4, <5>1, PoolStays
      <4> QED BY <2>13, <3>1, <4>3, <4>4
    <3>2. CASE q # p
      <4>1. PoolAt(m, q, m2.stream_list[q][i])
        BY <1>1, <1>6, <3>2 DEF Linked, PoolsMapped
      <4> QED BY <1>1, <2>10, <4>1, PoolStays
    <3> QED BY <3>1, <3>2
  <2>15. RingsMapped(m2) /\ TellingsRight(m2)
    BY <1>1, <1>6, <2>10, LinksStay
  <2> QED BY <1>6, <2>10, <2>11, <2>12, <2>14, <2>15 DEF Serves, Steady, Linked, m2
<1> QED BY <1>7, <1>8

\* The stream is the newest, and p finds its pointer at vaddr.
LEMMA TellFields ==
  ASSUME NEW m \in MemoryStates, NEW p \in Procs, NEW vaddr \in Pointers
  PROVE  LET m2 == Tell(m, p, vaddr)
             t  == [process |-> p, stream |-> Len(m.streams), vaddr |-> vaddr]
         IN  /\ m2 \in MemoryStates /\ m2.told = m.told \cup {t}
             /\ m2.next = m.next /\ m2.map = m.map /\ m2.mapped_pages = m.mapped_pages
             /\ m2.streams = m.streams /\ m2.stream_list = m.stream_list
             /\ Account(m2) = Account(m)
<1> DEFINE t == [process |-> p, stream |-> Len(m.streams), vaddr |-> vaddr]
           m2 == Tell(m, p, vaddr)
<1>1. m.told \in SUBSET Tellings /\ m.streams \in Seq(StreamRecords)
  BY Fields
<1>2. t \in Tellings
  <2>1. Len(m.streams) \in Nat
    BY <1>1
  <2> QED BY <2>1 DEF Tellings
<1>3. m2 = [m EXCEPT !.told = m.told \cup {t}]
  BY DEF Tell
<1> HIDE DEF m2, t
<1>4. m.told \cup {t} \in SUBSET Tellings
  BY <1>1, <1>2
<1>5. m2 \in MemoryStates
  BY <1>3, <1>4 DEF MemoryStates
<1>6. /\ m2.told = m.told \cup {t}
      /\ m2.next = m.next /\ m2.map = m.map /\ m2.mapped_pages = m.mapped_pages
      /\ m2.streams = m.streams /\ m2.stream_list = m.stream_list
      /\ m2.stack_pages = m.stack_pages /\ m2.keyboard = m.keyboard
      /\ m2.program = m.program /\ m2.copied = m.copied
      /\ m2.users = m.users /\ m2.started = m.started
  BY <1>3 DEF MemoryStates
<1>7. Account(m2) = Account(m)
  BY <1>6 DEF Account
<1> QED BY <1>5, <1>6, <1>7 DEF m2, t

LEMMA TellServes ==
  ASSUME NEW m, Steady(m), NEW u \in Users, NEW vaddr \in Pointers,
         NEW s, m.streams # << >>, s = m.streams[Len(m.streams)],
         PointerAt(m, u, vaddr, PointerOf(s, u))
  PROVE  Serves(m, Tell(m, u, vaddr), u)
<1> DEFINE t == [process |-> u, stream |-> Len(m.streams), vaddr |-> vaddr]
           m2 == Tell(m, u, vaddr)
<1>1. Pages(m) /\ TwicePaged(m) /\ Linked(m) /\ m \in MemoryStates
  BY DEF Steady, Pages
<1>2. u \in Procs /\ m.next \in Nat /\ m.streams \in Seq(StreamRecords)
  BY <1>1, KernelIsProcess, Fields
<1>3. /\ m2 \in MemoryStates /\ m2.told = m.told \cup {t}
      /\ m2.next = m.next /\ m2.map = m.map /\ m2.mapped_pages = m.mapped_pages
      /\ m2.streams = m.streams /\ m2.stream_list = m.stream_list
      /\ Account(m2) = Account(m)
  BY <1>1, <1>2, TellFields
<1>4. t.process = u /\ t.stream = Len(m.streams) /\ t.vaddr = vaddr
  OBVIOUS
<1> HIDE DEF m2, t
<1>5. m.next <= m2.next /\ m2.stack_pages = m.stack_pages
  BY <1>2, <1>3, SameAccount
<1>6. Grows(m, m2, Kernel) /\ OthersSame(m, m2, Kernel)
  BY <1>3, <1>5, SameMapsGrow
<1>7. OthersSame(m, m2, u)
  BY <1>6, OthersForKernel
<1>8. Pages(m2)
  BY <1>1, <1>3, <1>5, NextPages
<1>9. TwicePaged(m2)
  BY <1>1, <1>3 DEF TwicePaged
<1>10. PoolsMapped(m2) /\ RingsMapped(m2) /\ Extends(m, m2)
  BY <1>1, <1>3, <1>6, LinksStay
<1>11. TellingAt(m2, t)
  <2>1. t.stream \in 1..Len(m2.streams) /\ m2.streams[t.stream] = s
    BY <1>2, <1>3, <1>4
  <2>2. PointerAt(m2, t.process, t.vaddr, PointerOf(s, t.process))
    BY <1>3, <1>4 DEF PointerAt
  <2> QED BY <1>4, <2>1, <2>2 DEF TellingAt
<1>12. TellingsRight(m2)
  <2> SUFFICES ASSUME NEW o \in m2.told PROVE TellingAt(m2, o)
    BY DEF TellingsRight
  <2>1. CASE o = t
    BY <1>11, <2>1
  <2>2. CASE o \in m.told
    <3>1. TellingAt(m, o)
      BY <1>1, <2>2 DEF Linked, TellingsRight
    <3> QED BY <1>1, <1>3, <1>6, <1>10, <3>1, TellingStays
  <2> QED BY <1>3, <2>1, <2>2
<1> QED BY <1>5, <1>6, <1>7, <1>8, <1>9, <1>10, <1>12 DEF Serves, Steady, Linked, m2

-----------------------------------------------------------------------------
\* procInitUser: the address space.

\* A new page of p's, mapped at src.
NewPage(x, y, p, src) ==
  /\ y \in MemoryStates /\ x.next \in Nat /\ y.next \in Nat /\ x.next + 1 <= y.next
  /\ y.map = [x.map EXCEPT ![p] = Put(x.map[p], src, x.next)]
  /\ y.mapped_pages = x.mapped_pages /\ Rest(y) = Rest(x)
  /\ Apart(x) => Apart(y)

LEMMA NewPageMapped ==
  ASSUME NEW x \in MemoryStates, NEW p \in Procs, NEW src \in Nat
  PROVE  NewPage(x, MapPage(AllocPage(x), p, src, x.next), p, src)
<1> DEFINE a == AllocPage(x)
           page == x.next
           y == MapPage(a, p, src, page)
<1>1. /\ a \in MemoryStates /\ a.next = page + 1 /\ a.map = x.map
      /\ a.mapped_pages = x.mapped_pages /\ Rest(a) = Rest(x)
  BY AllocPageFields
<1>2. page \in Nat
  BY Fields
<1> HIDE DEF a
<1>3. /\ y \in MemoryStates /\ y.next \in {a.next, a.next + 1}
      /\ y.map = [a.map EXCEPT ![p] = Put(a.map[p], src, page)]
      /\ y.mapped_pages = a.mapped_pages /\ Rest(y) = Rest(a)
  <2> HIDE DEF page
  <2> QED BY <1>1, <1>2, MapPageFields
<1> HIDE DEF y
<1>4. a.next <= y.next /\ y.next \in Nat /\ page + 1 <= y.next
  BY <1>1, <1>2, <1>3
<1>5. ASSUME Apart(x) PROVE Apart(y)
  <2>1. page < a.next /\ page \in page..(a.next - 1)
    BY <1>1, <1>2
  <2>2. Apart(a) /\ Owns(a, p, page)
    BY <1>1, <1>5, <2>1, AllocOwns
  <2> QED BY <1>1, <1>2, <1>3, <1>4, <2>2, PutApart
<1>6. NewPage(x, y, p, src)
  BY <1>1, <1>2, <1>3, <1>4, <1>5 DEF NewPage
<1> QED BY <1>6 DEF y, a

\* The kernel's code, mapped to itself in a new directory.
Low(m, p) ==
  [WithTable(AllocPage(m), p, 0) EXCEPT !.map[p] = [page \in KernelCode |-> page]]

LEMMA LowFields ==
  ASSUME NEW m \in MemoryStates, NEW p \in Users
  PROVE  LET low == Low(m, p)
         IN  /\ low \in MemoryStates /\ m.next + 1 <= low.next
             /\ \A q \in Procs : q # p => low.map[q] = m.map[q]
             /\ DOMAIN low.map[p] = KernelCode
             /\ \A v \in KernelCode : low.map[p][v] = v
             /\ low.mapped_pages = m.mapped_pages /\ Rest(low) = Rest(m)
             /\ FirstPage <= m.next /\ Apart(m) => Apart(low)
<1> DEFINE a == AllocPage(m)
           w == WithTable(a, p, 0)
           code == [page \in KernelCode |-> page]
           low == Low(m, p)
<1>1. p \in Procs
  BY KernelIsProcess
<1>2. /\ a \in MemoryStates /\ a.next = m.next + 1 /\ a.map = m.map
      /\ a.mapped_pages = m.mapped_pages /\ Rest(a) = Rest(m)
  BY AllocPageFields
<1> HIDE DEF a
<1>3. /\ w \in MemoryStates /\ w.next \in {a.next, a.next + 1} /\ w.map = a.map
      /\ w.mapped_pages = a.mapped_pages /\ Rest(w) = Rest(a)
  BY <1>1, <1>2, WithTableFields
<1>4. low = [w EXCEPT !.map[p] = code]
  BY DEF Low, a
<1> HIDE DEF w, low
<1>5. /\ code \in PageTables /\ DOMAIN code = KernelCode
      /\ \A v \in KernelCode : code[v] = v
  <2>1. KernelCode \in SUBSET Nat
    BY Constants
  <2>2. code \in [KernelCode -> Nat]
    BY <2>1
  <2> QED BY <2>1, <2>2 DEF PageTables
<1> HIDE DEF code
<1>6. m.map \in [Procs -> PageTables] /\ m.next \in Nat
  BY Fields
<1>7. low \in MemoryStates
  BY <1>3, <1>4, <1>5 DEF MemoryStates
<1>8. /\ low.next = w.next /\ low.map = [w.map EXCEPT ![p] = code]
      /\ low.mapped_pages = w.mapped_pages /\ low.stack_pages = w.stack_pages
      /\ low.stream_list = w.stream_list /\ low.streams = w.streams /\ low.told = w.told
      /\ low.keyboard = w.keyboard /\ low.program = w.program /\ low.copied = w.copied
      /\ low.users = w.users /\ low.started = w.started
  BY <1>3, <1>4 DEF MemoryStates
<1>9. Rest(low) = Rest(m)
  BY <1>2, <1>3, <1>8 DEF Rest
<1>10. m.next + 1 <= low.next /\ low.next \in Nat
  BY <1>2, <1>3, <1>6, <1>8
<1>11. low.map[p] = code /\ \A q \in Procs : q # p => low.map[q] = m.map[q]
  BY <1>1, <1>2, <1>3, <1>6, <1>8
<1>12. ASSUME FirstPage <= m.next, Apart(m) PROVE Apart(low)
  <2>1. \A v \in KernelCode : low.map[p][v] = v /\ v < low.next
    BY <1>5, <1>6, <1>10, <1>11, <1>12, Constants
  <2>2. DOMAIN low.map[p] = KernelCode
    BY <1>5, <1>11
  <2>3. ASSUME NEW q \in Users, NEW v \in DOMAIN low.map[q] PROVE low.map[q][v] < low.next
    <3>1. CASE q = p
      BY <2>1, <2>2, <3>1
    <3>2. CASE q # p
      <4>1. q \in Procs /\ m.map[q] \in PageTables
        BY <1>6, KernelIsProcess
      <4>2. low.map[q] = m.map[q]
        BY <1>11, <3>2, <4>1
      <4>3. m.map[q][v] \in Nat /\ m.map[q][v] < m.next
        BY <1>12, <4>1, <4>2, TableEntries DEF Apart
      <4> QED BY <1>6, <1>10, <4>2, <4>3
    <3> QED BY <3>1, <3>2
  <2>4. ASSUME NEW q \in Users, NEW r \in Users, q # r,
               NEW v \in DOMAIN low.map[q], NEW x \in DOMAIN low.map[r],
               low.map[q][v] = low.map[r][x]
        PROVE  low.map[q][v] \in KernelCode
    <3>1. CASE q = p
      BY <2>1, <2>2, <3>1
    <3>2. CASE r = p
      BY <2>1, <2>2, <2>4, <3>2
    <3>3. CASE q # p /\ r # p
      <4>1. low.map[q] = m.map[q] /\ low.map[r] = m.map[r]
        BY <1>11, <3>3, KernelIsProcess
      <4> QED BY <1>12, <2>4, <4>1 DEF Apart
    <3> QED BY <3>1, <3>2, <3>3
  <2> QED BY <2>3, <2>4 DEF Apart
<1> QED BY <1>2, <1>3, <1>5, <1>7, <1>8, <1>9, <1>10, <1>11, <1>12 DEF low

\* The address space of a new process, whatever else there is.
SpaceMore(m, m2, p) ==
  /\ m2 \in MemoryStates /\ m.next + 1 <= m2.next
  /\ \A q \in Procs : q # p => m2.map[q] = m.map[q]
  /\ \E page \in Nat : /\ page < m2.next
                       /\ DOMAIN m2.map[p] = KernelCode \cup {page, StackStart - 1, SharedPage}
  /\ m2.mapped_pages = m.mapped_pages
  /\ m2.stack_pages = [m.stack_pages EXCEPT ![p] = 1]
  /\ m2.stream_list = m.stream_list /\ m2.streams = m.streams /\ m2.told = m.told
  /\ m2.keyboard = m.keyboard /\ m2.program = m.program /\ m2.copied = m.copied
  /\ m2.users = m.users \cup {p} /\ m2.started = m.started
  /\ FirstPage <= m.next /\ Apart(m) => Apart(m2)

LEMMA NewSpaceFields ==
  ASSUME NEW m \in MemoryStates, NEW p \in Users
  PROVE  SpaceMore(m, NewSpace(m, p), p)
<1> DEFINE low == Low(m, p)
           k == MapPage(AllocPage(low), p, low.next, low.next)
           st == MapPage(AllocPage(k), p, StackStart - 1, k.next)
           sh == MapPage(AllocPage(st), p, SharedPage, st.next)
           m2 == NewSpace(m, p)
<1>1. p \in Procs /\ m.next \in Nat
  BY KernelIsProcess, Fields
<1>2. /\ low \in MemoryStates /\ m.next + 1 <= low.next
      /\ \A q \in Procs : q # p => low.map[q] = m.map[q]
      /\ DOMAIN low.map[p] = KernelCode
      /\ low.mapped_pages = m.mapped_pages /\ Rest(low) = Rest(m)
      /\ FirstPage <= m.next /\ Apart(m) => Apart(low)
  BY LowFields
<1> HIDE DEF low
<1>3. low.next \in Nat
  BY <1>2, Fields
<1>4. NewPage(low, k, p, low.next)
  BY <1>1, <1>2, <1>3, NewPageMapped
<1> HIDE DEF k
<1>5. k \in MemoryStates
  BY <1>4 DEF NewPage
<1>6. StackStart - 1 \in Nat /\ SharedPage \in Nat
  BY Constants
<1>7. NewPage(k, st, p, StackStart - 1)
  BY <1>1, <1>5, <1>6, NewPageMapped
<1> HIDE DEF st
<1>8. st \in MemoryStates
  BY <1>7 DEF NewPage
<1>9. NewPage(st, sh, p, SharedPage)
  BY <1>1, <1>6, <1>8, NewPageMapped
<1> HIDE DEF sh
<1>10. sh \in MemoryStates
  BY <1>9 DEF NewPage
<1>11. m2 = [sh EXCEPT !.users = sh.users \cup {p}, !.stack_pages[p] = 1]
  BY DEF NewSpace, Low, low, k, st, sh
<1> HIDE DEF m2
<1>12. sh.mapped_pages = m.mapped_pages /\ Rest(sh) = Rest(m)
  BY <1>2, <1>4, <1>7, <1>9 DEF NewPage
<1>13. low.next < sh.next /\ m.next + 1 <= sh.next
  <2>1. /\ k.next \in Nat /\ st.next \in Nat /\ sh.next \in Nat
        /\ low.next + 1 <= k.next /\ k.next + 1 <= st.next /\ st.next + 1 <= sh.next
    BY <1>4, <1>7, <1>9 DEF NewPage
  <2> QED BY <1>1, <1>2, <1>3, <2>1
<1>14. /\ DOMAIN sh.map[p] = KernelCode \cup {low.next, StackStart - 1, SharedPage}
       /\ \A q \in Procs : q # p => sh.map[q] = m.map[q]
  <2>1. /\ DOMAIN k.map[p] = DOMAIN low.map[p] \cup {low.next}
        /\ \A q \in Procs : q # p => k.map[q] = low.map[q]
    BY <1>1, <1>2, <1>3, <1>4, PutAt DEF NewPage
  <2>2. /\ DOMAIN st.map[p] = DOMAIN k.map[p] \cup {StackStart - 1}
        /\ \A q \in Procs : q # p => st.map[q] = k.map[q]
    <3>1. k.next \in Nat /\ st.map = [k.map EXCEPT ![p] = Put(k.map[p], StackStart - 1, k.next)]
      BY <1>7 DEF NewPage
    <3> QED BY <1>1, <1>5, <1>6, <3>1, PutAt
  <2>3. /\ DOMAIN sh.map[p] = DOMAIN st.map[p] \cup {SharedPage}
        /\ \A q \in Procs : q # p => sh.map[q] = st.map[q]
    <3>1. st.next \in Nat /\ sh.map = [st.map EXCEPT ![p] = Put(st.map[p], SharedPage, st.next)]
      BY <1>9 DEF NewPage
    <3> QED BY <1>1, <1>6, <1>8, <3>1, PutAt
  <2> QED BY <1>2, <2>1, <2>2, <2>3
<1>15. FirstPage <= m.next /\ Apart(m) => Apart(sh)
  BY <1>2, <1>4, <1>7, <1>9 DEF NewPage
<1>16. sh.users \cup {p} \in SUBSET Users /\ sh.stack_pages \in [Procs -> Nat]
  BY <1>10, Fields
<1>17. m2 \in MemoryStates
  BY <1>10, <1>11, <1>16 DEF MemoryStates
<1>18. /\ m2.next = sh.next /\ m2.map = sh.map /\ m2.mapped_pages = sh.mapped_pages
       /\ m2.stack_pages = [sh.stack_pages EXCEPT ![p] = 1]
       /\ m2.stream_list = sh.stream_list /\ m2.streams = sh.streams /\ m2.told = sh.told
       /\ m2.keyboard = sh.keyboard /\ m2.program = sh.program /\ m2.copied = sh.copied
       /\ m2.users = sh.users \cup {p} /\ m2.started = sh.started
  BY <1>10, <1>11 DEF MemoryStates
<1>19. /\ sh.stack_pages = m.stack_pages /\ sh.stream_list = m.stream_list
       /\ sh.streams = m.streams /\ sh.told = m.told /\ sh.keyboard = m.keyboard
       /\ sh.program = m.program /\ sh.copied = m.copied
       /\ sh.users = m.users /\ sh.started = m.started
  BY <1>12, SameRest
<1>20. Apart(sh) => Apart(m2)
  BY <1>18 DEF Apart
<1>21. \E page \in Nat : /\ page < m2.next
                         /\ DOMAIN m2.map[p] = KernelCode \cup {page, StackStart - 1, SharedPage}
  <2> WITNESS low.next \in Nat
  <2> QED BY <1>13, <1>14, <1>18
<1>22. m.next + 1 <= m2.next /\ \A q \in Procs : q # p => m2.map[q] = m.map[q]
  BY <1>13, <1>14, <1>18
<1>23. SpaceMore(m, m2, p)
  BY <1>12, <1>15, <1>17, <1>18, <1>19, <1>20, <1>21, <1>22 DEF SpaceMore
<1> QED BY <1>23 DEF m2

LEMMA NewSpaceServes ==
  ASSUME NEW m, Steady(m), NEW p \in Users, DOMAIN m.map[p] = {},
         NewSpace(m, p).next <= IdentityPages
  PROVE  Serves(m, NewSpace(m, p), p) /\ SharedPage \in DOMAIN NewSpace(m, p).map[p]
<1> DEFINE m2 == NewSpace(m, p)
<1>1. Pages(m) /\ TwicePaged(m) /\ Linked(m) /\ m \in MemoryStates
  BY DEF Steady, Pages
<1>2. p \in Procs /\ m.next \in Nat
  BY <1>1, KernelIsProcess, Fields
<1>3. SpaceMore(m, m2, p)
  BY <1>1, NewSpaceFields
<1>4. m2.next <= IdentityPages
  OBVIOUS
<1> HIDE DEF m2
<1>5. /\ m2 \in MemoryStates /\ m.next + 1 <= m2.next
      /\ \A q \in Procs : q # p => m2.map[q] = m.map[q]
      /\ m2.mapped_pages = m.mapped_pages
      /\ m2.stack_pages = [m.stack_pages EXCEPT ![p] = 1]
      /\ m2.stream_list = m.stream_list /\ m2.streams = m.streams /\ m2.told = m.told
  BY <1>3 DEF SpaceMore
<1>6. PICK page \in Nat : /\ page < m2.next
                          /\ DOMAIN m2.map[p] = KernelCode \cup {page, StackStart - 1, SharedPage}
  BY <1>3 DEF SpaceMore
<1>7. m2.next \in Nat
  BY <1>5, Fields
<1>8. m.next <= m2.next /\ FirstPage <= m.next /\ FirstPage <= m2.next
  BY <1>1, <1>2, <1>5, <1>7, Constants DEF Pages
<1>9. Grows(m, m2, Kernel) /\ OthersSame(m, m2, p)
  BY <1>2, <1>5, <1>8 DEF Grows, OthersSame
<1>10. Apart(m2)
  BY <1>1, <1>3 DEF Pages, SpaceMore
<1>11. ASSUME NEW v \in DOMAIN m2.map[p] PROVE ~InHeap(v) /\ (InStack(v) => v >= StackStart - 1)
  <2>1. CASE v \in KernelCode \cup {page}
    <3>1. v \in Nat /\ v < IdentityPages
      BY <1>4, <1>6, <1>7, <1>8, <2>1, Constants
    <3> QED BY <3>1, Constants, Layout DEF InHeap, InStack
  <2>2. CASE v = StackStart - 1
    <3>1. LoaderBase <= v
      BY <1>2, <1>4, <1>5, <1>7, <2>2, Constants, Layout
    <3> QED BY <2>2, <3>1, Constants DEF InHeap
  <2>3. CASE v = SharedPage
    <3>1. StackStart <= v /\ LoaderBase <= v
      BY <2>3, Constants, Layout
    <3> QED BY <2>3, <3>1, Constants DEF InHeap, InStack
  <2> QED BY <1>6, <2>1, <2>2, <2>3
<1>12. HeapBelow(m2)
  <2> SUFFICES ASSUME NEW q \in Procs, NEW v \in DOMAIN m2.map[q], InHeap(v)
               PROVE  v < HeapStart + m2.mapped_pages[q]
    BY DEF HeapBelow
  <2>1. q # p
    BY <1>11
  <2> QED BY <1>1, <1>5, <2>1 DEF Pages, HeapBelow
<1>13. StackAbove(m2)
  <2> SUFFICES ASSUME NEW q \in Users, NEW v \in DOMAIN m2.map[q], InStack(v)
               PROVE  v >= StackStart - m2.stack_pages[q]
    BY DEF StackAbove
  <2>1. m.stack_pages \in [Procs -> Nat] /\ q \in Procs
    BY <1>1, Fields, KernelIsProcess
  <2>2. CASE q = p
    <3>1. m2.stack_pages[p] = 1
      BY <1>2, <1>5, <2>1
    <3> QED BY <1>11, <2>2, <3>1
  <2>3. CASE q # p
    <3>1. m2.stack_pages[q] = m.stack_pages[q] /\ m2.map[q] = m.map[q]
      BY <1>5, <2>1, <2>3
    <3> QED BY <1>1, <3>1 DEF Pages, StackAbove
  <2> QED BY <2>2, <2>3
<1>14. TwicePaged(m2)
  <2> SUFFICES ASSUME NEW q \in Procs PROVE m2.mapped_pages[q] <= 2 * m2.next
    BY DEF TwicePaged
  <2>1. m.mapped_pages[q] <= 2 * m.next /\ m.mapped_pages[q] \in Nat
    BY <1>1, Fields DEF TwicePaged
  <2> QED BY <1>2, <1>5, <1>7, <1>8, <2>1
<1>15. Linked(m2)
  BY <1>1, <1>5, <1>9, StaysLinked
<1>16. SharedPage \in DOMAIN m2.map[p]
  BY <1>6
<1> QED BY <1>5, <1>8, <1>9, <1>10, <1>12, <1>13, <1>14, <1>15, <1>16 DEF Serves, Steady, Pages, m2

-----------------------------------------------------------------------------
\* procInitUser: the streams.

\* What is done for u in its pool and with its streams.
StreamsMore(m, m2, u, n) ==
  /\ m2 \in MemoryStates /\ m.next <= m2.next
  /\ m2.streams \in Seq(StreamRecords) /\ Len(m2.streams) = Len(m.streams) + n
  /\ \A q \in Procs : q # u /\ q # Kernel => m2.stream_list[q] = m.stream_list[q]
  /\ Account(m2) = Account(m)

LEMMA StreamsMoreOn ==
  ASSUME NEW m \in MemoryStates, NEW mid, NEW m2, NEW u, NEW k \in Nat, NEW n \in Nat,
         StreamsMore(m, mid, u, k), StreamsMore(mid, m2, u, n)
  PROVE  StreamsMore(m, m2, u, k + n)
<1>1. /\ mid \in MemoryStates /\ m2 \in MemoryStates /\ m.next <= mid.next
      /\ mid.next <= m2.next /\ m2.streams \in Seq(StreamRecords)
      /\ Len(mid.streams) = Len(m.streams) + k /\ Len(m2.streams) = Len(mid.streams) + n
      /\ Account(m2) = Account(m)
  BY DEF StreamsMore
<1>2. m.next \in Nat /\ mid.next \in Nat /\ m2.next \in Nat /\ m.streams \in Seq(StreamRecords)
  BY <1>1, Fields
<1>3. m.next <= m2.next
  BY <1>1, <1>2
<1>4. Len(m2.streams) = Len(m.streams) + (k + n)
  <2>1. Len(m.streams) \in Nat
    BY <1>2
  <2>2. \A l \in Nat : (l + k) + n = l + (k + n)
    OBVIOUS
  <2>3. Len(m2.streams) = (Len(m.streams) + k) + n
    BY <1>1
  <2> QED BY <2>1, <2>2, <2>3
<1>5. \A q \in Procs : q # u /\ q # Kernel => m2.stream_list[q] = m.stream_list[q]
  BY DEF StreamsMore
<1> QED BY <1>1, <1>3, <1>4, <1>5 DEF StreamsMore

LEMMA StreamCreateMore ==
  ASSUME NEW m \in MemoryStates, NEW u \in Users, NEW reader, NEW writer, Ends(reader, writer, u),
         NEW read_ptr \in Pointers, NEW write_ptr \in Pointers
  PROVE  LET m2 == StreamCreate(m, reader, read_ptr, writer, write_ptr)
             s  == Ring(m, reader, read_ptr, writer, write_ptr)
         IN  /\ StreamsMore(m, m2, u, 1)
             /\ m2.streams # << >> /\ m2.streams[Len(m2.streams)] = s
             /\ m2.stream_list = m.stream_list
<1> DEFINE m2 == StreamCreate(m, reader, read_ptr, writer, write_ptr)
           s == Ring(m, reader, read_ptr, writer, write_ptr)
<1>1. reader \in Procs /\ writer \in Procs /\ reader # writer
  BY KernelIsProcess DEF Ends
<1>2. StreamMore(m, m2, s)
  BY <1>1, StreamCreateFields
<1>3. s \in StreamRecords
  BY <1>1, RingIsStream
<1> HIDE DEF m2, s
<1>4. /\ m2 \in MemoryStates /\ m.next + 1 <= m2.next
      /\ m2.streams = Append(m.streams, s)
      /\ m2.stream_list = m.stream_list /\ Account(m2) = Account(m)
  BY <1>2 DEF StreamMore
<1>5. m.next \in Nat /\ m2.next \in Nat /\ m.streams \in Seq(StreamRecords)
  BY <1>4, Fields
<1>6. m.next <= m2.next
  BY <1>4, <1>5
<1>7. /\ m2.streams \in Seq(StreamRecords) /\ Len(m2.streams) = Len(m.streams) + 1
      /\ m2.streams # << >> /\ m2.streams[Len(m2.streams)] = s
  BY <1>3, <1>4, <1>5
<1>8. StreamsMore(m, m2, u, 1)
  BY <1>4, <1>6, <1>7 DEF StreamsMore
<1> QED BY <1>4, <1>7, <1>8 DEF m2, s

LEMMA SmallAllocMore ==
  ASSUME NEW m \in MemoryStates, NEW u \in Users, NEW p, p = Kernel \/ p = u
  PROVE  LET m2 == SmallAlloc(m, p)
         IN  /\ StreamsMore(m, m2, u, 0) /\ m2.streams = m.streams
             /\ m2.stream_list[p] # << >>
             /\ \A q \in Procs : q # p => m2.stream_list[q] = m.stream_list[q]
<1> DEFINE m2 == SmallAlloc(m, p)
<1>1. p \in Procs
  BY KernelIsProcess
<1>2. PoolMore(m, m2, p)
  BY <1>1, SmallAllocFields
<1> HIDE DEF m2
<1>3. m.streams \in Seq(StreamRecords) /\ Len(m.streams) = Len(m.streams) + 0
  <2>1. m.streams \in Seq(StreamRecords)
    BY Fields
  <2>2. Len(m.streams) \in Nat
    BY <2>1
  <2> QED BY <2>1, <2>2
<1> QED BY <1>2, <1>3 DEF PoolMore, StreamsMore, m2

LEMMA TellMore ==
  ASSUME NEW m \in MemoryStates, NEW u \in Users, NEW vaddr \in Pointers
  PROVE  /\ StreamsMore(m, Tell(m, u, vaddr), u, 0)
         /\ Tell(m, u, vaddr).stream_list = m.stream_list
<1> DEFINE m2 == Tell(m, u, vaddr)
<1>1. u \in Procs
  BY KernelIsProcess
<1>2. /\ m2 \in MemoryStates /\ m2.next = m.next
      /\ m2.streams = m.streams /\ m2.stream_list = m.stream_list
      /\ Account(m2) = Account(m)
  BY <1>1, TellFields
<1> HIDE DEF m2
<1>3. m.streams \in Seq(StreamRecords) /\ Len(m.streams) = Len(m.streams) + 0 /\ m.next <= m2.next
  <2>1. m.streams \in Seq(StreamRecords) /\ m.next \in Nat
    BY Fields
  <2>2. Len(m.streams) \in Nat
    BY <2>1
  <2> QED BY <1>2, <2>1, <2>2
<1> QED BY <1>2, <1>3 DEF StreamsMore, m2

LEMMA WithStdStreamsKeeps ==
  ASSUME NEW m \in MemoryStates, NEW p \in Users, SharedPage \in DOMAIN m.map[p]
  PROVE  LET m2 == WithStdStreams(m, p)
         IN  /\ StreamsMore(m, m2, p, 2)
             /\ Steady(m) /\ m2.next <= IdentityPages => Serves(m, m2, p)
<1> DEFINE shared == [page |-> m.map[p][SharedPage], slot |-> 0]
           told_at == [page |-> SharedPage, slot |-> 0]
           in == Ring(m, p, shared, Kernel, KernelPointer)
           stdin == StreamCreate(m, p, shared, Kernel, KernelPointer)
           told == Tell(stdin, p, told_at)
           list == SmallAlloc(told, p)
           ptr == NewPointer(list, p)
           out == Ring(list, Kernel, KernelPointer, p, ptr)
           stdout == StreamCreate(list, Kernel, KernelPointer, p, ptr)
           vaddr == NewVAddr(stdout, p)
           m2 == Tell(stdout, p, vaddr)
<1>1. p \in Procs /\ p # Kernel
  BY KernelIsProcess
<1>2. shared \in Pointers /\ told_at \in Pointers /\ KernelPointer \in Pointers
  <2>1. m.map[p] \in PageTables
    BY <1>1, Fields
  <2>2. m.map[p][SharedPage] \in Nat
    BY <2>1, TableEntries
  <2> QED BY <2>2, Constants DEF Pointers, KernelPointer
<1>3. Ends(p, Kernel, p) /\ Ends(Kernel, p, p)
  BY DEF Ends
<1>4. /\ in.read_owner = p /\ in.read_ptr = shared
      /\ out.read_owner = Kernel /\ out.write_ptr = ptr
      /\ told_at.page = SharedPage /\ told_at.slot = 0
      /\ shared.page = m.map[p][SharedPage] /\ shared.slot = 0
  BY DEF Ring
<1> HIDE DEF shared, told_at, in
<1>5. /\ StreamsMore(m, stdin, p, 1)
      /\ stdin.streams # << >> /\ stdin.streams[Len(stdin.streams)] = in
  BY <1>2, <1>3, StreamCreateMore DEF in
<1>6. m2 = WithStdStreams(m, p)
  BY DEF WithStdStreams, shared, told_at
<1> HIDE DEF stdin
<1>7. stdin \in MemoryStates /\ m.next <= stdin.next
  BY <1>5 DEF StreamsMore
<1>8. StreamsMore(stdin, told, p, 0)
  BY <1>2, <1>7, TellMore
<1> HIDE DEF told
<1>9. told \in MemoryStates /\ stdin.next <= told.next
  BY <1>8 DEF StreamsMore
<1>10. StreamsMore(told, list, p, 0) /\ list.stream_list[p] # << >>
  BY <1>9, SmallAllocMore
<1> HIDE DEF list
<1>11. list \in MemoryStates /\ told.next <= list.next
  BY <1>10 DEF StreamsMore
<1>12. ptr \in Pointers
  BY <1>1, <1>10, <1>11, NewPointerFields
<1> HIDE DEF ptr, out
<1>13. /\ StreamsMore(list, stdout, p, 1)
       /\ stdout.streams # << >> /\ stdout.streams[Len(stdout.streams)] = out
       /\ stdout.stream_list = list.stream_list
  BY <1>2, <1>3, <1>11, <1>12, StreamCreateMore DEF out
<1> HIDE DEF stdout
<1>14. stdout \in MemoryStates /\ list.next <= stdout.next
  BY <1>13 DEF StreamsMore
<1>15. vaddr \in Pointers /\ vaddr = NewVAddr(list, p)
  <2>1. stdout.stream_list[p] # << >>
    BY <1>10, <1>13
  <2> QED BY <1>1, <1>13, <1>14, <2>1, NewPointerFields DEF NewVAddr
<1> HIDE DEF vaddr
<1>16. StreamsMore(stdout, m2, p, 0)
  BY <1>14, <1>15, TellMore
<1> HIDE DEF m2
<1>17. StreamsMore(m, m2, p, 2)
  <2>1. StreamsMore(m, told, p, 1 + 0)
    BY <1>5, <1>8, StreamsMoreOn
  <2>2. StreamsMore(m, list, p, 1 + 0 + 0)
    BY <1>10, <2>1, StreamsMoreOn
  <2>3. StreamsMore(m, stdout, p, 1 + 0 + 0 + 1)
    BY <1>13, <2>2, StreamsMoreOn
  <2>4. StreamsMore(m, m2, p, 1 + 0 + 0 + 1 + 0)
    BY <1>16, <2>3, StreamsMoreOn
  <2>5. 1 + 0 + 0 + 1 + 0 = 2
    OBVIOUS
  <2> QED BY <2>4, <2>5
<1>18. ASSUME Steady(m), m2.next <= IdentityPages PROVE Serves(m, m2, p)
  <2>1. /\ stdin.next <= IdentityPages /\ told.next <= IdentityPages
        /\ list.next <= IdentityPages /\ stdout.next <= IdentityPages
    <3>1. m2 \in MemoryStates /\ stdout.next <= m2.next
      BY <1>16 DEF StreamsMore
    <3>2. /\ stdin.next \in Nat /\ told.next \in Nat /\ list.next \in Nat
          /\ stdout.next \in Nat /\ m2.next \in Nat
      BY <1>7, <1>9, <1>11, <1>14, <3>1, Fields
    <3> QED BY <1>9, <1>11, <1>14, <1>18, <3>1, <3>2, Constants
  <2>2. Serves(m, stdin, p)
    BY <1>2, <1>3, <1>18, <2>1, StreamCreateServes DEF stdin
  <2>3. Steady(stdin) /\ Grows(m, stdin, Kernel)
    BY <2>2 DEF Serves
  <2>4. PointerAt(stdin, p, told_at, PointerOf(in, p))
    <3>1. ~InWindow(SharedPage)
      BY Constants, Layout DEF InWindow
    <3>2. PointerAt(m, p, told_at, shared)
      BY <1>4, <3>1 DEF PointerAt
    <3>3. PointerAt(stdin, p, told_at, shared)
      BY <1>1, <2>3, <3>2, PointerStays
    <3> QED BY <1>4, <3>3 DEF PointerOf
  <2>5. Serves(stdin, told, p)
    BY <1>2, <1>5, <2>3, <2>4, TellServes DEF told
  <2>6. Steady(told)
    BY <2>5 DEF Serves
  <2>7. Serves(told, list, p)
    BY <2>1, <2>6, SmallAllocServes DEF list
  <2>8. Steady(list)
    BY <2>7 DEF Serves
  <2>9. Serves(list, stdout, p)
    BY <1>2, <1>3, <1>12, <2>1, <2>8, StreamCreateServes DEF stdout
  <2>10. Steady(stdout) /\ Grows(list, stdout, Kernel)
    BY <2>9 DEF Serves
  <2>11. PointerAt(stdout, p, vaddr, PointerOf(out, p))
    <3>1. PoolsMapped(list)
      BY <2>8 DEF Steady, Linked
    <3>2. PointerAt(list, p, NewVAddr(list, p), NewPointer(list, p))
      BY <1>1, <1>10, <1>11, <3>1, NewPointerAt
    <3>3. PointerAt(stdout, p, vaddr, ptr)
      BY <1>1, <1>15, <2>10, <3>2, PointerStays DEF ptr
    <3>4. PointerOf(out, p) = ptr
      BY <1>1, <1>4 DEF PointerOf, out
    <3> QED BY <3>3, <3>4
  <2>12. Serves(stdout, m2, p)
    BY <1>13, <1>15, <2>10, <2>11, TellServes DEF m2
  <2>13. Serves(m, told, p)
    BY <1>18, <2>2, <2>5, ServesOn
  <2>14. Serves(m, list, p)
    BY <1>18, <2>7, <2>13, ServesOn
  <2>15. Serves(m, stdout, p)
    BY <1>18, <2>9, <2>14, ServesOn
  <2> QED BY <1>18, <2>12, <2>15, ServesOn
<1> QED BY <1>6, <1>17, <1>18

\* procInitUser.
LEMMA InitUserKeeps ==
  ASSUME NEW m \in MemoryStates, NEW p \in Users
  PROVE  LET m2 == InitUser(m, p)
         IN  /\ m2 \in MemoryStates /\ m.next <= m2.next
             /\ m2.streams \in Seq(StreamRecords) /\ Len(m2.streams) = Len(m.streams) + 2
             /\ \A q \in Procs : q # p /\ q # Kernel => m2.stream_list[q] = m.stream_list[q]
             /\ m2.keyboard = m.keyboard /\ m2.program = m.program /\ m2.copied = m.copied
             /\ m2.users = m.users \cup {p} /\ m2.started = m.started
             /\ Steady(m) /\ DOMAIN m.map[p] = {} /\ m2.next <= IdentityPages =>
                  Serves(m, m2, p)
<1> DEFINE x == NewSpace(m, p)
           m2 == InitUser(m, p)
<1>1. SpaceMore(m, x, p) /\ m.next \in Nat
  BY NewSpaceFields, Fields
<1>2. m2 = WithStdStreams(x, p)
  BY DEF InitUser
<1>3. /\ x \in MemoryStates /\ m.next + 1 <= x.next /\ x.next \in Nat
      /\ x.streams = m.streams /\ x.stream_list = m.stream_list
      /\ x.keyboard = m.keyboard /\ x.program = m.program /\ x.copied = m.copied
      /\ x.users = m.users \cup {p} /\ x.started = m.started
      /\ SharedPage \in DOMAIN x.map[p]
  <2> HIDE DEF x
  <2> QED BY <1>1, Fields DEF SpaceMore
<1> HIDE DEF m2
<1>4. /\ StreamsMore(x, m2, p, 2)
      /\ Steady(x) /\ m2.next <= IdentityPages => Serves(x, m2, p)
  <2> HIDE DEF x
  <2> QED BY <1>2, <1>3, WithStdStreamsKeeps
<1>5. /\ m2 \in MemoryStates /\ x.next <= m2.next /\ m2.next \in Nat
      /\ m2.streams \in Seq(StreamRecords) /\ Len(m2.streams) = Len(m.streams) + 2
      /\ \A q \in Procs : q # p /\ q # Kernel => m2.stream_list[q] = m.stream_list[q]
      /\ Account(m2) = Account(x)
  <2> HIDE DEF x
  <2> QED BY <1>3, <1>4, Fields DEF StreamsMore
<1>6. /\ m2.keyboard = m.keyboard /\ m2.program = m.program /\ m2.copied = m.copied
      /\ m2.users = m.users \cup {p} /\ m2.started = m.started
  <2> HIDE DEF x
  <2> QED BY <1>3, <1>5, SameAccount
<1>7. m.next <= m2.next
  <2> HIDE DEF x
  <2> QED BY <1>1, <1>3, <1>5
<1>8. ASSUME Steady(m), DOMAIN m.map[p] = {}, m2.next <= IdentityPages
      PROVE  Serves(m, m2, p)
  <2>1. x.next <= IdentityPages
    <3> HIDE DEF x
    <3> QED BY <1>3, <1>5, <1>8, Constants
  <2>2. Serves(m, x, p)
    BY <1>8, <2>1, NewSpaceServes
  <2> HIDE DEF x
  <2>3. Serves(x, m2, p)
    BY <1>4, <1>8, <2>2 DEF Serves
  <2> QED BY <1>8, <2>2, <2>3, ServesOn
<1> QED BY <1>5, <1>6, <1>7, <1>8 DEF m2

-----------------------------------------------------------------------------
\* loadELF: the program headers, one by one.

MapHeader(x, p, header, n) ==
  MapPage(MapPage(AllocPage(x), p, header, x.next), Kernel, LoaderBase + n - 1, x.next)

\* The page is the process's and the window's.
HeaderMapped(x, z, p, header, n) ==
  /\ z \in MemoryStates /\ x.next + 1 <= z.next
  /\ z.mapped_pages = x.mapped_pages /\ Rest(z) = Rest(x)
  /\ \A q \in Procs : q # p /\ q # Kernel => z.map[q] = x.map[q]
  /\ DOMAIN z.map[p] = DOMAIN x.map[p] \cup {header}
  /\ z.map[p][header] = x.next
  /\ \A v \in DOMAIN x.map[p] : v # header => z.map[p][v] = x.map[p][v]
  /\ DOMAIN z.map[Kernel] = DOMAIN x.map[Kernel] \cup {LoaderBase + n - 1}
  /\ z.map[Kernel][LoaderBase + n - 1] = x.next
  /\ \A v \in DOMAIN x.map[Kernel] : v # LoaderBase + n - 1 => z.map[Kernel][v] = x.map[Kernel][v]

LEMMA MapHeaderFields ==
  ASSUME NEW x \in MemoryStates, NEW p \in Users, NEW header \in Nat, NEW n \in Nat \ {0}
  PROVE  HeaderMapped(x, MapHeader(x, p, header, n), p, header, n)
<1> DEFINE page == x.next
           y == MapPage(AllocPage(x), p, header, page)
           place == LoaderBase + n - 1
           z == MapPage(y, Kernel, place, page)
<1>1. p \in Procs /\ p # Kernel /\ Kernel \in Procs /\ place \in Nat /\ page \in Nat
  BY KernelIsProcess, Fields, Constants
<1>2. NewPage(x, y, p, header)
  BY <1>1, NewPageMapped
<1>3. z = MapHeader(x, p, header, n)
  BY DEF MapHeader
<1> HIDE DEF y, place
<1>4. /\ y \in MemoryStates /\ y.next \in Nat /\ page + 1 <= y.next
      /\ y.map = [x.map EXCEPT ![p] = Put(x.map[p], header, page)]
      /\ y.mapped_pages = x.mapped_pages /\ Rest(y) = Rest(x)
  BY <1>2 DEF NewPage
<1> HIDE DEF page
<1>5. /\ z \in MemoryStates /\ z.next \in {y.next, y.next + 1}
      /\ z.map = [y.map EXCEPT ![Kernel] = Put(y.map[Kernel], place, page)]
      /\ z.mapped_pages = y.mapped_pages /\ Rest(z) = Rest(y)
  <2>1. \A q \in Procs :
          LET w == MapPage(y, q, place, page)
          IN  /\ w \in MemoryStates /\ w.next \in {y.next, y.next + 1}
              /\ w.map = [y.map EXCEPT ![q] = Put(y.map[q], place, page)]
              /\ w.mapped_pages = y.mapped_pages /\ Rest(w) = Rest(y)
    <3>1. y \in MemoryStates /\ place \in Nat /\ page \in Nat
      BY <1>1, <1>4
    <3> QED BY <3>1, MapPageFields
  <2> QED BY <1>1, <2>1
<1> HIDE DEF z
<1>6. /\ DOMAIN y.map[p] = DOMAIN x.map[p] \cup {header} /\ y.map[p][header] = page
      /\ \A v \in DOMAIN x.map[p] : v # header => y.map[p][v] = x.map[p][v]
      /\ \A q \in Procs : q # p => y.map[q] = x.map[q]
  BY <1>1, <1>4, PutAt
<1>7. /\ DOMAIN z.map[Kernel] = DOMAIN y.map[Kernel] \cup {place}
      /\ z.map[Kernel][place] = page
      /\ \A v \in DOMAIN y.map[Kernel] : v # place => z.map[Kernel][v] = y.map[Kernel][v]
      /\ \A q \in Procs : q # Kernel => z.map[q] = y.map[q]
  <2>1. \A k \in Procs : z.map = [y.map EXCEPT ![k] = Put(y.map[k], place, page)] =>
          /\ DOMAIN z.map[k] = DOMAIN y.map[k] \cup {place}
          /\ z.map[k][place] = page
          /\ \A v \in DOMAIN y.map[k] : v # place => z.map[k][v] = y.map[k][v]
          /\ \A q \in Procs : q # k => z.map[q] = y.map[q]
    BY <1>1, <1>4, PutAt
  <2> QED BY <1>1, <1>5, <2>1
<1>8. page + 1 <= z.next
  BY <1>1, <1>4, <1>5
<1>9. z.mapped_pages = x.mapped_pages /\ Rest(z) = Rest(x)
  BY <1>4, <1>5
<1>10. /\ \A q \in Procs : q # p /\ q # Kernel => z.map[q] = x.map[q]
       /\ z.map[p] = y.map[p] /\ y.map[Kernel] = x.map[Kernel]
  BY <1>1, <1>6, <1>7
<1>11. HeaderMapped(x, z, p, header, n)
  BY <1>5, <1>6, <1>7, <1>8, <1>9, <1>10 DEF HeaderMapped, page, place
<1> QED BY <1>3, <1>11

\* Where the loader and the linker keep programs.
Placed(headers) ==
  \A i \in 1..Len(headers) : headers[i] \in LoaderBase..(StackStart - MaxStack - 1)

\* The history of the states, from one header to the next.
HeadersMapped(f, m, p, headers) ==
  /\ f[0] = m
  /\ \A n \in 0..Len(headers) : f[n] \in MemoryStates
  /\ \A n \in 1..Len(headers) : f[n] = MapHeader(f[n - 1], p, headers[n], n)
  /\ MapHeaders(m, p, headers) = f[Len(headers)]

LEMMA MapHeadersRounds ==
  ASSUME NEW m \in MemoryStates, NEW p \in Users, NEW headers \in Seq(Nat)
  PROVE  \E f : HeadersMapped(f, m, p, headers)
<1> DEFINE N == Len(headers)
           Body(x, n) == MapHeader(x, p, headers[n], n)
           IsMapped(f) == f = [n \in 0..N |-> IF n = 0 THEN m ELSE Body(f[n - 1], n)]
           mapped == CHOOSE f : IsMapped(f)
<1>1. MapHeaders(m, p, headers) = mapped[N]
  BY DEF MapHeaders, MapHeader
<1>2. N \in Nat
  OBVIOUS
<1>3. ASSUME NEW n \in 1..N, NEW x \in MemoryStates PROVE Body(x, n) \in MemoryStates
  <2>1. headers[n] \in Nat /\ n \in Nat \ {0}
    OBVIOUS
  <2> QED BY <2>1, MapHeaderFields DEF HeaderMapped
<1> HIDE DEF Body, N
<1>4. \E f : IsMapped(f)
  <2> DEFINE step == [n \in 1..N |-> [x \in MemoryStates |-> Body(x, n)]]
  <2>1. Loop(step, N, MemoryStates)
    BY <1>3 DEF Loop
  <2>2. \A n \in 1..N, x \in MemoryStates : step[n][x] = Body(x, n)
    OBVIOUS
  <2> HIDE DEF step
  <2>3. PICK f : History(f, N, MemoryStates, m, step)
    BY <1>2, <2>1, Rounds
  <2>4. ASSUME NEW n \in 0..N PROVE f[n] = IF n = 0 THEN m ELSE Body(f[n - 1], n)
    <3>1. CASE n = 0
      BY <2>3, <3>1 DEF History
    <3>2. CASE n # 0
      <4>1. n \in 1..N /\ n - 1 \in 0..N
        BY <1>2, <3>2
      <4>2. f[n - 1] \in MemoryStates /\ f[n] = step[n][f[n - 1]]
        BY <2>3, <4>1 DEF History
      <4> QED BY <2>2, <3>2, <4>1, <4>2
    <3> QED BY <3>1, <3>2
  <2>5. f = [n \in 0..N |-> f[n]]
    BY <2>3 DEF History
  <2>6. IsMapped(f)
    BY <2>4, <2>5
  <2> HIDE DEF IsMapped
  <2> QED BY <2>6
<1>5. IsMapped(mapped)
  <2> HIDE DEF IsMapped
  <2> QED BY <1>4
<1> HIDE DEF mapped
<1>6. mapped[0] = m /\ \A n \in 1..N : mapped[n] = Body(mapped[n - 1], n)
  <2>1. \A n \in 0..N : mapped[n] = IF n = 0 THEN m ELSE Body(mapped[n - 1], n)
    BY <1>5
  <2>2. 0 \in 0..N /\ \A n \in 1..N : n \in 0..N /\ n # 0
    BY <1>2
  <2> QED BY <2>1, <2>2
<1>7. 0..N \subseteq {n \in 0..N : mapped[n] \in MemoryStates}
  <2> DEFINE holds == {n \in 0..N : mapped[n] \in MemoryStates}
  <2>1. 0 \in holds
    BY <1>2, <1>6
  <2>2. ASSUME NEW n \in 1..N, n - 1 \in holds PROVE n \in holds
    BY <1>2, <1>3, <1>6, <2>2
  <2> HIDE DEF holds
  <2>3. 0..N \subseteq holds
    BY <1>2, <2>1, <2>2, UpTo
  <2> QED BY <2>3 DEF holds
<1>8. HeadersMapped(mapped, m, p, headers)
  BY <1>1, <1>6, <1>7 DEF HeadersMapped, Body, N
<1> QED BY <1>8

\* The last header of each page is mapped where the kernel sees it in the window.
Window(x, p, headers, n) ==
  \A i \in 1..n :
    (\A j \in (i + 1)..n : headers[j] # headers[i]) =>
      /\ headers[i] \in DOMAIN x.map[p]
      /\ LoaderBase + i - 1 \in DOMAIN x.map[Kernel]
      /\ x.map[p][headers[i]] = x.map[Kernel][LoaderBase + i - 1]

LEMMA WindowOn ==
  ASSUME NEW headers \in Seq(Nat), NEW n \in 1..Len(headers), NEW p \in Users,
         NEW x, NEW z, HeaderMapped(x, z, p, headers[n], n), Window(x, p, headers, n - 1)
  PROVE  Window(z, p, headers, n)
<1> DEFINE place(i) == LoaderBase + i - 1
<1>1. /\ DOMAIN z.map[p] = DOMAIN x.map[p] \cup {headers[n]}
      /\ z.map[p][headers[n]] = x.next
      /\ \A v \in DOMAIN x.map[p] : v # headers[n] => z.map[p][v] = x.map[p][v]
      /\ DOMAIN z.map[Kernel] = DOMAIN x.map[Kernel] \cup {place(n)}
      /\ z.map[Kernel][place(n)] = x.next
      /\ \A v \in DOMAIN x.map[Kernel] : v # place(n) => z.map[Kernel][v] = x.map[Kernel][v]
  BY DEF HeaderMapped
<1> SUFFICES ASSUME NEW i \in 1..n, \A j \in (i + 1)..n : headers[j] # headers[i]
             PROVE  /\ headers[i] \in DOMAIN z.map[p]
                    /\ place(i) \in DOMAIN z.map[Kernel]
                    /\ z.map[p][headers[i]] = z.map[Kernel][place(i)]
  BY DEF Window
<1>2. CASE i = n
  <2> HIDE DEF place
  <2> QED BY <1>1, <1>2
<1>3. CASE i # n
  <2>1. i \in 1..(n - 1) /\ n \in (i + 1)..n /\ (i + 1)..(n - 1) \subseteq (i + 1)..n
    BY <1>3
  <2>2. headers[n] # headers[i] /\ \A j \in (i + 1)..(n - 1) : headers[j] # headers[i]
    BY <2>1
  <2>3. /\ headers[i] \in DOMAIN x.map[p] /\ place(i) \in DOMAIN x.map[Kernel]
        /\ x.map[p][headers[i]] = x.map[Kernel][place(i)]
    BY <2>1, <2>2 DEF Window
  <2>4. place(i) # place(n)
    BY <1>3, Constants
  <2> HIDE DEF place
  <2> QED BY <1>1, <2>2, <2>3, <2>4
<1> QED BY <1>2, <1>3

LEMMA MapHeaderKeeps ==
  ASSUME NEW x, Pages(x), NEW p \in Users, NEW n \in 1..IdentityPages,
         NEW header \in LoaderBase..(StackStart - MaxStack - 1)
  PROVE  LET z == MapHeader(x, p, header, n)
         IN  Pages(z) /\ Grows(x, z, p) /\ OthersSame(x, z, p)
<1> DEFINE a == AllocPage(x)
           page == x.next
           y == MapPage(a, p, header, page)
           place == LoaderBase + n - 1
           z == MapPage(y, Kernel, place, page)
<1>1. p \in Procs /\ p # Kernel /\ Kernel \in Procs /\ x \in MemoryStates
  BY KernelIsProcess DEF Pages
<1>2. /\ header \in Nat /\ ~InHeap(header) /\ ~InStack(header) /\ InWindow(header)
  BY Constants DEF InHeap, InStack, InWindow
<1>3. place \in Nat /\ ~InHeap(place) /\ InWindow(place)
  BY Constants, Layout DEF InHeap, InWindow
<1>4. z = MapHeader(x, p, header, n)
  BY DEF MapHeader
<1>5. /\ Pages(a) /\ a \in MemoryStates /\ page \in Nat /\ Owns(a, p, page)
      /\ Grows(x, a, Kernel) /\ OthersSame(x, a, Kernel)
  BY AllocKeeps
<1> HIDE DEF a, page, place
<1>6. /\ Pages(y) /\ y \in MemoryStates /\ Grows(a, y, p) /\ OthersSame(a, y, p)
  <2>1. /\ Pages(y) /\ y \in MemoryStates
        /\ a.next <= y.next
        /\ y.map = [a.map EXCEPT ![p] = Put(a.map[p], header, page)]
        /\ y.mapped_pages = a.mapped_pages /\ Rest(y) = Rest(a)
        /\ header \notin DOMAIN a.map[p] => Grows(a, y, Kernel)
        /\ InWindow(header) => Grows(a, y, p)
        /\ OthersSame(a, y, p)
    BY <1>1, <1>2, <1>5, MapPageKeeps
  <2> QED BY <1>2, <2>1
<1> HIDE DEF y
<1>7. Pages(z) /\ z \in MemoryStates /\ Grows(y, z, Kernel) /\ OthersSame(y, z, Kernel)
  <2>1. ASSUME NEW k \in Procs, k = Kernel
        PROVE  LET w == MapPage(y, k, place, page)
               IN  /\ Pages(w) /\ w \in MemoryStates
                   /\ y.next <= w.next
                   /\ w.map = [y.map EXCEPT ![k] = Put(y.map[k], place, page)]
                   /\ w.mapped_pages = y.mapped_pages /\ Rest(w) = Rest(y)
                   /\ place \notin DOMAIN y.map[k] => Grows(y, w, Kernel)
                   /\ InWindow(place) => Grows(y, w, k)
                   /\ OthersSame(y, w, k)
    <3>1. k \notin Users
      BY <2>1, KernelIsProcess
    <3> QED BY <1>3, <1>5, <1>6, <3>1, MapPageKeeps
  <2> QED BY <1>1, <1>3, <2>1
<1> HIDE DEF z
<1>8. Grows(x, a, p) /\ OthersSame(x, a, p) /\ Grows(y, z, p) /\ OthersSame(y, z, p)
  BY <1>5, <1>7, GrowsForKernel, OthersForKernel
<1>9. Grows(x, y, p) /\ OthersSame(x, y, p)
  BY <1>1, <1>5, <1>6, <1>8, GrowsOn, OthersSameOn
<1>10. Grows(x, z, p) /\ OthersSame(x, z, p)
  BY <1>1, <1>6, <1>7, <1>8, <1>9, GrowsOn, OthersSameOn
<1> QED BY <1>4, <1>7, <1>10

LEMMA MapHeadersFields ==
  ASSUME NEW m \in MemoryStates, NEW p \in Users, NEW headers \in Seq(Nat)
  PROVE  LET h == MapHeaders(m, p, headers)
         IN  /\ h \in MemoryStates /\ m.next + Len(headers) <= h.next
             /\ h.mapped_pages = m.mapped_pages /\ Rest(h) = Rest(m)
<1> DEFINE N == Len(headers)
<1>1. PICK f : HeadersMapped(f, m, p, headers)
  BY MapHeadersRounds
<1>2. N \in Nat /\ m.next \in Nat
  BY Fields
<1>3. /\ f[0] = m
      /\ \A n \in 0..N : f[n] \in MemoryStates
      /\ \A n \in 1..N : f[n] = MapHeader(f[n - 1], p, headers[n], n)
      /\ MapHeaders(m, p, headers) = f[N]
  BY <1>1 DEF HeadersMapped
<1>4. \A n \in 1..N : headers[n] \in Nat /\ n \in Nat \ {0}
  OBVIOUS
<1> HIDE DEF N
<1> DEFINE Good(x, n) == /\ m.next + n <= x.next
                         /\ x.mapped_pages = m.mapped_pages /\ Rest(x) = Rest(m)
           good == {n \in 0..N : Good(f[n], n)}
<1>5. 0 \in good
  BY <1>2, <1>3
<1>6. ASSUME NEW n \in 1..N, n - 1 \in good PROVE n \in good
  <2> DEFINE x == f[n - 1]
             z == f[n]
  <2>1. Good(x, n - 1) /\ n \in 0..N /\ n - 1 \in 0..N /\ n \in Nat
    BY <1>2, <1>6
  <2>2. x \in MemoryStates /\ z = MapHeader(x, p, headers[n], n)
    BY <1>3, <2>1
  <2> HIDE DEF x, z
  <2>3. HeaderMapped(x, z, p, headers[n], n)
    BY <1>4, <2>2, MapHeaderFields
  <2>4. /\ z \in MemoryStates /\ x.next + 1 <= z.next
        /\ z.mapped_pages = x.mapped_pages /\ Rest(z) = Rest(x)
    BY <2>3 DEF HeaderMapped
  <2>5. m.next + n <= z.next
    <3>1. x.next \in Nat /\ z.next \in Nat /\ m.next + (n - 1) <= x.next
      BY <2>1, <2>2, <2>4, Fields
    <3> QED BY <1>2, <2>1, <2>4, <3>1
  <2>6. Good(z, n)
    BY <2>1, <2>4, <2>5
  <2> HIDE DEF Good
  <2> QED BY <2>1, <2>6 DEF z
<1>7. 0..N \subseteq good
  <2> HIDE DEF good
  <2> QED BY <1>2, <1>5, <1>6, UpTo
<1>8. N \in 0..N
  BY <1>2
<1>9. Good(f[N], N)
  <2> HIDE DEF Good
  <2> QED BY <1>7, <1>8
<1> QED BY <1>3, <1>8, <1>9 DEF N

LEMMA MapHeadersKeeps ==
  ASSUME NEW m, Pages(m), NEW p \in Users, NEW headers \in Seq(Nat), Placed(headers),
         MapHeaders(m, p, headers).next <= IdentityPages
  PROVE  LET h == MapHeaders(m, p, headers)
         IN  /\ Pages(h) /\ Grows(m, h, p) /\ OthersSame(m, h, p)
             /\ Window(h, p, headers, Len(headers))
<1> DEFINE N == Len(headers)
<1>1. m \in MemoryStates
  BY DEF Pages
<1>2. PICK f : HeadersMapped(f, m, p, headers)
  BY <1>1, MapHeadersRounds
<1>3. N \in Nat /\ m.next \in Nat
  BY <1>1, Fields
<1>4. /\ f[0] = m
      /\ \A n \in 0..N : f[n] \in MemoryStates
      /\ \A n \in 1..N : f[n] = MapHeader(f[n - 1], p, headers[n], n)
      /\ MapHeaders(m, p, headers) = f[N]
  BY <1>2 DEF HeadersMapped
<1>5. N <= IdentityPages
  <2> DEFINE h == MapHeaders(m, p, headers)
  <2>1. h \in MemoryStates /\ m.next + N <= h.next /\ h.next <= IdentityPages
    BY <1>1, MapHeadersFields
  <2> HIDE DEF h, N
  <2>2. h.next \in Nat
    BY <2>1, Fields
  <2> QED BY <1>3, <2>1, <2>2, Constants
<1>6. ASSUME NEW n \in 1..N
      PROVE  /\ headers[n] \in Nat /\ n \in Nat \ {0} /\ n \in 1..IdentityPages
             /\ headers[n] \in LoaderBase..(StackStart - MaxStack - 1)
  <2>1. n \in 1..IdentityPages
    <3> HIDE DEF N
    <3> QED BY <1>3, <1>5, Constants
  <2> QED BY <2>1 DEF Placed
<1> DEFINE Good(x, n) == /\ Pages(x) /\ Grows(m, x, p) /\ OthersSame(m, x, p)
                         /\ Window(x, p, headers, n)
           good == {n \in 0..N : Good(f[n], n)}
<1>7. 0 \in good
  <2>1. Grows(m, m, p) /\ OthersSame(m, m, p)
    BY <1>3 DEF Grows, OthersSame
  <2>2. Window(m, p, headers, 0)
    BY DEF Window
  <2> HIDE DEF N
  <2> QED BY <1>3, <1>4, <2>1, <2>2
<1>8. ASSUME NEW n \in 1..N, n - 1 \in good PROVE n \in good
  <2> DEFINE x == f[n - 1]
             z == f[n]
  <2>1. Good(x, n - 1) /\ n \in 0..N /\ n - 1 \in 0..N
    <3> HIDE DEF N
    <3> QED BY <1>3, <1>8
  <2>2. x \in MemoryStates /\ z \in MemoryStates /\ z = MapHeader(x, p, headers[n], n)
    <3> HIDE DEF N
    <3> QED BY <1>4, <2>1
  <2>3. HeaderMapped(x, z, p, headers[n], n)
    <3> HIDE DEF x, z
    <3> QED BY <1>6, <2>2, MapHeaderFields
  <2>4. Pages(z) /\ Grows(x, z, p) /\ OthersSame(x, z, p)
    <3>1. Pages(x)
      BY <2>1
    <3> HIDE DEF x, z
    <3> QED BY <1>6, <2>2, <3>1, MapHeaderKeeps
  <2>5. Grows(m, z, p) /\ OthersSame(m, z, p)
    <3>1. Grows(m, x, p) /\ OthersSame(m, x, p)
      BY <2>1
    <3> HIDE DEF x, z
    <3> QED BY <1>1, <2>2, <2>4, <3>1, GrowsOn, OthersSameOn
  <2>6. Window(z, p, headers, n)
    <3>1. Window(x, p, headers, n - 1)
      BY <2>1
    <3> HIDE DEF x, z
    <3> QED BY <2>3, <3>1, WindowOn
  <2> HIDE DEF N
  <2> QED BY <2>1, <2>4, <2>5, <2>6
<1>9. 0..N \subseteq good
  <2> HIDE DEF good, N
  <2> QED BY <1>3, <1>7, <1>8, UpTo
<1>10. Good(f[N], N)
  <2> HIDE DEF Good, N
  <2>1. N \in 0..N
    BY <1>3
  <2> QED BY <1>9, <2>1
<1> QED BY <1>4, <1>10

-----------------------------------------------------------------------------
\* loadELF: the sections.

LEMMA LastHeaderIsLast ==
  ASSUME NEW file \in ProgramFiles, NEW section, Headers(file, section) # {}
  PROVE  /\ LastHeader(file, section) \in 1..Len(file.headers)
         /\ file.headers[LastHeader(file, section)] = section
         /\ \A j \in (LastHeader(file, section) + 1)..Len(file.headers) :
              file.headers[j] # section
<1> DEFINE N == Len(file.headers)
           all == Headers(file, section)
           IsLast(i) == i \in all /\ \A j \in all : j <= i
           last == CHOOSE i \in all : \A j \in all : j <= i
           S == {N - i : i \in all}
<1>1. file.headers \in Seq(Nat) /\ N \in Nat /\ DOMAIN file.headers = 1..N
  BY DEF ProgramFiles
<1>2. all \subseteq 1..N /\ all # {} /\ all \subseteq Nat
  BY <1>1 DEF Headers
<1> HIDE DEF N, all
<1>3. PICK d \in S : \A k \in S : d <= k
  <2>1. S \in SUBSET Nat /\ S # {}
    <3>1. \A i \in all : N - i \in Nat
      BY <1>1, <1>2
    <3>2. PICK i \in all : TRUE
      BY <1>2
    <3>3. N - i \in S
      OBVIOUS
    <3> QED BY <3>1, <3>3
  <2> HIDE DEF S
  <2> QED BY <2>1, LeastOfSet
<1>4. PICK i \in all : d = N - i
  BY <1>3
<1>5. ASSUME NEW j \in all PROVE j <= i
  <2>1. N - i <= N - j
    BY <1>3, <1>4
  <2> QED BY <1>1, <1>2, <2>1
<1>6. last \in all /\ \A j \in all : j <= last
  BY <1>4, <1>5
<1>7. LastHeader(file, section) = last
  BY DEF LastHeader, all
<1> HIDE DEF last
<1>8. last \in 1..N /\ file.headers[last] = section
  BY <1>2, <1>6 DEF all, Headers
<1>9. ASSUME NEW j \in (last + 1)..N PROVE file.headers[j] # section
  <2>1. j \in 1..N /\ ~(j <= last)
    BY <1>8
  <2>2. j \notin all
    BY <1>6, <2>1
  <2> QED BY <1>1, <2>1, <2>2 DEF all, Headers
<1> QED BY <1>7, <1>8, <1>9 DEF N

\* The program of p is copied, as far as it goes.
Copied(m, m2, p, file) ==
  /\ m2 \in MemoryStates
  /\ m2.next = m.next /\ m2.map = m.map /\ m2.mapped_pages = m.mapped_pages
  /\ m2.stack_pages = m.stack_pages /\ m2.stream_list = m.stream_list
  /\ m2.streams = m.streams /\ m2.told = m.told /\ m2.keyboard = m.keyboard
  /\ m2.users = m.users
  /\ \A q \in Procs : q # p => m2.program[q] = m.program[q]
  /\ m.copied \subseteq m2.copied
  /\ \/ m2.started = m.started
     \/ m2.started = m.started \cup {p} /\ SectionsAt(m2, p)

LEMMA CopySectionsKeeps ==
  ASSUME NEW m \in MemoryStates, NEW p \in Users, NEW file \in ProgramFiles,
         Window(m, p, file.headers, Len(file.headers))
  PROVE  Copied(m, CopySections(m, p, file), p, file)
<1> DEFINE fits(i) == \A j \in 1..i : Headers(file, file.sections[j]) # {}
           done == {i \in DOMAIN file.sections : fits(i)}
           page(i) == m.map[Kernel][LoaderBase + LastHeader(file, file.sections[i]) - 1]
           copied == m.copied \cup {<< page(i), p, i >> : i \in done}
           started == IF done = DOMAIN file.sections THEN m.started \cup {p} ELSE m.started
           m2 == CopySections(m, p, file)
<1>1. /\ file.sections \in Seq(Nat) /\ file.headers \in Seq(Nat)
      /\ DOMAIN file.sections = 1..Len(file.sections)
      /\ p \in Procs /\ Kernel \in Procs
  BY KernelIsProcess DEF ProgramFiles
<1>2. ASSUME NEW i \in done
      PROVE  /\ i \in Nat /\ page(i) \in Nat /\ file.sections[i] \in DOMAIN m.map[p]
             /\ m.map[p][file.sections[i]] = page(i)
  <2> DEFINE section == file.sections[i]
             last == LastHeader(file, section)
  <2>1. i \in 1..Len(file.sections) /\ i \in Nat /\ i \in 1..i
    BY <1>1
  <2>2. Headers(file, section) # {}
    BY <2>1
  <2> HIDE DEF section
  <2>3. /\ last \in 1..Len(file.headers) /\ file.headers[last] = section
        /\ \A j \in (last + 1)..Len(file.headers) : file.headers[j] # section
    BY <2>2, LastHeaderIsLast
  <2> HIDE DEF last
  <2>4. /\ section \in DOMAIN m.map[p] /\ LoaderBase + last - 1 \in DOMAIN m.map[Kernel]
        /\ m.map[p][section] = m.map[Kernel][LoaderBase + last - 1]
    BY <2>3 DEF Window
  <2>5. m.map[Kernel] \in PageTables
    BY <1>1, Fields
  <2>6. m.map[Kernel][LoaderBase + last - 1] \in Nat
    BY <2>4, <2>5, TableEntries
  <2> QED BY <2>1, <2>4, <2>6 DEF section, last
<1>3. m2 = [m EXCEPT !.copied = copied, !.started = started, !.program[p] = file]
  BY DEF CopySections
<1>4. copied \in SUBSET (Nat \X Procs \X Nat)
  <2>1. m.copied \in SUBSET (Nat \X Procs \X Nat)
    BY Fields
  <2>2. \A i \in done : << page(i), p, i >> \in Nat \X Procs \X Nat
    BY <1>1, <1>2
  <2> HIDE DEF done, page
  <2> QED BY <2>1, <2>2
<1>5. m.copied \subseteq copied /\ \A i \in done : << page(i), p, i >> \in copied
  OBVIOUS
<1>6. started \in SUBSET Users
  BY Fields
<1>7. \/ started = m.started
      \/ started = m.started \cup {p} /\ done = DOMAIN file.sections
  OBVIOUS
<1> HIDE DEF copied, started, m2, done, page, fits
<1>8. m2 \in MemoryStates
  BY <1>3, <1>4, <1>6 DEF MemoryStates
<1>9. /\ m2.next = m.next /\ m2.map = m.map /\ m2.mapped_pages = m.mapped_pages
      /\ m2.stack_pages = m.stack_pages /\ m2.stream_list = m.stream_list
      /\ m2.streams = m.streams /\ m2.told = m.told /\ m2.keyboard = m.keyboard
      /\ m2.users = m.users /\ m2.copied = copied /\ m2.started = started
      /\ m2.program = [m.program EXCEPT ![p] = file]
  BY <1>3 DEF MemoryStates
<1>10. m2.program[p] = file /\ \A q \in Procs : q # p => m2.program[q] = m.program[q]
  BY <1>1, <1>9, Fields
<1>11. ASSUME done = DOMAIN file.sections PROVE SectionsAt(m2, p)
  BY <1>2, <1>5, <1>9, <1>10, <1>11 DEF SectionsAt
<1>12. Copied(m, m2, p, file)
  BY <1>5, <1>7, <1>8, <1>9, <1>10, <1>11 DEF Copied
<1> QED BY <1>12 DEF m2

\* What keeps its pages keeps its sections.
LEMMA SectionsStay ==
  ASSUME NEW m, NEW m2, NEW q, SectionsAt(m, q),
         \A v \in DOMAIN m.map[q] : v \in DOMAIN m2.map[q] /\ m2.map[q][v] = m.map[q][v],
         m2.program[q] = m.program[q], m.copied \subseteq m2.copied
  PROVE  SectionsAt(m2, q)
BY DEF SectionsAt

LEMMA ReadFields ==
  ASSUME NEW m, Pages(m), NEW misses \in Nat, NEW size \in Nat
  PROVE  LET x == [m EXCEPT !.next = @ + misses]
             read == VirtAllocContiguous(x, size)
         IN  /\ Pages(read) /\ m.next <= read.next /\ Rest(read) = Rest(m)
             /\ Steady(m) /\ read.next <= IdentityPages =>
                  /\ Steady(read) /\ Grows(m, read, Kernel) /\ OthersSame(m, read, Kernel)
<1> DEFINE x == [m EXCEPT !.next = @ + misses]
           read == VirtAllocContiguous(x, size)
<1>1. m \in MemoryStates /\ m.next \in Nat
  BY Fields DEF Pages
<1>2. /\ x \in MemoryStates /\ x.next = m.next + misses /\ x.map = m.map
      /\ x.mapped_pages = m.mapped_pages /\ x.stack_pages = m.stack_pages
      /\ Rest(x) = Rest(m)
  <2>1. m.next + misses \in Nat
    BY <1>1
  <2>2. x \in MemoryStates
    BY <1>1, <2>1 DEF MemoryStates
  <2>3. /\ x.next = m.next + misses /\ x.map = m.map
        /\ x.mapped_pages = m.mapped_pages /\ x.stack_pages = m.stack_pages
        /\ x.stream_list = m.stream_list /\ x.streams = m.streams /\ x.told = m.told
        /\ x.keyboard = m.keyboard /\ x.program = m.program /\ x.copied = m.copied
        /\ x.users = m.users /\ x.started = m.started
    BY <1>1 DEF MemoryStates
  <2> HIDE DEF x
  <2> QED BY <2>2, <2>3 DEF Rest
<1> HIDE DEF x
<1>3. m.next <= x.next /\ x.next \in Nat
  BY <1>1, <1>2
<1>4. Pages(x)
  BY <1>2, <1>3, NextPages
<1>5. /\ Pages(read) /\ read \in MemoryStates
      /\ x.next + size <= read.next
      /\ Rest(read) = Rest(x) /\ OthersSame(x, read, Kernel)
      /\ read.mapped_pages = [x.mapped_pages EXCEPT ![Kernel] = x.mapped_pages[Kernel] + size]
      /\ x.mapped_pages[Kernel] + size <= 2 * IdentityPages => Grows(x, read, Kernel)
  BY <1>4, VirtAllocKeeps
<1> HIDE DEF read
<1>6. read.next \in Nat /\ m.next <= read.next /\ m.next + size <= read.next
  <2>1. read.next \in Nat
    BY <1>5, Fields
  <2> QED BY <1>1, <1>2, <1>3, <1>5, <2>1
<1>7. ASSUME Steady(m), read.next <= IdentityPages
      PROVE  Steady(read) /\ Grows(m, read, Kernel) /\ OthersSame(m, read, Kernel)
  <2>1. TwicePaged(m) /\ Linked(m) /\ m.mapped_pages \in [Procs -> Nat]
    BY <1>1, <1>7, Fields DEF Steady
  <2>2. \A q \in Procs : m.mapped_pages[q] \in Nat /\ m.mapped_pages[q] <= 2 * m.next
    BY <2>1 DEF TwicePaged
  <2>3. m.mapped_pages[Kernel] + size <= 2 * read.next
    <3>1. m.mapped_pages[Kernel] \in Nat /\ m.mapped_pages[Kernel] <= 2 * m.next
      BY <2>2, KernelIsProcess
    <3> QED BY <1>1, <1>6, <3>1
  <2>4. m.mapped_pages[Kernel] + size <= 2 * IdentityPages
    <3>1. m.mapped_pages[Kernel] \in Nat
      BY <2>2, KernelIsProcess
    <3> QED BY <1>6, <1>7, <2>3, <3>1, Constants
  <2>5. Grows(x, read, Kernel)
    BY <1>2, <1>5, <2>4
  <2>6. Grows(m, x, Kernel) /\ OthersSame(m, x, Kernel)
    BY <1>2, <1>3, SameMapsGrow
  <2>7. Grows(m, read, Kernel) /\ OthersSame(m, read, Kernel)
    BY <1>1, <1>2, <1>5, <2>5, <2>6, GrowsOn, OthersSameOn
  <2>8. TwicePaged(read)
    <3> SUFFICES ASSUME NEW q \in Procs PROVE read.mapped_pages[q] <= 2 * read.next
      BY DEF TwicePaged
    <3>1. read.mapped_pages[q] =
            IF q = Kernel THEN m.mapped_pages[Kernel] + size ELSE m.mapped_pages[q]
      BY <1>2, <1>5, <2>1
    <3>2. m.mapped_pages[q] \in Nat /\ m.mapped_pages[q] <= 2 * m.next
      BY <2>2
    <3>3. m.mapped_pages[q] <= 2 * read.next
      BY <1>1, <1>6, <3>2
    <3> QED BY <2>3, <3>1, <3>3
  <2>9. Linked(read)
    <3>1. read.stream_list = m.stream_list /\ read.streams = m.streams /\ read.told = m.told
      BY <1>2, <1>5, SameRest
    <3> QED BY <1>1, <1>5, <2>1, <2>7, <3>1, StaysLinked
  <2> QED BY <1>5, <2>7, <2>8, <2>9 DEF Steady
<1>8. Rest(read) = Rest(m)
  BY <1>2, <1>5
<1> QED BY <1>5, <1>6, <1>7, <1>8 DEF read, x

\* loadELF.
LEMMA LoadELFKeeps ==
  ASSUME NEW m, Consistent(m), NEW p \in Users, p \notin m.users,
         \A q \in Users : q < p => q \in m.users,
         NEW file \in Programs, NEW misses \in 0..MaxMisses,
         LoadELF(m, p, file, misses).next <= IdentityPages
  PROVE  /\ Consistent(LoadELF(m, p, file, misses))
         /\ Grows(m, LoadELF(m, p, file, misses), p)
         /\ DOMAIN m.map[p] = {}
<1> DEFINE read == VirtAllocContiguous([m EXCEPT !.next = @ + misses], file.size)
           i == InitUser(read, p)
           h == MapHeaders(i, p, file.headers)
           m2 == CopySections(h, p, file)
<1>1. /\ Pages(m) /\ TwicePaged(m) /\ Linked(m) /\ m \in MemoryStates /\ Steady(m)
      /\ SectionsMapped(m) /\ UnusedEmpty(m) /\ StreamsCounted(m)
  BY DEF Consistent, Steady, Pages
<1>2. /\ p \in Procs /\ misses \in Nat /\ file \in ProgramFiles
      /\ file.size \in Nat /\ file.headers \in Seq(Nat) /\ Placed(file.headers)
  <2>1. file \in ProgramFiles /\ misses \in Nat /\ p \in Procs
    BY Constants, KernelIsProcess
  <2>2. file.size \in Nat /\ file.headers \in Seq(Nat)
    BY <2>1 DEF ProgramFiles
  <2>3. DOMAIN file.headers = 1..Len(file.headers)
    BY <2>2
  <2>4. Placed(file.headers)
    BY <2>3, Layout DEF Placed
  <2> QED BY <2>1, <2>2, <2>4
<1>3. m2 = LoadELF(m, p, file, misses)
  BY DEF LoadELF
<1>4. /\ Pages(read) /\ read \in MemoryStates /\ m.next <= read.next /\ Rest(read) = Rest(m)
      /\ Steady(m) /\ read.next <= IdentityPages =>
           /\ Steady(read) /\ Grows(m, read, Kernel) /\ OthersSame(m, read, Kernel)
  <2>1. /\ Pages(read) /\ m.next <= read.next /\ Rest(read) = Rest(m)
        /\ Steady(m) /\ read.next <= IdentityPages =>
             /\ Steady(read) /\ Grows(m, read, Kernel) /\ OthersSame(m, read, Kernel)
    BY <1>1, <1>2, ReadFields
  <2> HIDE DEF read
  <2> QED BY <2>1 DEF Pages
<1> HIDE DEF read
<1>5. /\ i \in MemoryStates /\ read.next <= i.next
      /\ i.streams \in Seq(StreamRecords) /\ Len(i.streams) = Len(read.streams) + 2
      /\ \A q \in Procs : q # p /\ q # Kernel => i.stream_list[q] = read.stream_list[q]
      /\ i.keyboard = read.keyboard /\ i.program = read.program /\ i.copied = read.copied
      /\ i.users = read.users \cup {p} /\ i.started = read.started
      /\ Steady(read) /\ DOMAIN read.map[p] = {} /\ i.next <= IdentityPages =>
           Serves(read, i, p)
  BY <1>4, InitUserKeeps
<1> HIDE DEF i
<1>6. /\ h \in MemoryStates /\ i.next + Len(file.headers) <= h.next
      /\ h.mapped_pages = i.mapped_pages /\ Rest(h) = Rest(i)
  BY <1>2, <1>5, MapHeadersFields
<1> HIDE DEF h
<1>7. m2.next = h.next
  BY <1>6 DEF CopySections, MemoryStates
<1>8. h.next <= IdentityPages
  BY <1>3, <1>7
<1>9. i.next <= h.next /\ i.next <= IdentityPages /\ read.next <= IdentityPages /\ h.next \in Nat
  <2>1. i.next \in Nat /\ h.next \in Nat /\ read.next \in Nat /\ Len(file.headers) \in Nat
    BY <1>2, <1>4, <1>5, <1>6, Fields
  <2> QED BY <1>5, <1>6, <1>8, <2>1, Constants
<1> HIDE DEF m2
<1>10. DOMAIN m.map[p] = {} /\ m.stream_list[p] = << >>
  BY <1>1, EmptyTable DEF UnusedEmpty
<1>11. Steady(read) /\ Grows(m, read, Kernel) /\ OthersSame(m, read, Kernel)
  BY <1>1, <1>4, <1>9
<1>12. Serves(read, i, p)
  <2>1. read.map[p] = m.map[p]
    BY <1>2, <1>11, KernelIsProcess DEF OthersSame
  <2> QED BY <1>5, <1>9, <1>10, <1>11, <2>1
<1>13. Serves(m, i, p)
  <2>1. Serves(m, read, p)
    BY <1>4, <1>11, OthersForKernel DEF Serves
  <2> QED BY <1>1, <1>12, <2>1, ServesOn
<1>14. Steady(i) /\ Pages(i) /\ TwicePaged(i) /\ Linked(i) /\ Grows(m, i, p) /\ OthersSame(m, i, p)
  BY <1>13, GrowsForKernel DEF Serves, Steady
<1>15. /\ Pages(h) /\ Grows(i, h, p) /\ OthersSame(i, h, p)
       /\ Window(h, p, file.headers, Len(file.headers))
  BY <1>2, <1>8, <1>14, MapHeadersKeeps DEF h
<1>16. Grows(m, h, p) /\ OthersSame(m, h, p)
  BY <1>1, <1>5, <1>6, <1>14, <1>15, GrowsOn, OthersSameOn
<1>17. Copied(h, m2, p, file)
  BY <1>2, <1>6, <1>15, CopySectionsKeeps DEF m2
<1>18. /\ m2 \in MemoryStates
       /\ m2.next = h.next /\ m2.map = h.map /\ m2.mapped_pages = h.mapped_pages
       /\ m2.stack_pages = h.stack_pages /\ m2.stream_list = h.stream_list
       /\ m2.streams = h.streams /\ m2.told = h.told /\ m2.keyboard = h.keyboard
       /\ m2.users = h.users
       /\ \A q \in Procs : q # p => m2.program[q] = h.program[q]
       /\ h.copied \subseteq m2.copied
       /\ \/ m2.started = h.started
          \/ m2.started = h.started \cup {p} /\ SectionsAt(m2, p)
  BY <1>17 DEF Copied
<1>19. Grows(m, m2, p) /\ OthersSame(m, m2, p)
  BY <1>16, <1>18 DEF Grows, OthersSame
<1>20. /\ read.streams = m.streams /\ read.stream_list = m.stream_list
       /\ read.keyboard = m.keyboard /\ read.program = m.program /\ read.copied = m.copied
       /\ read.users = m.users /\ read.started = m.started
       /\ h.streams = i.streams /\ h.stream_list = i.stream_list /\ h.told = i.told
       /\ h.keyboard = i.keyboard /\ h.program = i.program /\ h.copied = i.copied
       /\ h.users = i.users /\ h.started = i.started
  BY <1>4, <1>6, SameRest
<1>21. /\ Len(m2.streams) = Len(m.streams) + 2 /\ m2.keyboard = m.keyboard
       /\ m2.users = m.users \cup {p}
       /\ \A q \in Procs : q # p => m2.program[q] = m.program[q]
       /\ \A q \in Procs : q # p /\ q # Kernel => m2.stream_list[q] = m.stream_list[q]
       /\ m.copied \subseteq m2.copied
       /\ \/ m2.started = m.started
          \/ m2.started = m.started \cup {p} /\ SectionsAt(m2, p)
  BY <1>5, <1>18, <1>20
<1>22. Pages(m2)
  <2>1. h.next <= m2.next
    BY <1>9, <1>18
  <2> QED BY <1>15, <1>18, <2>1, NextPages
<1>23. TwicePaged(m2)
  <2> SUFFICES ASSUME NEW q \in Procs PROVE m2.mapped_pages[q] <= 2 * m2.next
    BY DEF TwicePaged
  <2>1. i.mapped_pages[q] \in Nat /\ i.mapped_pages[q] <= 2 * i.next
    BY <1>5, <1>14, Fields DEF TwicePaged
  <2>2. i.next \in Nat /\ m2.next = h.next /\ m2.mapped_pages[q] = i.mapped_pages[q]
    BY <1>5, <1>6, <1>18, Fields
  <2> QED BY <1>9, <2>1, <2>2
<1>24. Linked(m2)
  <2>1. Linked(h)
    BY <1>5, <1>6, <1>14, <1>15, <1>20, StaysLinked
  <2>2. h.next <= m2.next
    BY <1>9, <1>18
  <2>3. Grows(h, m2, Kernel)
    BY <1>18, <2>2, SameMapsGrow
  <2> QED BY <1>6, <1>18, <2>1, <2>3, StaysLinked
<1>25. SectionsMapped(m2)
  <2>1. p \notin m.started
    BY <1>1 DEF SectionsMapped
  <2>2. ASSUME NEW q \in m.started PROVE SectionsAt(m2, q)
    <3>1. q \in Users /\ q \in Procs /\ q # p /\ q # Kernel
      BY <1>1, <2>1, Fields, KernelIsProcess
    <3>2. m2.map[q] = m.map[q]
      BY <1>19, <3>1 DEF OthersSame
    <3>3. SectionsAt(m, q)
      BY <1>1 DEF SectionsMapped
    <3> QED BY <1>21, <3>1, <3>2, <3>3, SectionsStay
  <2>3. m2.started \subseteq m2.users
    BY <1>1, <1>21 DEF SectionsMapped
  <2> QED BY <1>21, <2>2, <2>3 DEF SectionsMapped
<1>26. UnusedEmpty(m2)
  <2> SUFFICES ASSUME NEW q \in Users \ m2.users
               PROVE  m2.map[q] = << >> /\ m2.stream_list[q] = << >>
    BY DEF UnusedEmpty
  <2>1. q \in Users \ m.users /\ q # p /\ q \in Procs /\ q # Kernel
    BY <1>21, KernelIsProcess
  <2>2. m2.map[q] = m.map[q] /\ m2.stream_list[q] = m.stream_list[q]
    BY <1>19, <1>21, <2>1 DEF OthersSame
  <2> QED BY <1>1, <2>1, <2>2 DEF UnusedEmpty
<1>27. StreamsCounted(m2)
  <2>1. PICK n \in 0..(MAX_PROCESSES - 1) :
          /\ m.users = 2..(n + 1)
          /\ Len(m.streams) = 2 * n + (IF m.keyboard = NoProc THEN 0 ELSE 1)
    BY <1>1 DEF StreamsCounted
  <2>2. p = n + 2 /\ n \in Nat
    <3>1. p \in Nat /\ p >= 2 /\ p <= MAX_PROCESSES /\ n \in Nat
      BY Constants DEF Users, Procs, Kernel
    <3>2. ~(p <= n + 1)
      BY <2>1, <3>1
    <3>3. ASSUME p > n + 2 PROVE FALSE
      <4>1. n + 2 \in Users /\ n + 2 < p
        BY <3>1, <3>3, Constants DEF Users, Procs, Kernel
      <4> QED BY <2>1, <3>1, <4>1
    <3> QED BY <3>1, <3>2, <3>3
  <2>3. n + 1 \in 0..(MAX_PROCESSES - 1)
    BY <2>2, Constants DEF Users, Procs
  <2>4. m2.users = 2..((n + 1) + 1)
    <3>1. 2..((n + 1) + 1) = 2..(n + 1) \cup {n + 2}
      BY <2>2
    <3> QED BY <1>21, <2>1, <2>2, <3>1
  <2>5. Len(m2.streams) = 2 * (n + 1) + (IF m2.keyboard = NoProc THEN 0 ELSE 1)
    <3> DEFINE k == IF m.keyboard = NoProc THEN 0 ELSE 1
    <3>1. k \in Nat
      OBVIOUS
    <3>2. Len(m2.streams) = 2 * n + k + 2
      BY <1>21, <2>1
    <3> HIDE DEF k
    <3>3. 2 * n + k + 2 = 2 * (n + 1) + k
      BY <2>2, <3>1
    <3> QED BY <1>21, <3>2, <3>3 DEF k
  <2> QED BY <2>3, <2>4, <2>5 DEF StreamsCounted
<1> QED BY <1>3, <1>10, <1>19, <1>22, <1>23, <1>24, <1>25, <1>26, <1>27 DEF Consistent

-----------------------------------------------------------------------------
\* keyboardOpenStream and the page fault handler.

LEMMA KeyboardTaken ==
  ASSUME NEW x \in MemoryStates, NEW p \in Users
  PROVE  LET y == [x EXCEPT !.keyboard = p]
         IN  /\ y \in MemoryStates /\ y.keyboard = p
             /\ y.next = x.next /\ y.map = x.map /\ y.streams = x.streams
             /\ y.stream_list = x.stream_list /\ y.program = x.program
             /\ y.copied = x.copied /\ y.users = x.users /\ y.started = x.started
             /\ Steady(x) => Serves(x, y, p)
<1> DEFINE y == [x EXCEPT !.keyboard = p]
<1>1. p \in Procs \cup {NoProc} /\ x.next \in Nat
  BY KernelIsProcess, Fields
<1>2. y \in MemoryStates
  BY <1>1 DEF MemoryStates
<1>3. /\ y.next = x.next /\ y.map = x.map /\ y.mapped_pages = x.mapped_pages
      /\ y.stack_pages = x.stack_pages /\ y.stream_list = x.stream_list
      /\ y.streams = x.streams /\ y.told = x.told /\ y.keyboard = p
      /\ y.program = x.program /\ y.copied = x.copied
      /\ y.users = x.users /\ y.started = x.started
  BY DEF MemoryStates
<1> HIDE DEF y
<1>4. ASSUME Steady(x) PROVE Serves(x, y, p)
  <2>1. Pages(x) /\ TwicePaged(x) /\ Linked(x)
    BY <1>4 DEF Steady
  <2>2. x.next <= y.next
    BY <1>1, <1>3
  <2>3. Grows(x, y, Kernel) /\ OthersSame(x, y, Kernel)
    BY <1>3, <2>2, SameMapsGrow
  <2>4. OthersSame(x, y, p)
    BY <2>3, OthersForKernel
  <2>5. Pages(y)
    BY <1>2, <1>3, <2>1, <2>2, NextPages
  <2>6. TwicePaged(y)
    BY <1>3, <2>1 DEF TwicePaged
  <2>7. Linked(y)
    BY <1>2, <1>3, <2>1, <2>3, StaysLinked
  <2> QED BY <2>2, <2>3, <2>4, <2>5, <2>6, <2>7 DEF Serves, Steady
<1> QED BY <1>2, <1>3, <1>4 DEF y

\* Programs go on when an operation for one of them has taken nothing from them.
LEMMA ServedConsistent ==
  ASSUME NEW m, Consistent(m), NEW p \in m.users, NEW m2, Serves(m, m2, p),
         m2.users = m.users, m2.started = m.started, m2.program = m.program,
         m2.copied = m.copied,
         \A q \in Procs : q # p /\ q # Kernel => m2.stream_list[q] = m.stream_list[q],
         StreamsCounted(m2)
  PROVE  Consistent(m2)
<1>1. /\ m \in MemoryStates /\ SectionsMapped(m) /\ UnusedEmpty(m)
      /\ m.users \subseteq Users /\ m.started \subseteq Users
  BY Fields DEF Consistent, Pages
<1>2. SectionsMapped(m2)
  <2>1. ASSUME NEW q \in m.started PROVE SectionsAt(m2, q)
    <3>1. SectionsAt(m, q) /\ q \in Procs /\ q # Kernel /\ q \in Users
      BY <1>1, KernelIsProcess DEF SectionsMapped
    <3>2. \A v \in DOMAIN m.map[q] : v \in DOMAIN m2.map[q] /\ m2.map[q][v] = m.map[q][v]
      BY <3>1 DEF Serves, Grows
    <3> QED BY <3>1, <3>2, SectionsStay
  <2> QED BY <1>1, <2>1 DEF SectionsMapped
<1>3. UnusedEmpty(m2)
  <2> SUFFICES ASSUME NEW q \in Users \ m2.users
               PROVE  m2.map[q] = << >> /\ m2.stream_list[q] = << >>
    BY DEF UnusedEmpty
  <2>1. q \in Procs /\ q # Kernel /\ q # p /\ q \in Users \ m.users
    BY KernelIsProcess
  <2> QED BY <1>1, <2>1 DEF UnusedEmpty, Serves, OthersSame
<1> QED BY <1>2, <1>3 DEF Consistent, Serves, Steady

LEMMA KeyboardOpenStreamKeeps ==
  ASSUME NEW m, Consistent(m), NEW p \in m.started,
         KeyboardOpenStream(m, p).next <= IdentityPages
  PROVE  Consistent(KeyboardOpenStream(m, p)) /\ Grows(m, KeyboardOpenStream(m, p), Kernel)
<1>1. /\ m \in MemoryStates /\ Steady(m) /\ StreamsCounted(m)
      /\ p \in m.users /\ p \in Users /\ p \in Procs /\ p # Kernel /\ p # NoProc
  <2>1. m \in MemoryStates /\ Steady(m) /\ StreamsCounted(m) /\ p \in m.users
    BY DEF Consistent, Steady, Pages, SectionsMapped
  <2> QED BY <2>1, Fields, KernelIsProcess
<1>2. CASE m.keyboard # NoProc
  <2>1. KeyboardOpenStream(m, p) = m
    BY <1>2 DEF KeyboardOpenStream
  <2>2. m.next <= m.next
    BY <1>1, Fields
  <2> QED BY <2>1, <2>2, SameMapsGrow
<1>3. CASE m.keyboard = NoProc
  <2> DEFINE r == SmallAlloc(m, p)
             w == SmallAlloc(r, Kernel)
             ptr == NewPointer(w, p)
             kernel_ptr == NewPointer(w, Kernel)
             ring == Ring(w, p, ptr, Kernel, kernel_ptr)
             x == StreamCreate(w, p, ptr, Kernel, kernel_ptr)
             y == [x EXCEPT !.keyboard = p]
             vaddr == NewVAddr(x, p)
             m2 == Tell(y, p, vaddr)
  <2>1. m2 = KeyboardOpenStream(m, p)
    BY <1>3 DEF KeyboardOpenStream
  <2>2. /\ StreamsMore(m, r, p, 0) /\ r.stream_list[p] # << >>
    BY <1>1, SmallAllocMore
  <2> HIDE DEF r
  <2>3. r \in MemoryStates
    BY <2>2 DEF StreamsMore
  <2>4. /\ StreamsMore(r, w, p, 0) /\ w.stream_list[Kernel] # << >>
        /\ w.stream_list[p] # << >>
    <3>1. ASSUME NEW k, k = Kernel
          PROVE  LET z == SmallAlloc(r, k)
                 IN  /\ StreamsMore(r, z, p, 0) /\ z.streams = r.streams
                     /\ z.stream_list[k] # << >>
                     /\ \A q \in Procs : q # k => z.stream_list[q] = r.stream_list[q]
      BY <1>1, <2>3, <3>1, SmallAllocMore
    <3> QED BY <1>1, <2>2, <3>1
  <2> HIDE DEF w
  <2>5. w \in MemoryStates
    BY <2>4 DEF StreamsMore
  <2>6. ptr \in Pointers /\ kernel_ptr \in Pointers
    BY <1>1, <2>4, <2>5, NewPointerFields, KernelIsProcess
  <2>7. Ends(p, Kernel, p)
    BY DEF Ends
  <2> HIDE DEF ptr, kernel_ptr, ring
  <2>8. /\ StreamsMore(w, x, p, 1)
        /\ x.streams # << >> /\ x.streams[Len(x.streams)] = ring
        /\ x.stream_list = w.stream_list
    BY <1>1, <2>5, <2>6, <2>7, StreamCreateMore DEF ring
  <2> HIDE DEF x
  <2>9. x \in MemoryStates
    BY <2>8 DEF StreamsMore
  <2>10. /\ y \in MemoryStates /\ y.keyboard = p
         /\ y.next = x.next /\ y.map = x.map /\ y.streams = x.streams
         /\ y.stream_list = x.stream_list /\ y.program = x.program
         /\ y.copied = x.copied /\ y.users = x.users /\ y.started = x.started
         /\ Steady(x) => Serves(x, y, p)
    BY <1>1, <2>9, KeyboardTaken
  <2> HIDE DEF y
  <2>11. vaddr \in Pointers /\ vaddr = NewVAddr(w, p)
    <3>1. x.stream_list[p] # << >>
      BY <2>4, <2>8
    <3> QED BY <1>1, <2>8, <2>9, <3>1, NewPointerFields DEF NewVAddr
  <2> HIDE DEF vaddr
  <2>12. StreamsMore(y, m2, p, 0)
    BY <1>1, <2>10, <2>11, TellMore
  <2> HIDE DEF m2
  <2>13. StreamsMore(m, x, p, 1)
    <3>1. StreamsMore(m, w, p, 0 + 0)
      BY <1>1, <2>2, <2>4, StreamsMoreOn
    <3>2. StreamsMore(m, x, p, 0 + 0 + 1)
      BY <1>1, <2>8, <3>1, StreamsMoreOn
    <3> QED BY <3>2
  <2>14. /\ m2 \in MemoryStates /\ m2.keyboard = p /\ Len(m2.streams) = Len(m.streams) + 1
         /\ m2.users = m.users /\ m2.started = m.started /\ m2.program = m.program
         /\ m2.copied = m.copied
         /\ \A q \in Procs : q # p /\ q # Kernel => m2.stream_list[q] = m.stream_list[q]
    <3>1. /\ Len(x.streams) = Len(m.streams) + 1 /\ x.streams \in Seq(StreamRecords)
          /\ x.program = m.program /\ x.copied = m.copied
          /\ x.users = m.users /\ x.started = m.started
          /\ \A q \in Procs : q # p /\ q # Kernel => x.stream_list[q] = m.stream_list[q]
      BY <2>13, SameAccount DEF StreamsMore
    <3>2. /\ m2 \in MemoryStates /\ Len(m2.streams) = Len(y.streams) + 0
          /\ m2.keyboard = y.keyboard /\ m2.program = y.program /\ m2.copied = y.copied
          /\ m2.users = y.users /\ m2.started = y.started
          /\ \A q \in Procs : q # p /\ q # Kernel => m2.stream_list[q] = y.stream_list[q]
      BY <2>12, SameAccount DEF StreamsMore
    <3>3. Len(x.streams) \in Nat
      BY <3>1
    <3>4. Len(m2.streams) = Len(m.streams) + 1
      BY <2>10, <3>1, <3>2, <3>3
    <3> QED BY <2>10, <3>1, <3>2, <3>4
  <2>15. m2.next <= IdentityPages
    BY <2>1
  <2>16. x.next <= IdentityPages /\ w.next <= IdentityPages /\ r.next <= IdentityPages
    <3>1. r.next \in Nat /\ w.next \in Nat /\ x.next \in Nat /\ y.next \in Nat /\ m2.next \in Nat
      BY <2>3, <2>5, <2>9, <2>10, <2>14, Fields
    <3>2. r.next <= w.next /\ w.next <= x.next /\ x.next = y.next /\ y.next <= m2.next
      BY <2>4, <2>8, <2>10, <2>12 DEF StreamsMore
    <3> QED BY <2>15, <3>1, <3>2, Constants
  <2>17. Serves(m, r, p)
    BY <1>1, <2>16, SmallAllocServes DEF r
  <2>18. Steady(r)
    BY <2>17 DEF Serves
  <2>19. Serves(r, w, p)
    <3>1. ASSUME NEW k, k = Kernel, SmallAlloc(r, k).next <= IdentityPages
          PROVE  Serves(r, SmallAlloc(r, k), p)
      BY <1>1, <2>18, <3>1, SmallAllocServes
    <3> QED BY <2>16, <3>1 DEF w
  <2>20. Steady(w)
    BY <2>19 DEF Serves
  <2>21. Serves(w, x, p)
    BY <1>1, <2>6, <2>7, <2>16, <2>20, StreamCreateServes DEF x
  <2>22. Steady(x) /\ Grows(w, x, Kernel)
    BY <2>21 DEF Serves
  <2>23. Serves(x, y, p) /\ Steady(y)
    BY <2>10, <2>22 DEF Serves
  <2>24. PointerAt(y, p, vaddr, PointerOf(ring, p))
    <3>1. PoolsMapped(w)
      BY <2>20 DEF Steady, Linked
    <3>2. PointerAt(w, p, NewVAddr(w, p), NewPointer(w, p))
      BY <1>1, <2>4, <2>5, <3>1, NewPointerAt
    <3>3. PointerAt(x, p, vaddr, ptr)
      BY <1>1, <2>11, <2>22, <3>2, PointerStays DEF ptr
    <3>4. PointerOf(ring, p) = ptr
      BY DEF PointerOf, ring, Ring
    <3> QED BY <2>10, <3>3, <3>4 DEF PointerAt
  <2>25. Serves(y, m2, p)
    <3>1. y.streams # << >> /\ ring = y.streams[Len(y.streams)]
      BY <2>8, <2>10
    <3> QED BY <1>1, <2>11, <2>23, <2>24, <3>1, TellServes DEF m2
  <2>26. Serves(m, m2, p)
    <3>1. Serves(m, w, p)
      BY <1>1, <2>17, <2>19, ServesOn
    <3>2. Serves(m, x, p)
      BY <1>1, <2>21, <3>1, ServesOn
    <3>3. Serves(m, y, p)
      BY <1>1, <2>23, <3>2, ServesOn
    <3> QED BY <1>1, <2>25, <3>3, ServesOn
  <2>27. StreamsCounted(m2)
    <3>1. PICK n \in 0..(MAX_PROCESSES - 1) :
            /\ m.users = 2..(n + 1)
            /\ Len(m.streams) = 2 * n + (IF m.keyboard = NoProc THEN 0 ELSE 1)
      BY <1>1 DEF StreamsCounted
    <3>2. Len(m.streams) = 2 * n /\ n \in Nat
      BY <1>3, <3>1, Constants
    <3>3. Len(m2.streams) = 2 * n + (IF m2.keyboard = NoProc THEN 0 ELSE 1)
      BY <1>1, <2>14, <3>2
    <3> QED BY <2>14, <3>1, <3>3 DEF StreamsCounted
  <2>28. Consistent(m2)
    BY <1>1, <2>14, <2>26, <2>27, ServedConsistent
  <2> QED BY <2>1, <2>26, <2>28 DEF Serves
<1> QED BY <1>2, <1>3

\* excPageFault: the page below the stack is free.
LEMMA GrowStackKeeps ==
  ASSUME NEW m, Consistent(m), NEW p \in m.started, m.stack_pages[p] < MaxStack
  PROVE  Consistent(GrowStack(m, p)) /\ Grows(m, GrowStack(m, p), Kernel)
<1> DEFINE a == AllocPage(m)
           page == m.next
           address == StackStart - m.stack_pages[p] - 1
           y == MapPage(a, p, address, page)
           m2 == GrowStack(m, p)
<1>1. /\ m \in MemoryStates /\ Pages(m) /\ TwicePaged(m) /\ Linked(m) /\ StreamsCounted(m)
      /\ p \in m.users /\ p \in Users /\ p \in Procs
  <2>1. /\ m \in MemoryStates /\ Pages(m) /\ TwicePaged(m) /\ Linked(m) /\ StreamsCounted(m)
        /\ p \in m.users
    BY DEF Consistent, Pages, SectionsMapped
  <2> QED BY <2>1, Fields, KernelIsProcess
<1>2. m.stack_pages \in [Procs -> Nat] /\ m.stack_pages[p] \in Nat /\ page \in Nat
  BY <1>1, Fields
<1>3. /\ address \in Nat /\ ~InHeap(address) /\ InStack(address)
      /\ ~(address >= StackStart - m.stack_pages[p])
      /\ address >= StackStart - (m.stack_pages[p] + 1)
  BY <1>2, Constants, Layout DEF InHeap, InStack
<1>4. /\ Pages(a) /\ a \in MemoryStates /\ a.next = page + 1 /\ a.map = m.map
      /\ a.mapped_pages = m.mapped_pages /\ Rest(a) = Rest(m)
      /\ Owns(a, p, page) /\ Grows(m, a, Kernel) /\ OthersSame(m, a, Kernel)
  BY <1>1, AllocKeeps
<1> HIDE DEF a, page, address
<1>5. /\ y \in MemoryStates /\ y.next \in {a.next, a.next + 1}
      /\ y.map = [a.map EXCEPT ![p] = Put(a.map[p], address, page)]
      /\ y.mapped_pages = a.mapped_pages /\ Rest(y) = Rest(a)
  BY <1>1, <1>2, <1>3, <1>4, MapPageFields
<1>6. m2 = [y EXCEPT !.stack_pages[p] = @ + 1]
  BY DEF GrowStack, a, page, address
<1> HIDE DEF y, m2
<1>7. /\ y.stack_pages = m.stack_pages /\ y.stream_list = m.stream_list
      /\ y.streams = m.streams /\ y.told = m.told /\ y.keyboard = m.keyboard
      /\ y.program = m.program /\ y.copied = m.copied
      /\ y.users = m.users /\ y.started = m.started
  BY <1>4, <1>5, SameRest
<1>8. m2 \in MemoryStates
  <2>1. m.stack_pages[p] + 1 \in Nat
    BY <1>2
  <2> QED BY <1>5, <1>6, <1>7, <2>1 DEF MemoryStates
<1>9. /\ m2.next = y.next /\ m2.map = y.map /\ m2.mapped_pages = y.mapped_pages
      /\ m2.stack_pages = [m.stack_pages EXCEPT ![p] = m.stack_pages[p] + 1]
      /\ m2.stream_list = y.stream_list
      /\ m2.streams = y.streams /\ m2.told = y.told /\ m2.keyboard = y.keyboard
      /\ m2.program = y.program /\ m2.copied = y.copied
      /\ m2.users = y.users /\ m2.started = y.started
  BY <1>5, <1>6, <1>7 DEF MemoryStates
<1>10. /\ m2.map = [a.map EXCEPT ![p] = Put(a.map[p], address, page)]
       /\ a.next <= m2.next /\ m.next <= m2.next /\ m2.next \in Nat
  BY <1>2, <1>4, <1>5, <1>9 DEF page
<1>11. a.stack_pages = m.stack_pages
  BY <1>4, SameRest
<1>12. m2.stack_pages[p] = m.stack_pages[p] + 1
  BY <1>1, <1>2, <1>9
<1>13. Pages(m2)
  <2>1. \A q \in Procs : m2.mapped_pages[q] >= a.mapped_pages[q]
    <3>1. \A q \in Procs : m.mapped_pages[q] \in Nat
      BY <1>1, Fields
    <3> QED BY <1>4, <1>5, <1>9, <3>1
  <2>2. \A q \in Procs : m2.stack_pages[q] >= a.stack_pages[q]
    BY <1>2, <1>9, <1>11
  <2>3. InStack(address) => address >= StackStart - m2.stack_pages[p]
    BY <1>3, <1>12
  <2> QED BY <1>1, <1>2, <1>3, <1>4, <1>8, <1>10, <2>1, <2>2, <2>3, PutPages
<1>14. Grows(m, m2, Kernel) /\ OthersSame(m, m2, p)
  <2>1. address \notin DOMAIN a.map[p]
    BY <1>1, <1>3, <1>4 DEF Pages, StackAbove
  <2>2. Grows(a, m2, Kernel) /\ OthersSame(a, m2, p)
    BY <1>1, <1>2, <1>3, <1>4, <1>10, <2>1, PutGrows
  <2>3. OthersSame(m, a, p)
    BY <1>4, OthersForKernel
  <2> QED BY <1>1, <1>4, <1>8, <2>2, <2>3, GrowsOn, OthersSameOn
<1>15. TwicePaged(m2)
  <2> SUFFICES ASSUME NEW q \in Procs PROVE m2.mapped_pages[q] <= 2 * m2.next
    BY DEF TwicePaged
  <2>1. m.mapped_pages[q] \in Nat /\ m.mapped_pages[q] <= 2 * m.next
    BY <1>1, Fields DEF TwicePaged
  <2>2. m2.mapped_pages[q] = m.mapped_pages[q] /\ m.next \in Nat
    BY <1>1, <1>4, <1>5, <1>9, Fields
  <2> QED BY <1>10, <2>1, <2>2
<1>16. Linked(m2)
  BY <1>1, <1>7, <1>8, <1>9, <1>14, StaysLinked
<1>17. Serves(m, m2, p)
  BY <1>10, <1>13, <1>14, <1>15, <1>16 DEF Serves, Steady
<1>18. StreamsCounted(m2)
  BY <1>1, <1>7, <1>9 DEF StreamsCounted
<1>19. Consistent(m2)
  BY <1>1, <1>7, <1>9, <1>17, <1>18, ServedConsistent
<1> QED BY <1>14, <1>19 DEF m2

-----------------------------------------------------------------------------
\* The invariant.

LEMMA EmptyMemoryPages == Pages(EmptyMemory) /\ EmptyMemory \in MemoryStates
<1> DEFINE m == EmptyMemory
<1>1. << >> \in PageTables /\ << >> \in Seq(PoolPages) /\ << >> \in Seq(StreamRecords)
  BY EmptyTable
<1>2. NoProgram \in ProgramFiles
  BY DEF NoProgram, ProgramFiles
<1>3. m \in MemoryStates
  BY <1>1, <1>2, Constants DEF EmptyMemory, MemoryStates
<1>4. /\ m.next = FirstPage /\ \A p \in Procs : m.map[p] = << >>
  BY DEF EmptyMemory
<1> HIDE DEF m
<1>5. \A p \in Procs : DOMAIN m.map[p] = {}
  BY <1>4, EmptyTable
<1>6. Apart(m) /\ HeapBelow(m) /\ StackAbove(m)
  BY <1>5, KernelIsProcess DEF Apart, HeapBelow, StackAbove
<1>7. FirstPage <= m.next
  BY <1>4, Constants
<1> QED BY <1>3, <1>6, <1>7 DEF Pages, m

LEMMA InitConsistent ==
  ASSUME Init
  PROVE  IInv
<1> DEFINE m == EmptyMemory
<1>1. /\ m.next = FirstPage /\ m.mapped_pages = [p \in Procs |-> 0]
      /\ m.map = [p \in Procs |-> << >>] /\ m.stream_list = [p \in Procs |-> << >>]
      /\ m.streams = << >> /\ m.told = {} /\ m.keyboard = NoProc
      /\ m.users = {} /\ m.started = {}
  BY DEF EmptyMemory
<1>2. Pages(m) /\ m \in MemoryStates /\ HandlePages \in Nat /\ HandlePages = 4
  BY EmptyMemoryPages DEF HandlePages
<1> HIDE DEF m
<1>3. /\ Pages(mem) /\ mem \in MemoryStates
      /\ m.next + HandlePages <= mem.next
      /\ Rest(mem) = Rest(m) /\ OthersSame(m, mem, Kernel)
      /\ mem.mapped_pages =
           [m.mapped_pages EXCEPT ![Kernel] = m.mapped_pages[Kernel] + HandlePages]
  <2>1. mem = VirtAllocContiguous(m, HandlePages)
    BY DEF Init, m
  <2>2. \A pages \in Nat :
          LET x == VirtAllocContiguous(m, pages)
          IN  /\ Pages(x) /\ x \in MemoryStates
              /\ m.next + pages <= x.next
              /\ Rest(x) = Rest(m) /\ OthersSame(m, x, Kernel)
              /\ x.mapped_pages =
                   [m.mapped_pages EXCEPT ![Kernel] = m.mapped_pages[Kernel] + pages]
              /\ m.mapped_pages[Kernel] + pages <= 2 * IdentityPages => Grows(m, x, Kernel)
    BY <1>2, VirtAllocKeeps
  <2> QED BY <1>2, <2>1, <2>2
<1>4. /\ mem.stream_list = [p \in Procs |-> << >>] /\ mem.streams = << >> /\ mem.told = {}
      /\ mem.keyboard = NoProc /\ mem.users = {} /\ mem.started = {}
  BY <1>1, <1>3, SameRest
<1>5. TwicePaged(mem)
  <2> SUFFICES ASSUME NEW p \in Procs PROVE mem.mapped_pages[p] <= 2 * mem.next
    BY DEF TwicePaged
  <2>1. mem.mapped_pages[p] \in {0, 4}
    BY <1>1, <1>2, <1>3
  <2>2. mem.next \in Nat /\ mem.next >= 4
    BY <1>1, <1>2, <1>3, Fields, Constants
  <2> QED BY <2>1, <2>2
<1>6. Linked(mem)
  <2>1. PoolsMapped(mem)
    BY <1>4 DEF PoolsMapped
  <2>2. RingsMapped(mem) /\ TellingsRight(mem)
    BY <1>4 DEF RingsMapped, TellingsRight
  <2> QED BY <2>1, <2>2 DEF Linked
<1>7. SectionsMapped(mem)
  BY <1>4 DEF SectionsMapped
<1>8. UnusedEmpty(mem)
  BY <1>1, <1>3, <1>4, KernelIsProcess DEF UnusedEmpty, OthersSame
<1>9. StreamsCounted(mem)
  <2>1. 0 \in 0..(MAX_PROCESSES - 1)
    BY Constants
  <2>2. mem.users = 2..(0 + 1)
    BY <1>4
  <2>3. Len(mem.streams) = 2 * 0 + (IF mem.keyboard = NoProc THEN 0 ELSE 1)
    BY <1>4
  <2> QED BY <2>1, <2>2, <2>3 DEF StreamsCounted
<1> QED BY <1>3, <1>5, <1>6, <1>7, <1>8, <1>9 DEF IInv, Consistent

\* What a step leaves mapped.
MapsStay ==
  \A p \in Procs : \A v \in DOMAIN mem.map[p] :
    \/ p = Kernel /\ v \in LoaderBase..(StackStart - 1)
    \/ v \in DOMAIN mem'.map[p] /\ mem'.map[p][v] = mem.map[p][v]

LEMMA GrowsMapsStay ==
  ASSUME IInv, NEW p \in Procs, Grows(mem, mem', p), p = Kernel \/ DOMAIN mem.map[p] = {}
  PROVE  MapsStay
<1> SUFFICES ASSUME NEW q \in Procs, NEW v \in DOMAIN mem.map[q]
             PROVE  \/ q = Kernel /\ v \in LoaderBase..(StackStart - 1)
                    \/ v \in DOMAIN mem'.map[q] /\ mem'.map[q][v] = mem.map[q][v]
  BY DEF MapsStay
<1>1. mem.map[q] \in PageTables
  BY Fields DEF IInv, Consistent, Pages
<1>2. v \in Nat
  BY <1>1, TableEntries
<1>3. CASE q \in {Kernel, p} /\ InWindow(v)
  <2>1. q = Kernel
    BY <1>3
  <2>2. v \in LoaderBase..(StackStart - 1)
    BY <1>2, <1>3, Constants DEF InWindow
  <2> QED BY <2>1, <2>2
<1>4. CASE ~(q \in {Kernel, p} /\ InWindow(v))
  BY <1>4 DEF Grows
<1> QED BY <1>3, <1>4

LEMMA SameStays ==
  ASSUME IInv, UNCHANGED mem
  PROVE  IInv' /\ MapsStay
BY DEF IInv, MapsStay

LEMMA StepKeeps ==
  ASSUME IInv, [Next]_vars
  PROVE  IInv' /\ MapsStay
<1>1. CASE Load
  <2>1. PICK file \in Programs, misses \in 0..MaxMisses, p \in Users :
          /\ p \notin mem.users
          /\ \A q \in Users : q < p => q \in mem.users
          /\ Becomes(LoadELF(mem, p, file, misses))
    BY <1>1 DEF Load
  <2> DEFINE m2 == LoadELF(mem, p, file, misses)
  <2>2. CASE m2.next <= IdentityPages
    <3>1. Consistent(m2) /\ Grows(mem, m2, p) /\ DOMAIN mem.map[p] = {}
      BY <2>1, <2>2, LoadELFKeeps DEF IInv
    <3> HIDE DEF m2
    <3>2. mem' = m2
      BY <2>1, <2>2 DEF Becomes, m2
    <3>3. IInv'
      BY <3>1, <3>2 DEF IInv
    <3> QED BY <3>1, <3>2, <3>3, GrowsMapsStay, KernelIsProcess
  <2>3. CASE ~(m2.next <= IdentityPages)
    <3>1. UNCHANGED mem
      BY <2>1, <2>3 DEF Becomes
    <3> QED BY <3>1, SameStays
  <2> QED BY <2>2, <2>3
<1>2. CASE LoadTooMany
  BY <1>2, SameStays DEF LoadTooMany
<1>3. ASSUME NEW p \in Users, OpenStream(p) PROVE IInv' /\ MapsStay
  <2> DEFINE m2 == KeyboardOpenStream(mem, p)
  <2>1. p \in mem.started /\ Becomes(m2)
    BY <1>3 DEF OpenStream
  <2>2. CASE m2.next <= IdentityPages
    <3>1. Consistent(m2) /\ Grows(mem, m2, Kernel)
      BY <2>1, <2>2, KeyboardOpenStreamKeeps DEF IInv
    <3> HIDE DEF m2
    <3>2. mem' = m2
      BY <2>1, <2>2 DEF Becomes
    <3>3. IInv' /\ Grows(mem, mem', Kernel)
      BY <3>1, <3>2 DEF IInv
    <3>4. ASSUME NEW k \in Procs, k = Kernel PROVE MapsStay
      BY <3>3, <3>4, GrowsMapsStay
    <3> QED BY <3>3, <3>4, KernelIsProcess
  <2>3. CASE ~(m2.next <= IdentityPages)
    <3>1. UNCHANGED mem
      BY <2>1, <2>3 DEF Becomes
    <3> QED BY <3>1, SameStays
  <2> QED BY <2>2, <2>3
<1>4. ASSUME NEW p \in Users, PageFault(p) PROVE IInv' /\ MapsStay
  <2> DEFINE m2 == GrowStack(mem, p)
  <2>1. p \in mem.started /\ mem.stack_pages[p] < MaxStack /\ Becomes(m2)
    BY <1>4 DEF PageFault
  <2>2. CASE m2.next <= IdentityPages
    <3>1. Consistent(m2) /\ Grows(mem, m2, Kernel)
      BY <2>1, GrowStackKeeps DEF IInv
    <3> HIDE DEF m2
    <3>2. mem' = m2
      BY <2>1, <2>2 DEF Becomes
    <3>3. IInv' /\ Grows(mem, mem', Kernel)
      BY <3>1, <3>2 DEF IInv
    <3>4. ASSUME NEW k \in Procs, k = Kernel PROVE MapsStay
      BY <3>3, <3>4, GrowsMapsStay
    <3> QED BY <3>3, <3>4, KernelIsProcess
  <2>3. CASE ~(m2.next <= IdentityPages)
    <3>1. UNCHANGED mem
      BY <2>1, <2>3 DEF Becomes
    <3> QED BY <3>1, SameStays
  <2> QED BY <2>2, <2>3
<1>5. CASE Idle
  BY <1>5, SameStays DEF Idle, vars
<1>6. CASE UNCHANGED vars
  BY <1>6, SameStays DEF vars
<1> QED BY <1>1, <1>2, <1>3, <1>4, <1>5, <1>6 DEF Next

-----------------------------------------------------------------------------
\* Page tables, streams, pools and what processes were told agree with each other in
\* every state, for any number of processes and streams and any layout.
THEOREM MemoryStaysConsistent == Spec => []IInv
<1>1. Init => IInv
  BY InitConsistent
<1>2. IInv /\ [Next]_vars => IInv'
  BY StepKeeps
<1> QED BY <1>1, <1>2, PTL DEF Spec

LEMMA ConsistentFields ==
  ASSUME IInv
  PROVE  /\ mem \in MemoryStates /\ mem.streams \in Seq(StreamRecords)
         /\ DOMAIN mem.streams = 1..Len(mem.streams)
         /\ Apart(mem) /\ RingsMapped(mem) /\ TellingsRight(mem)
         /\ SectionsMapped(mem) /\ StreamsCounted(mem)
<1>1. /\ mem \in MemoryStates /\ Apart(mem) /\ RingsMapped(mem) /\ TellingsRight(mem)
      /\ SectionsMapped(mem) /\ StreamsCounted(mem)
  BY DEF IInv, Consistent, Pages, Linked
<1>2. mem.streams \in Seq(StreamRecords)
  BY <1>1, Fields
<1> QED BY <1>1, <1>2

\* The page after a ring is the ring's page again, in the memory of both of its ends
\* (streamCreate), whatever is mapped later.
THEOREM RingsAlwaysWrap == Spec => []RingsWrap
<1>1. IInv => RingsWrap
  <2> SUFFICES ASSUME IInv, NEW i \in DOMAIN mem.streams
               PROVE  LET s == mem.streams[i]
                          wraps(p, vaddr) == /\ {vaddr, vaddr + 1} \subseteq DOMAIN mem.map[p]
                                             /\ mem.map[p][vaddr] = s.page
                                             /\ mem.map[p][vaddr + 1] = s.page
                      IN  wraps(s.read_owner, s.read_vaddr) /\ wraps(s.write_owner, s.write_vaddr)
    BY DEF RingsWrap
  <2>1. RingAt(mem, mem.streams[i])
    BY ConsistentFields DEF RingsMapped
  <2> QED BY <2>1 DEF RingAt, EndAt
<1> QED BY <1>1, MemoryStaysConsistent, PTL

\* An address a process was sent (procCreateStream, the shared page) is that of the
\* pointer the kernel syncs.
THEOREM PointersAlwaysShared == Spec => []PointersShared
<1>1. IInv => PointersShared
  <2> SUFFICES ASSUME IInv, NEW t \in mem.told
               PROVE  LET s   == mem.streams[t.stream]
                          ptr == IF s.read_owner = t.process THEN s.read_ptr ELSE s.write_ptr
                      IN  /\ t.vaddr.page \in DOMAIN mem.map[t.process]
                          /\ mem.map[t.process][t.vaddr.page] = ptr.page
                          /\ t.vaddr.slot = ptr.slot
    BY DEF PointersShared
  <2>1. TellingAt(mem, t)
    BY ConsistentFields DEF TellingsRight
  <2> QED BY <2>1 DEF TellingAt, PointerAt, PointerOf
<1> QED BY <1>1, MemoryStaysConsistent, PTL

\* Two user processes share pages of the kernel's code and no others, whatever
\* procInitUser, loadELF, streamCreate and the page fault handler map for them.
THEOREM SpacesStayApart == Spec => []SpacesApart
<1>1. IInv => SpacesApart
  BY ConsistentFields DEF SpacesApart, PagesOf, Apart
<1> QED BY <1>1, MemoryStaysConsistent, PTL

\* streamCreate never runs past the end of tk_stream_table, for any sizes of the two
\* tables the code's could be.
THEOREM StreamTableAlwaysHasRoom == Spec => []StreamTableHasRoom
<1>1. IInv => StreamTableHasRoom
  <2> SUFFICES ASSUME IInv PROVE Len(mem.streams) <= MAX_STREAMS
    BY DEF StreamTableHasRoom
  <2>1. PICK n \in 0..(MAX_PROCESSES - 1) :
          Len(mem.streams) = 2 * n + (IF mem.keyboard = NoProc THEN 0 ELSE 1)
    BY ConsistentFields DEF StreamsCounted
  <2>2. Len(mem.streams) <= 2 * n + 1 /\ n \in Nat /\ n <= MAX_PROCESSES - 1
    BY <2>1, Constants
  <2>3. Len(mem.streams) \in Nat
    BY ConsistentFields
  <2> QED BY <2>2, <2>3, Constants
<1> QED BY <1>1, MemoryStaysConsistent, PTL

\* A process that loadELF let run finds each section of its program in the page the
\* kernel copied it to through the loader's window.
THEOREM ProgramsStayInPlace == Spec => []ProgramInPlace
<1>1. IInv => ProgramInPlace
  BY ConsistentFields DEF ProgramInPlace, SectionsMapped, SectionsAt
<1> QED BY <1>1, MemoryStaysConsistent, PTL

\* Heaps, stacks and programs never grow into each other: no step of the kernel maps
\* something else at an address in use, outside the loader's window.
THEOREM NothingEverRemapped == Spec => NothingRemapped
<1>1. IInv /\ [Next]_vars =>
        [ \A p \in Procs : \A v \in DOMAIN mem.map[p] :
            \/ p = Kernel /\ v \in LoaderBase..(StackStart - 1)
            \/ v \in DOMAIN mem'.map[p] /\ mem'.map[p][v] = mem.map[p][v] ]_vars
  BY StepKeeps DEF MapsStay
<1> QED BY <1>1, MemoryStaysConsistent, PTL DEF Spec, NothingRemapped
==============================================================================
