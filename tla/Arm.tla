-------------------------------- MODULE Arm ---------------------------------
(***************************************************************************)
(* The Arm port: what the system call handler (arch/arm/m and arch/arm/r)  *)
(* saves of a task and restores of the next one, the context that a new    *)
(* task starts from (arch/arm/arm.c), and the regions it runs in (Mpu).    *)
(* All the builds that the files are written for are instances of one      *)
(* model.  Registers that are always moved together are one:               *)
(* "volatile" is r0-r3, r12, lr, pc and psr, "lo" r4-r7, "hi" r8-r11,      *)
(* "fp_lo" s0-s15, "fp_hi" s16-s31, "lr" the exception return value.  For  *)
(* the R profile "control" is the processor mode.                          *)
(***************************************************************************)
EXTENDS Mpu, AtomicV6, FiniteSets

CONSTANTS
  Variants,  \* the builds: [arch, mpu, fp, regions, sizes]
  Place,     \* where the linker puts the stack of each task
  Data       \* the data region that the application gives the tasks: an offset from it

Registers == {"volatile", "lo", "hi", "control", "psplim", "fp_lo", "fp_hi", "fpscr", "lr"}

VARIABLES
  variant,             \* the build
  stacks,              \* the stack of each task: its address, its size, and whether the
                       \* compiler knew the size when its region was set
  cpu,                 \* the registers
  fpca,                \* M: whether the active task has used floating point
  rt_task_fp_enabled,  \* R: the flag of this name
  ctx,                 \* the words saved on the stack of each task that does not run
  mpu,                 \* the memory protection unit
  applied,             \* whether a configuration has been applied to it
  own,                 \* what each task left in its registers
  fp                   \* how far each task is with floating point

armVars == <<variant, stacks, cpu, fpca, rt_task_fp_enabled, ctx, mpu,
             applied, own, fp>>
vars == <<armVars, atomicVars>>

R(v) == v.arch = "r"

-----------------------------------------------------------------------------
(* New tasks.                                                              *)

\* struct context, from the lowest address.
context(v) ==
  SelectSeq(<<"control", "psplim", "fp_enabled", "lo", "hi", "lr", "volatile", "psr">>,
            LAMBDA f : CASE f = "control" -> ~R(v) /\ v.mpu
                         [] f = "psplim" -> V8(v)
                         [] f = "fp_enabled" -> R(v) /\ v.fp
                         [] f = "lr" -> ~R(v) /\ v.fp
                         [] f = "psr" -> R(v)
                         [] OTHER -> TRUE)

\* What context_create writes to them; the others are left as they were.
context_create(v, t) ==
  [i \in 1..Len(context(v)) |->
     CASE context(v)[i] = "control" -> <<"privileged">>
       [] context(v)[i] = "psplim" -> <<t, "stack">>
       [] context(v)[i] = "fp_enabled" -> <<"nofp">>
       [] context(v)[i] = "lr" -> <<"nofp">>
       [] context(v)[i] = "volatile" -> <<t, "entry">>
       [] context(v)[i] = "psr" -> <<"privileged">>
       [] OTHER -> <<"undefined">>]

\* A task relies on these when it starts.
Started(v, t) ==
  [r \in Registers |-> CASE r = "volatile" -> <<t, "entry">>
                         [] r = "control" -> <<"privileged">>
                         [] r = "psplim" /\ V8(v) -> <<t, "stack">>
                         [] OTHER -> <<"undefined">>]

\* rt_task_init or RT_TASK: the stack is the first region of a task.
Config(t) ==
  LET start == RT_MPU_TASK_REGION_START_ID(variant)
      stack == rt_mpu_config_set(variant, rt_mpu_config_init(variant), start,
                                 stacks[t].addr, stacks[t].size, stacks[t].known)
  IN IF t = Idle \/ variant.regions = 1 THEN stack
     ELSE rt_mpu_config_set(variant, stack, start + 1, Place[t] + Data, 256, TRUE)

\* rt_start has set up the idle task.
Init ==
  /\ variant \in Variants
  /\ \E n \in variant.sizes, known \in BOOLEAN, offset \in 0..255 :
       /\ offset % RT_MPU_ALIGN(variant, n) = 0
       /\ ~variant.mpu => known /\ offset = 0
       /\ stacks = [t \in Tasks |-> [addr |-> Place[t] + offset, size |-> n, known |-> known]]
  /\ cpu = Started(variant, Idle) /\ fpca = FALSE /\ rt_task_fp_enabled = FALSE
  /\ ctx = [t \in Tasks |-> IF t = Idle THEN <<>> ELSE context_create(variant, t)]
  /\ mpu = rt_mpu_enable(variant) /\ applied = FALSE
  /\ own = [t \in Tasks |-> Started(variant, t)]
  /\ fp = [t \in Tasks |-> "none"]
  /\ AtomicInit

-----------------------------------------------------------------------------
(* What tasks do with the registers.                                       *)

Runs(t) == active = t /\ ~interrupted

SetRegisters(t, values) ==
  /\ cpu' = [r \in Registers |-> IF r \in DOMAIN values THEN values[r] ELSE cpu[r]]
  /\ own' = [own EXCEPT ![t] = [r \in Registers |-> IF r \in DOMAIN values THEN values[r]
                                                    ELSE own[t][r]]]

Compute(t) ==
  /\ Runs(t) /\ at[t] = "out"
  /\ LET value == IF own[t]["lo"] = <<t, "0">> THEN <<t, "1">> ELSE <<t, "0">>
         fps == IF fp[t] = "used" THEN {"fp_lo", "fp_hi"} ELSE {}
     IN SetRegisters(t, [r \in {"volatile", "lo", "hi"} \cup fps |-> value])
  /\ UNCHANGED <<variant, stacks, fpca, rt_task_fp_enabled, ctx, mpu,
                 applied, fp, atomicVars>>

\* Mutant: fpscr is set before the flag.
rt_task_enable_fp_late(t) ==
  \/ /\ fp[t] = "none" /\ fp' = [fp EXCEPT ![t] = "flag"]
     /\ SetRegisters(t, [fpscr |-> <<t, "0">>]) /\ UNCHANGED rt_task_fp_enabled
  \/ /\ fp[t] = "flag" /\ fp' = [fp EXCEPT ![t] = "enabled"]
     /\ rt_task_fp_enabled' = TRUE /\ UNCHANGED <<cpu, own>>

rt_task_enable_fp(t) ==
  \/ /\ fp[t] = "none" /\ fp' = [fp EXCEPT ![t] = "flag"]
     /\ rt_task_fp_enabled' = TRUE /\ UNCHANGED <<cpu, own>>
  \/ /\ fp[t] = "flag" /\ fp' = [fp EXCEPT ![t] = "enabled"]
     /\ SetRegisters(t, [fpscr |-> <<t, "0">>]) /\ UNCHANGED rt_task_fp_enabled

\* A task of the M profile needs no leave to use floating point.  The idle loop does
\* without.
UseFp(t) ==
  /\ Runs(t) /\ t # Idle /\ variant.fp /\ at[t] = "out"
  /\ \/ R(variant) /\ rt_task_enable_fp(t) /\ UNCHANGED fpca
     \/ /\ fp[t] = IF R(variant) THEN "enabled" ELSE "none"
        /\ fp' = [fp EXCEPT ![t] = "used"]
        /\ SetRegisters(t, [r \in {"fp_lo", "fp_hi", "fpscr"} |-> <<t, "0">>])
        /\ fpca' = ~R(variant) /\ UNCHANGED rt_task_fp_enabled
  /\ UNCHANGED <<variant, stacks, ctx, mpu, applied, atomicVars>>

rt_task_drop_privilege(t) ==
  /\ Runs(t) /\ (R(variant) \/ variant.mpu)
  /\ own[t]["control"] = <<"privileged">>
  /\ IF variant.arch = "v6" THEN Drop(t) ELSE UNCHANGED atomicVars
  /\ SetRegisters(t, [control |-> <<"unprivileged">>])
  /\ UNCHANGED <<variant, stacks, fpca, rt_task_fp_enabled, ctx, mpu, applied, fp>>

-----------------------------------------------------------------------------
(* The system call handler, when rt_syscall_run returns a context.  When   *)
(* it returns NULL, what was pushed is popped and nothing else is done.    *)

Values(registers) == [i \in 1..Len(registers) |-> cpu[registers[i]]]

\* c with the registers loaded from the first words.
Load(c, registers, words) ==
  [r \in Registers |-> IF \E i \in 1..Len(registers) : registers[i] = r
                       THEN words[CHOOSE i \in 1..Len(registers) : registers[i] = r]
                       ELSE c[r]]

Present(v, registers) ==
  SelectSeq(registers, LAMBDA r : CASE r = "control" -> v.mpu
                                    [] r = "psplim" -> V8(v)
                                    [] r = "lr" -> v.fp
                                    [] OTHER -> TRUE)

\* Mutant: the stack limit is not restored.
loadregs_no_psplim(v) == Present(v, <<"control", "lo", "hi", "lr">>)

saveregs(v) == Present(v, <<"control", "psplim", "lo", "hi", "lr">>)
loadregs(v) == Present(v, <<"control", "psplim", "lo", "hi", "lr">>)

\* The processor stacks the volatile registers, those of floating point only if there
\* are any, and tells in lr which it has done.
exception_frame(floating) ==
  <<"volatile">> \o IF floating THEN <<"fp_lo", "fpscr">> ELSE <<>>

loadfp(lr) == IF lr = <<"fp">> THEN <<"fp_hi">> ELSE <<>>

save_m ==
  LET c == [cpu EXCEPT !["lr"] = IF fpca THEN <<"fp">> ELSE <<"nofp">>]
      registers == saveregs(variant) \o (IF fpca THEN <<"fp_hi">> ELSE <<>>)
                     \o exception_frame(fpca)
  IN [i \in 1..Len(registers) |-> c[registers[i]]]

restore_m(words) ==
  LET c == Load(cpu, loadregs(variant), words)
      floating == variant.fp /\ c["lr"] = <<"fp">>
      registers == (IF variant.fp THEN loadfp(c["lr"]) ELSE <<>>)
                     \o exception_frame(floating)
      rest == SubSeq(words, Len(loadregs(variant)) + 1, Len(words))
  IN /\ cpu' = [Load(c, registers, rest) EXCEPT !["lr"] = <<"undefined">>]
     /\ fpca' = floating
     /\ ctx' = [ctx EXCEPT ![active] = save_m,
                           ![active'] = SubSeq(rest, Len(registers) + 1, Len(rest))]
     /\ UNCHANGED rt_task_fp_enabled

\* The R profile pushes the flag and, if it is set, all of the floating-point
\* registers.
save_r ==
  LET flags == IF rt_task_fp_enabled THEN <<"fp">> ELSE <<"nofp">>
  IN (IF variant.fp THEN <<flags>> ELSE <<>>) \o Values(<<"lo", "hi">>)
    \o (IF variant.fp /\ rt_task_fp_enabled THEN Values(<<"fpscr", "fp_lo", "fp_hi">>)
        ELSE <<>>)
    \o Values(<<"volatile", "control">>)

\* mpuconfigure leaves the end of the configuration in r1, where the handler expects
\* the address of the flag.
r1_is_flag == ~variant.mpu

restore_r(words) ==
  LET skip == IF variant.fp THEN 1 ELSE 0
      enabled == variant.fp /\ words[1] = <<"fp">>
      registers == <<"lo", "hi">> \o (IF enabled THEN <<"fpscr", "fp_lo", "fp_hi">> ELSE <<>>)
                     \o <<"volatile", "control">>
      rest == SubSeq(words, skip + 1, Len(words))
  IN /\ cpu' = Load(cpu, registers, rest)
     /\ rt_task_fp_enabled' = IF variant.fp /\ r1_is_flag THEN enabled ELSE rt_task_fp_enabled
     /\ ctx' = [ctx EXCEPT ![active] = save_r,
                           ![active'] = SubSeq(rest, Len(registers) + 1, Len(rest))]
     /\ UNCHANGED fpca

rt_syscall_handler(t) ==
  /\ t # active /\ Switch(t)
  /\ IF R(variant) THEN restore_r(ctx[t]) ELSE restore_m(ctx[t])
  /\ mpu' = IF variant.mpu THEN mpuconfigure(variant, mpu, Config(t)) ELSE mpu
  /\ applied' = variant.mpu
  /\ UNCHANGED <<variant, stacks, own, fp>>

\* Only armv6-m has the operations of AtomicV6.
UseAtomics == variant.arch = "v6" /\ (Operate \/ Interrupt) /\ UNCHANGED armVars

Next ==
  \/ \E t \in Tasks : \/ Compute(t) \/ UseFp(t) \/ rt_task_drop_privilege(t)
                      \/ rt_syscall_handler(t)
  \/ UseAtomics

Spec == Init /\ [][Next]_vars

-----------------------------------------------------------------------------
(* Properties.                                                             *)

Fp == {"fp_lo", "fp_hi", "fpscr"}

\* A task that is switched to finds in its registers, its privilege and its stack
\* limit what it left there, and what context_create wrote when it starts, whichever
\* tasks have run in the meantime (struct context, saveregs and loadregs agree).  So
\* is its stack pointer: all that was saved has been popped, whether or not it and the
\* task before it use floating point.
RegistersRestored ==
  /\ \A r \in Registers \ Fp :
       own[active][r] # <<"undefined">> => cpu[r] = own[active][r]
  /\ ctx[active] = <<>>

\* So do tasks that use floating point, from the moment they may (arm.c:355), and the
\* flag tells whether the active task does (arm.c:347).
FpContextRestored ==
  /\ \A r \in Fp : own[active][r] # <<"undefined">> => cpu[r] = own[active][r]
  /\ R(variant) /\ variant.fp => (rt_task_fp_enabled <=> fp[active] # "none")

\* A task that has been switched to can access its stack and its data region.  If the
\* compiler knew its size it can access no other memory, no region but those of tasks
\* is written, and none is left over from the task that ran before.
RunsInOwnRegions ==
  LET stack == Blocks(stacks[active].addr, RT_STACK_SIZE(variant, stacks[active].size))
      data == IF active = Idle \/ variant.regions = 1 THEN {}
              ELSE Blocks(Place[active] + Data, 256)
      admitted(regions) == UNION {RegionBlocks(variant, mpu, r) : r \in regions}
      start == RT_MPU_TASK_REGION_START_ID(variant)
  IN applied =>
       /\ stack \cup data \subseteq admitted(start..(RT_MPU_NUM_REGIONS - 1))
       /\ stacks[active].known =>
            admitted(start..(RT_MPU_NUM_REGIONS - 1)) = stack \cup data
       /\ admitted(0..(start - 1)) = {}

=============================================================================
