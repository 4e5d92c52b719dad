-------------------------------- MODULE Mpu ---------------------------------
(***************************************************************************)
(* How the Arm port describes a region of memory to the memory protection  *)
(* unit (arch/arm/include/muntos/arch/mpu.h) and writes the description of *)
(* a task to it when the task is switched to (mpuconfigure in m/ and r/).  *)
(* A build v is a record with its architecture v.arch, one of "v6", "v7",  *)
(* "v8", "v8base" and "r", and its number v.regions of regions per task.   *)
(* The size of 4GB, written SIZE_MAX, is left out.                         *)
(***************************************************************************)
EXTENDS Integers, Sequences, SequencesExt

CONSTANT RT_MPU_NUM_REGIONS

V8(v) == v.arch \in {"v8", "v8base"}

RT_MPU_TASK_REGION_START_ID(v) == RT_MPU_NUM_REGIONS - v.regions

\* x & ~(s - 1) for a power s of 2.
Down(x, s) == x - (x % s)

clz(n) == 31 - (CHOOSE k \in 0..29 : 2^k <= n /\ n < 2^(k + 1))

RT_MPU_SIZEBITS(n) == IF n <= 256 THEN 7 ELSE 30 - clz(n)

RT_MPU_REGION_SIZE(n) == 2^(RT_MPU_SIZEBITS(n) + 1)

RT_MPU_SUBREGION_SIZE(n) == RT_MPU_REGION_SIZE(n) \div 8

\* known: whether the compiler sees that n is a constant.
RT_MPU_USE_SUBREGIONS(n, known) == known /\ n > 0

RT_MPU_SUBREGIONS(n, known) ==
  IF RT_MPU_USE_SUBREGIONS(n, known) THEN (n - 1) \div RT_MPU_SUBREGION_SIZE(n) + 1 ELSE 8

RT_MPU_SUBREGION_OFFSET(a, n) ==
  (Down(a, RT_MPU_SUBREGION_SIZE(n)) - Down(a, RT_MPU_REGION_SIZE(n)))
    \div RT_MPU_SUBREGION_SIZE(n)

\* Mutant: the first subregion after the region is not disabled.
RT_MPU_SRD_SUFFIX_late(o) == (o + 2)..7

\* The subregions before and after the ones in use, which are disabled.
RT_MPU_SRD_PREFIX(o) == 0..(o - 1)
RT_MPU_SRD_SUFFIX(o) == (o + 1)..7

RT_MPU_SRD(a, n, known) ==
  IF RT_MPU_USE_SUBREGIONS(n, known)
  THEN RT_MPU_SRD_PREFIX(RT_MPU_SUBREGION_OFFSET(a, n)) \cup
       RT_MPU_SRD_SUFFIX(RT_MPU_SUBREGION_OFFSET(a + n - 1, n))
  ELSE {}

\* A stack is declared with a constant size.
RT_MPU_ALIGN(v, n) ==
  LET subregions == RT_MPU_SUBREGIONS(n, TRUE)
  IN IF V8(v) THEN 32
     ELSE IF subregions > 4 THEN RT_MPU_REGION_SIZE(n)
     ELSE (IF subregions > 2 THEN 4 ELSE subregions) * RT_MPU_SUBREGION_SIZE(n)

RT_STACK_SIZE(v, n) ==
  IF V8(v) THEN Down(n + 31, 32) ELSE RT_MPU_SUBREGION_SIZE(n) * RT_MPU_SUBREGIONS(n, TRUE)

-----------------------------------------------------------------------------
(* The configuration of a task: two words for each of its regions.  Memory *)
(* attributes other than the enable bit are left out.                      *)

Word == [addr |-> 0, id |-> 0, sizebits |-> 0, srd |-> {}, enable |-> FALSE]

RT_MPU_BASE_ADDR(v, id, a) == [Word EXCEPT !.addr = a, !.id = IF v.arch = "r" THEN 0 ELSE id]

RT_MPU_ATTR_SIZE(a, n, known) ==
  [Word EXCEPT !.sizebits = RT_MPU_SIZEBITS(n), !.srd = RT_MPU_SRD(a, n, known),
               !.enable = n > 0]

RT_MPU_LIMIT_ADDR(a, n) == [Word EXCEPT !.addr = Down(a + n - 1, 32), !.enable = n > 0]

rt_mpu_config_init(v) ==
  [i \in 0..(v.regions - 1) |->
     IF V8(v) THEN <<Word, Word>>
     ELSE <<RT_MPU_BASE_ADDR(v, RT_MPU_TASK_REGION_START_ID(v) + i, 0),
            RT_MPU_ATTR_SIZE(0, 0, FALSE)>>]

rt_mpu_config_set(v, config, id, a, n, known) ==
  [config EXCEPT ![id - RT_MPU_TASK_REGION_START_ID(v)] =
     IF V8(v) THEN <<[Word EXCEPT !.addr = Down(a, 32)], RT_MPU_LIMIT_ADDR(a, n)>>
     ELSE <<RT_MPU_BASE_ADDR(v, id, a), RT_MPU_ATTR_SIZE(a, n, known)>>]

-----------------------------------------------------------------------------
(* The unit: the number of the region that is selected and the two words   *)
(* of every region.                                                        *)

\* rt_mpu_enable selects the first of the regions of tasks, where the handler does not.
rt_mpu_enable(v) ==
  [number |-> IF v.arch = "v8" /\ v.regions <= 4
              THEN Down(RT_MPU_TASK_REGION_START_ID(v), 4) ELSE 0,
   base |-> [r \in 0..(RT_MPU_NUM_REGIONS - 1) |-> Word],
   attr |-> [r \in 0..(RT_MPU_NUM_REGIONS - 1) |-> Word]]

\* What the unit does when the word at offset o from its first base register is
\* written.  Up to v7 a base address names its region; from v8 on each of the four
\* pairs of registers stands for a region next to the selected one.
WriteWord(v, mpu, o, w) ==
  LET base == o % 2 = 0
      region == IF V8(v) THEN IF o < 2 THEN mpu.number ELSE Down(mpu.number, 4) + o \div 2
                ELSE IF base THEN w.id ELSE mpu.number
  IN IF base THEN [mpu EXCEPT !.base[region] = w,
                              !.number = IF V8(v) THEN @ ELSE region]
     ELSE [mpu EXCEPT !.attr[region] = w]

\* stmia of the words of count regions, the first of them config[i].
StoreRegions(v, mpu, config, i, count, offset) ==
  FoldLeft(LAMBDA m, k : WriteWord(v, m, offset + k, config[i + k \div 2][1 + (k % 2)]),
           mpu, [k \in 1..(2 * count) |-> k - 1])

\* How many regions are written together, so that none is past a multiple of 4.
mpuset_count(r, n) ==
  IF r % 4 = 0 /\ n >= 4 THEN 4
  ELSE IF r % 4 = 1 /\ n >= 3 THEN 3
  ELSE IF r % 4 = 2 /\ n >= 2 THEN 2
  ELSE 1

RECURSIVE mpuset(_, _, _, _, _)

mpuset(v, mpu, config, r, n) ==
  LET i == r - RT_MPU_TASK_REGION_START_ID(v)
      count == mpuset_count(r, n)
      selected == IF v.arch = "v8" /\ v.regions > 4 /\ (i = 0 \/ r % 4 = 0)
                  THEN [mpu EXCEPT !.number = Down(r, 4)] ELSE mpu
      offset == IF v.arch = "v8" THEN r % 4 ELSE 0
  IN IF n = 0 THEN mpu
     ELSE mpuset(v, StoreRegions(v, selected, config, i, count, offset), config,
                 r + count, n - count)

\* v6-m and v8-m.base have one pair of registers.
mpuset_v6(v, mpu, config) ==
  FoldLeft(LAMBDA m, i :
             StoreRegions(v, IF v.arch = "v8base"
                             THEN [m EXCEPT !.number =
                                     Down(RT_MPU_TASK_REGION_START_ID(v) + i, 4)]
                             ELSE m,
                          config, i, 1, 0),
           mpu, [i \in 1..v.regions |-> i - 1])

\* v7-r: uxtb leaves the subregions out of the word that has the size.
mpusetloop_r(v, mpu, config) ==
  FoldLeft(LAMBDA m, i :
             LET r == RT_MPU_TASK_REGION_START_ID(v) + i
             IN [m EXCEPT !.number = r, !.base[r] = config[i][1],
                          !.attr[r] = [config[i][2] EXCEPT !.srd = {}]],
           mpu, [i \in 1..v.regions |-> i - 1])

mpuconfigure(v, mpu, config) ==
  CASE v.arch = "r" -> mpusetloop_r(v, mpu, config)
    [] v.arch \in {"v6", "v8base"} -> mpuset_v6(v, mpu, config)
    [] OTHER -> mpuset(v, mpu, config, RT_MPU_TASK_REGION_START_ID(v), v.regions)

\* Blocks of 32 bytes, the unit of all sizes and alignments.
Blocks(a, n) == (a \div 32)..((a + n - 1) \div 32)

\* The blocks that region r admits.
RegionBlocks(v, mpu, r) ==
  LET size == 2^(mpu.attr[r].sizebits + 1)
      start == Down(mpu.base[r].addr, size)
  IN IF ~ mpu.attr[r].enable THEN {}
     ELSE IF V8(v) THEN (mpu.base[r].addr \div 32)..(mpu.attr[r].addr \div 32)
     ELSE {b \in Blocks(start, size) :
             (32 * b - start) \div (size \div 8) \notin mpu.attr[r].srd}

=============================================================================
