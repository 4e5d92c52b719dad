------------------------------- MODULE MCArm --------------------------------
(* Two tasks and the idle task, in the builds named below.                 *)
EXTENDS Arm, TLC

CONSTANTS a, b

MCPlace == a :> 2048 @@ b :> 4096 @@ Idle :> 6144

Build(arch, mpu_, fp_, regions, sizes) ==
  [arch |-> arch, mpu |-> mpu_, fp |-> fp_, regions |-> regions, sizes |-> sizes]

\* The builds without a memory protection unit, and those with one in which tasks get
\* the regions they are configured with.
SoundBuilds ==
  {Build(arch, FALSE, FALSE, 4, {128}) : arch \in {"v7", "v8", "v8base", "r"}} \cup
  {Build(arch, FALSE, TRUE, 4, {128}) : arch \in {"v7", "v8", "r"}} \cup
  {Build("v6", TRUE, FALSE, 4, {256}), Build("v7", TRUE, FALSE, 1, {96}),
   Build("v7", TRUE, FALSE, 3, {32, 160, 512}), Build("v7", TRUE, FALSE, 6, {64, 256}),
   Build("v7", TRUE, TRUE, 4, {1024}), Build("v8", TRUE, FALSE, 4, {100}),
   Build("v8", TRUE, TRUE, 8, {128}), Build("r", TRUE, FALSE, 4, {256, 512})}

\* The R profile with both a memory protection unit and floating point.
RWithMpuAndFp == {Build("r", TRUE, TRUE, 4, {256})}
=============================================================================
