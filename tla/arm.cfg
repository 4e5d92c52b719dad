SPECIFICATION Spec
CONSTANTS
  a = a  b = b  Idle = Idle  Isr = Isr
  Tasks = {a, b, Idle}
  WordBits = 1
  RT_MPU_NUM_REGIONS = 8
  Variants <- SoundBuilds
  Place <- MCPlace
  Data = 1024
  Droppers = {a}
INVARIANTS RegistersRestored FpContextRestored RunsInOwnRegions ReadModifyWriteAtomic MaskRestored
