SPECIFICATION Spec
CONSTANTS
  a = a  b = b  Idle = Idle  Isr = Isr
  Tasks = {a, b, Idle}
  WordBits = 2
  RT_MPU_NUM_REGIONS = 8
  Variants <- RWithMpuAndFp
  Place <- MCPlace
  Data = 1024
  Droppers = {}
INVARIANTS FpContextRestored
