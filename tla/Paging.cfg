\* Two entries of two pages, the kernel's directory and another.
SPECIFICATION MCSpec
CONSTANTS
  Null = Null
  Kernel = kernel
  Others = {u}
  NumEntries = 2
  FirstKernel = 1
  PerTable = 2
  BootDir <- MCBootDir
  NewDirs <- MCNewDirs
INVARIANTS KernelHalfKept TestsPass
PROPERTY SyncSettles
