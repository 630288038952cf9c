SPECIFICATION Spec
CONSTANTS
  Proc = {idle, init, u1, u2, u3}
  idleproc = idle
  initproc = init
  NULL = NULL
  MAX_PROCESS = 5
SYMMETRY Symmetry
INVARIANTS IInv SleepersAwaited NeverIdleAgain
PROPERTY DeathIsFinal
