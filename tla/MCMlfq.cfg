\* MLFQ: two queues of one and two ticks.  FCFS: three slots, two CPUs, two ticks.
\* Terminal: rings of two characters.
CONSTANTS
  N = 3
  NUM_QUEUES = 2
  TimeSlice <- Slices2
  AGING_TIME = 3
  MaxAge = 4
  Calls = {"sleep", "exit", "fork", "wait"}
  MaxPassIntrs = 1
  Null = Null
  FPROC = 3
  FCpus = {c1, c2}
  NoCpu = NoCpu
  MAXTICKS = 2
  t1 = t1
  t2 = t2
  TtyProcs = {t1, t2}
  Intr = Intr
  Plain = {a}
  Newline = Newline
  Eof = Eof
  Return = Return
  Backspace = Backspace
  KillLine = KillLine
  ProcDump = ProcDump
  Nul = Nul
  OutVals = {x, y}
  INPUT_BUF_SIZE = 2
  UART_TX_BUF_SIZE = 2
  UWRAP = 4
  TWRAP = 4
  RXFIFO = 1
  TXFIFO = 3
  MAXREAD = 2
  MAXWRITE = 1
  Sessions <- Terminals
  Nil = Nil
SPECIFICATION MCSpec
INVARIANTS   OldestRuns NobodyWaitsInVain
PROPERTY ImplementsTerminal
