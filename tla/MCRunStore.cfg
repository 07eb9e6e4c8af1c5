SPECIFICATION Spec
CONSTANTS
  apid = apid
  agentd = agentd
  chat = chat
  http = http
  watcher = watcher
  sharedId = sharedId
  checkpoint = checkpoint
  Bad = Bad
  Absent = Absent
  Keys = {sharedId, checkpoint}
  StateKeys = {checkpoint}
  Procs = {apid, agentd}
  Savers = {chat, http, watcher}
  KeyOf <- MCKeyOf
  ProcOf <- MCProcOf
  MaxStamps = 3
  Ticks <- MCTicks
  ClockStart = 1
  MaxClock = 2
  LongLines = TRUE
INVARIANTS
  AckedIsKept
  AgreesWithMemory
PROPERTIES
  SettledGivesWayToAnotherOnly
  ActsAsNewestWins
CHECK_DEADLOCK FALSE
