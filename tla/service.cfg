\* One administrator, one port, up to three servers.
CONSTANTS
  Command = {c}
  NoCommand = NoCommand
  Port = {p3000}
  NoPort = NoPort
  MaxPid = 3
  Attempts = 2
SPECIFICATION Spec
INVARIANTS
  OneServer
  Recorded
PROPERTIES
  StopStops
  CommandsEnd
\* No process number is left for a further start.
CHECK_DEADLOCK FALSE
