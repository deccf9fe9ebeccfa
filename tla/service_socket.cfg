CONSTANTS
  Command = {c}
  NoCommand = NoCommand
  Port = {p3000}
  NoPort = NoPort
  MaxPid = 2
  Attempts = 1
SPECIFICATION Spec
INVARIANT
  SocketReachable
CHECK_DEADLOCK FALSE
