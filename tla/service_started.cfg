CONSTANTS
  Command = {c}
  NoCommand = NoCommand
  Port = {p3000}
  NoPort = NoPort
  MaxPid = 2
  Attempts = 1
SPECIFICATION Spec
PROPERTY
  StartedIsAlive
CHECK_DEADLOCK FALSE
