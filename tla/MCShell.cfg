SPECIFICATION ShellSpec
CONSTANTS
  Lines <- MCLines
  Letters <- MCLetters
  ScriptOf <- MCScriptOf
  Files <- MCFiles
  Long = {"long"}
  Seconds <- MCSeconds
  PATHCAP = 6
  PS1CAP = 4
  SLACK = 5
  PERSEC = 3
  WORD = 16
  Semicolon = ";"
  EndMark = "NUL"
CHECK_DEADLOCK FALSE
INVARIANTS
    EnvKept
    ScriptInOrder
PROPERTIES
    EveryLineEnds
