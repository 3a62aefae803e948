CONSTANTS
  MaxLines = 4
  database = database
  DATABASE = DATABASE
  crowler = crowler
  host = host
  depth = depth
  local = local
  empty = empty
  two = two
  Name = {database, DATABASE, crowler}
  Lower <- LowerCase
  NoName = NoName
  Var = {host, depth}
  Text = {local, empty, two}
  NotANumber = NotANumber
  NoValue = NoValue
  File <- SmallFiles
  Keys <- TwoKeys
SPECIFICATION Spec
INVARIANTS IniTypeOK  ConfiguredMeansSound RefusedForCause
CHECK_DEADLOCK FALSE
