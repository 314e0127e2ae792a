CONSTANTS
  Process <- Procs
  Away <- Nobody
  Kind = {"bl_server", "ps_server"}
  NoKind = "none"
  Connection <- NConn
  Machines <- AllMachines
SPECIFICATION CheckSpec
INVARIANTS
  RootsAreComponents
  CyclesAreCycles
  ReportIsRight
\* the program ends with its report
CHECK_DEADLOCK FALSE
