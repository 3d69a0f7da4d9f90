SPECIFICATION FairSpec
CONSTANTS
  Irqs <- IrqList
  CP_TMO = 4
  Setups <- AllSetups
INVARIANTS TrapsPrecise InOrder TrapRecorded DebugIsMachine
PROPERTIES PrivilegeRises Served
