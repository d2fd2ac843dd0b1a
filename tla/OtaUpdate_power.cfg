SPECIFICATION Spec
CONSTANTS
  ota = ota
  console = console
  None = None
  small = small
  large = large
  Sector = 3
  Files = {small, large}
  Cells <- LengthOf
  Layouts <- SixLayouts
  MaxUpdates = 2
  MaxCommands = 1
  MaxFailures = 2
INVARIANTS
  TypeOK
  FlashLockExclusive
  BootsWhole
  FirmwareKept
  SettingsKept
CHECK_DEADLOCK FALSE
