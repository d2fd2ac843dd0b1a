SPECIFICATION Spec
CONSTANTS
  os = os
  user = user
  stimer = stimer
  wlan = wlan
  uart = uart
  adc = adc
  h1 = h1
  h2 = h2
  None = None
  Contexts <- ThreeContexts
  Handlers <- TopHandler
  Locks = {os, user}
  Events = {stimer, wlan}
  OS = os
  STIMER = stimer
  Uses <- LocksAndTimer
  Devices = {uart, adc}
  Hooks = {h1, h2}
  PerTick = 3
  Wrap = 17
  Counts = 13
  Eighth = 2
  EighthUs = 5
  MaxIdle = 3
  MaxLate = 2
  MaxMissing = 4
INVARIANTS
  TypeOK
  OnlyPreemptingUpdatesAreLost
  SoundSleep
  Accounted
  Registered
