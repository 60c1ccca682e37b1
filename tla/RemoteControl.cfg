SPECIFICATION ClipSpec
CONSTANTS
  UserButton = {"left", "right", "extra"}
  UserKey = {"Enter", "NumpadEnter", "Fn"}
  Spot = {"a"}
  Delta = {5}
  MaxInput = 1
  MaxSessions = 1
  MaxWire = 1
  MaxEvents = 3
  MaxFaults = 1
  Content <- Contents
  Oversized = {"big"}
  MaxClips = 1
INVARIANTS
  InputSettles
PROPERTIES
  ClipboardQuiesces
  CopyArrives
CHECK_DEADLOCK FALSE
