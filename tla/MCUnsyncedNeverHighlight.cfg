SPECIFICATION Spec
CONSTANTS
  ModelledParts = {"lyrics"}
  None = None
  Devices = {d1, d2}
  Buses <- MCBuses
  MaxBoots = 3
  MaxPrompts = 3
  RowIds = {1, 2, 3}
  Queries = {"even", "ranked"}
  Blank = "blank"
  Off = "off"
  Score <- MCScore
  MaxClock = 4
  Clips = {{"png", "suggested"}, {"utf8", "secret"}}
  Entries <- MCEntries
  MaxClips = 3
  MaxLosses = 1
  Ids = {1, 2}
  Offered = 3
  MaxProfiles = 2
  MaxDevices = 2
  MaxChanges = 1
  Classes = {"Audio/Sink", "Audio/Source", "Video/Source"}
  MaxNodes = 2
  MaxInfos = 1
  Songs <- MCSongs
  Offsets = {0, 1}
  PerToken = 2
  LastLine = 5
  MaxDelay = 3
  MaxPosition = 8
  MaxActs = 3
  Keyboards = {k1, k2}
  MaxPresses = 2
  Variants2025 = {"tonalSpot", "neutral", "vibrant", "expressive"}
  Variants2021 = {"fruitSalad", "monochrome", "fidelity"}
  Contrasts = {0}
  Hues = {0, 110, 180}
  Reaches <- MCReaches
  SourceTones = {0, 57, 80}
INVARIANT UnsyncedNeverHighlight
CHECK_DEADLOCK FALSE
