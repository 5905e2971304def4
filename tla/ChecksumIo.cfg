SPECIFICATION Spec
CONSTANTS
  THD_NUM = 2
  RangePages = 1
  Bytes <- MCBytes
  Zero = 0
  MaxTears = 1
  Faults <- MCFaults
INVARIANT PagesSound
PROPERTIES SpoiltStaysSpoilt KeepReading
