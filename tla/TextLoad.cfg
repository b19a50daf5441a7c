SPECIFICATION PanelSpec
CONSTANTS
  Papers = {p1}
  Drawers = {f}
  Blank = blank
  MaxCalls = 3
  MaxLoads = 2
  MaxPanelActs = 2
PROPERTIES TextLoadEnds
CHECK_DEADLOCK FALSE
