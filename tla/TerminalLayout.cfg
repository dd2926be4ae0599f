CONSTANTS
  MaxWindows = 6
  ScreenWidth = 480
  ScreenHeight = 320
  Arduino = TRUE
SPECIFICATION Spec
VIEW LayoutView
INVARIANTS TypeOK CountMatches SelectionLive NoOverlap OnScreen ArrowsReachAll
