SPECIFICATION FairSpec
CONSTANTS
  j1 = j1
  dash = dash
  Jobs <- OneJob
  Dashboard = dash
  MaxOutbox = 4
  Faults = {"network", "http"}
INVARIANTS
  TypeOK
  RoomsFollowPage
  ToldIsShown
PROPERTIES
  PageConverges
