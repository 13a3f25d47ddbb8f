SPECIFICATION FairSpec
CONSTANTS
  j1 = j1
  dash = dash
  Jobs <- OneJob
  Dashboard = dash
  MaxOutbox = 2
  Faults = {}
PROPERTIES
  CompletionIsPushed
