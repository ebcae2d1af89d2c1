SPECIFICATION CronSpec
CONSTANTS
  Jobs = {"once"}
  OneShot = {"once"}
  CatchUp = {"once"}
  MaxElapsed = 1
  MaxBoots = 2
PROPERTY OneShotStaysDone
CHECK_DEADLOCK FALSE
