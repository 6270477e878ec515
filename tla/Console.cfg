SPECIFICATION ConsoleSpec
CONSTANTS
  Generators = {"generatePieChart", "generate3DPieChart", "generateLineChart",
    "generateCombinedLineChart", "generateXYCurveLineChart", "generateXYLineChart",
    "generateXYLineChartByDay", "generateXYLineChartByWeek", "generateInfoChartByWeek1",
    "generateInfoChart", "generateInfoChartByMonth1", "generateSimpleBarChart",
    "generateSimple3DBarChart", "generate3DBarChart", "generateBarChart",
    "generateCombInfoChart", "generateOverlaidBarChart"}
  Names = {a, one}
  Numerals = {one}
  NullName = noName
  Times = {t1}
  NullTime = noTime
  Shapes = 1
  MaxRows = 3
  MaxFaults = 1
  Admins = {ann, bob}
  MaxId = 3
INVARIANTS ConsoleTypeOK DrawnFromRows OneConnection TreeIsComplete
PROPERTIES GoneStay
