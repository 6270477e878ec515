--------------------------------- MODULE Charts ---------------------------------
(* The chart generators of ChartUtil.  A call asks its questions one after the    *)
(* other, each on a connection of its own, builds a dataset from each answer, and *)
(* draws one picture of them.  Between two questions other threads add samples.   *)
(*                                                                                *)
(* A row is what a builder tells apart: the name of its series and its time, both *)
(* nullable columns.  A value in a dataset is the number of the row it came from. *)
(* Every question selects all rows in the order they were stored; the averages    *)
(* are looked up by name only.  What GetConnection may lose is in ReportPool.     *)
EXTENDS Naturals, Sequences, FiniteSets

CONSTANTS
  Generators, \* the generators that are called, by name
  Names, Numerals, NullName, \* names of series, those that read as a number, none
  Times, NullTime,           \* times, and none
  Shapes,     \* number of shapes createShape makes (5 in the code)
  MaxRows,    \* bound: samples stored
  MaxFaults   \* bound: calls that throw without the code's doing

ASSUME ChartsAssumption ==
  /\ Numerals \subseteq Names
  /\ NullName \notin Names
  /\ NullTime \notin Times
  /\ {Shapes, MaxRows, MaxFaults} \subseteq Nat

VARIABLES
  table,  \* the rows stored so far
  call,   \* the call of a generator in progress, or the last one
  held,   \* connections the call has borrowed and not given back
  lost,   \* connections lost because closing a result set or statement threw
  faults

vars == <<table, call, held, lost, faults>>

Rows == [name : Names \cup {NullName}, at : Times \cup {NullTime}]

--------------------------------------------------------------------------------
(* The builders: how many columns make a key, what a repeated key does, whether   *)
(* the name is also read as the value, and whether a null name is a key.          *)

Builder(columns, repeat, numeral) ==
  [columns |-> columns, repeat |-> repeat, numeral |-> numeral, nulls |-> FALSE]

createPieDataset == Builder(1, "replaces", FALSE)
createCategoryDataset == Builder(2, "replaces", FALSE)
createCategoryDatasetByTime == Builder(2, "replaces", FALSE)
createSimpleCategoryDataset == Builder(1, "replaces", FALSE)
createAvgList == [Builder(1, "replaces", FALSE) EXCEPT !.nulls = TRUE]
createXYCurveDataset == Builder(2, "throws", FALSE)
createXYDataset == Builder(2, "throws", FALSE)
createXYDatasetByDay == Builder(2, "throws", FALSE)
createXYDatasetByMonth == Builder(2, "throws", FALSE)
createXYDatasetByWeek == Builder(2, "throws", FALSE)
createInfoDatasetByWeek == Builder(2, "replaces", TRUE)
createInfoDatasetByDay == Builder(2, "replaces", TRUE)
createInfoDatasetByMonth == Builder(2, "replaces", TRUE)

--------------------------------------------------------------------------------
(* The generators: their questions in order, what else they cannot do without,    *)
(* and whether they catch their exceptions and return a null file name.           *)

Generator(asks, needs, catches) == [asks |-> asks, needs |-> needs, catches |-> catches]

generatePieChart == Generator(<<createPieDataset>>, {"legend"}, TRUE)
generate3DPieChart == Generator(<<createPieDataset>>, {"legend"}, TRUE)
generateLineChart == Generator(<<createCategoryDataset>>, {}, TRUE)
\* The chart is a final null.
generateCombinedLineChart ==
  Generator(<<createCategoryDataset, createCategoryDataset>>, {"a chart"}, TRUE)
generateXYCurveLineChart == Generator(<<createXYCurveDataset>>, {}, FALSE)
\* Mutant of generateXYLineChart: the averages are asked for first.
generateXYLineChartEarly == Generator(<<createAvgList, createXYDataset>>, {"averages"}, FALSE)
generateXYLineChart == Generator(<<createXYDataset, createAvgList>>, {"averages"}, FALSE)
generateXYLineChartByDay ==
  Generator(<<createXYDatasetByDay, createAvgList>>, {"averages"}, FALSE)
generateXYLineChartByWeek ==
  Generator(<<createXYDatasetByWeek, createAvgList>>, {"averages"}, FALSE)
generateInfoChartByWeek1 ==
  Generator(<<createXYDatasetByWeek, createInfoDatasetByWeek, createAvgList>>,
            {"shapes", "averages"}, FALSE)
generateInfoChart ==
  Generator(<<createCategoryDatasetByTime, createCategoryDatasetByTime, createAvgList>>,
            {"averages"}, FALSE)
generateInfoChartByMonth1 ==
  Generator(<<createXYDatasetByMonth, createInfoDatasetByMonth, createAvgList>>,
            {"shapes", "averages"}, FALSE)
generateSimpleBarChart == Generator(<<createSimpleCategoryDataset>>, {}, TRUE)
generateSimple3DBarChart == Generator(<<createSimpleCategoryDataset>>, {}, TRUE)
generate3DBarChart == Generator(<<createCategoryDataset>>, {}, TRUE)
generateBarChart == Generator(<<createCategoryDataset>>, {}, TRUE)
generateCombInfoChart ==
  Generator(<<createCategoryDatasetByTime, createCategoryDatasetByTime>>, {}, FALSE)
generateOverlaidBarChart ==
  Generator(<<createCategoryDatasetByTime, createCategoryDatasetByTime>>, {}, FALSE)

Plan ==
  [generatePieChart |-> generatePieChart,
   generate3DPieChart |-> generate3DPieChart,
   generateLineChart |-> generateLineChart,
   generateCombinedLineChart |-> generateCombinedLineChart,
   generateXYCurveLineChart |-> generateXYCurveLineChart,
   generateXYLineChart |-> generateXYLineChart,
   generateXYLineChartByDay |-> generateXYLineChartByDay,
   generateXYLineChartByWeek |-> generateXYLineChartByWeek,
   generateInfoChartByWeek1 |-> generateInfoChartByWeek1,
   generateInfoChart |-> generateInfoChart,
   generateInfoChartByMonth1 |-> generateInfoChartByMonth1,
   generateSimpleBarChart |-> generateSimpleBarChart,
   generateSimple3DBarChart |-> generateSimple3DBarChart,
   generate3DBarChart |-> generate3DBarChart,
   generateBarChart |-> generateBarChart,
   generateCombInfoChart |-> generateCombInfoChart,
   generateOverlaidBarChart |-> generateOverlaidBarChart]

ASSUME GeneratorsAssumption == Generators \subseteq DOMAIN Plan

--------------------------------------------------------------------------------
(* Datasets.                                                                      *)

\* What is built from the answer rs: how many rows were taken, the names of the
\* series registered, and the values by key.
Dataset(builder, rs) ==
  [how |-> builder, rows |-> rs, read |-> 0, series |-> {}, data |-> <<>>]

Key(builder, row) == IF builder.columns = 1 THEN <<row.name>> ELSE <<row.name, row.at>>

NextRow(d) == d.rows[d.read + 1]

\* The row cannot be taken: a null key, a name that is no number, or a time the
\* series already has.
Throws(d) ==
  \/ NextRow(d).name = NullName /\ ~ d.how.nulls
  \/ NextRow(d).at = NullTime /\ d.how.columns = 2
  \/ NextRow(d).name \notin Numerals /\ d.how.numeral
  \/ Key(d.how, NextRow(d)) \in DOMAIN d.data /\ d.how.repeat = "throws"

\* Mutant of Registered: the null name too.
RegisteredNull(d) == d.series \cup {NextRow(d).name}

\* The series is registered before its value is read.
Registered(d) == d.series \cup ({NextRow(d).name} \ {NullName})

\* Mutant of Put: a key that is there keeps its value.
PutOnce(data, key, value) ==
  [k \in DOMAIN data \cup {key} |-> IF k \in DOMAIN data THEN data[k] ELSE value]

Put(data, key, value) ==
  [k \in DOMAIN data \cup {key} |-> IF k = key THEN value ELSE data[k]]

Taken(d) ==
  [d EXCEPT !.series = Registered(d), !.read = d.read + 1,
            !.data = Put(d.data, Key(d.how, NextRow(d)), d.read + 1)]

--------------------------------------------------------------------------------
(* A call.                                                                        *)

Fault == faults < MaxFaults /\ faults' = faults + 1

P == Plan[call.generator]
Current == call.sets[Len(call.sets)]
SetCurrent(d) == [call.sets EXCEPT ![Len(call.sets)] = d]
Asked == Len(call.sets) = Len(P.asks)

\* The dataset that is drawn, and the averages of its series.
Drawn == call.sets[CHOOSE i \in DOMAIN P.asks :
                     /\ P.asks[i] # createAvgList
                     /\ \A j \in 1..(i - 1) : P.asks[j] = createAvgList]
Averages == call.sets[CHOOSE i \in DOMAIN P.asks : P.asks[i] = createAvgList]

\* A series that has no average: the null is read as a number.
MissesAverage ==
  "averages" \in P.needs /\ Asked /\ \E s \in Drawn.series : <<s>> \notin DOMAIN Averages.data

\* The second dataset has more series than there are shapes.
RunsOutOfShapes ==
  "shapes" \in P.needs /\ Len(call.sets) >= 2 /\ Cardinality(call.sets[2].series) > Shapes

\* The legend is styled although the chart has none.
MissesLegend == "legend" \in P.needs /\ Asked /\ ~ call.legend

Stuck == \/ MissesAverage
         \/ RunsOutOfShapes
         \/ MissesLegend
         \/ "a chart" \in P.needs /\ Asked

End(answer) == call' = [call EXCEPT !.step = "end", !.answer = answer]

\* Another thread stores a sample.
Insert ==
  /\ Len(table) < MaxRows
  /\ \E row \in Rows : table' = Append(table, row)
  /\ UNCHANGED <<call, held, lost, faults>>

Request ==
  /\ call.step = "end"
  /\ \E g \in Generators, legend \in BOOLEAN :
       call' = [generator |-> g, legend |-> legend, sets |-> <<>>, step |-> "ask",
                answer |-> "none"]
  /\ UNCHANGED <<table, held, lost, faults>>

CanAsk == call.step = "ask" /\ ~ Asked /\ ~ Stuck

\* The connection, the statement and the result set of the next question.
Ask ==
  /\ CanAsk
  /\ held' = held + 1
  /\ call' = [call EXCEPT !.step = "read",
                !.sets = Append(@, Dataset(P.asks[Len(@) + 1], table))]
  /\ UNCHANGED <<table, lost, faults>>

\* GetConnection returns null, or the question throws: the dataset stays empty.
AskFails ==
  /\ CanAsk
  /\ Fault
  /\ \E connected \in BOOLEAN :
       /\ held' = held + (IF connected THEN 1 ELSE 0)
       /\ call' = [call EXCEPT !.step = IF connected THEN "close" ELSE "ask",
                     !.sets = Append(@, Dataset(P.asks[Len(@) + 1], <<>>))]
  /\ UNCHANGED <<table, lost>>

Reading == call.step = "read" /\ Current.read < Len(Current.rows)

Take ==
  /\ Reading
  /\ ~ Throws(Current)
  /\ call' = [call EXCEPT !.sets = SetCurrent(Taken(Current))]
  /\ UNCHANGED <<table, held, lost, faults>>

\* Mutant of GiveUp: the connection is given back after the loop only.
GiveUpHolding ==
  /\ Reading
  /\ Throws(Current)
  /\ call' = [call EXCEPT !.step = "ask",
                !.sets = SetCurrent([Current EXCEPT !.series = Registered(Current)])]
  /\ UNCHANGED <<table, held, lost, faults>>

\* The exception ends the loop; the dataset is returned as it is.
GiveUp ==
  /\ Reading
  /\ Throws(Current)
  /\ call' = [call EXCEPT !.step = "close",
                !.sets = SetCurrent([Current EXCEPT !.series = Registered(Current)])]
  /\ UNCHANGED <<table, held, lost, faults>>

ReadFails ==
  /\ call.step = "read"
  /\ Fault
  /\ call' = [call EXCEPT !.step = "close"]
  /\ UNCHANGED <<table, held, lost>>

EndOfRows ==
  /\ call.step = "read"
  /\ Current.read = Len(Current.rows)
  /\ call' = [call EXCEPT !.step = "close"]
  /\ UNCHANGED <<table, held, lost, faults>>

Close ==
  /\ call.step = "close"
  /\ held' = held - 1
  /\ call' = [call EXCEPT !.step = "ask"]
  /\ UNCHANGED <<table, lost, faults>>

\* Closing the result set or the statement throws before the connection is closed.
CloseFails ==
  /\ call.step = "close"
  /\ Fault
  /\ held' = held - 1
  /\ lost' = lost + 1
  /\ call' = [call EXCEPT !.step = "ask"]
  /\ UNCHANGED table

Fail ==
  /\ call.step = "ask"
  /\ Stuck
  /\ End(IF P.catches THEN "null" ELSE "thrown")
  /\ UNCHANGED <<table, held, lost, faults>>

CanDraw == call.step = "ask" /\ Asked /\ ~ Stuck

\* The picture is saved and its image map written to the page.
Draw ==
  /\ CanDraw
  /\ End("file")
  /\ UNCHANGED <<table, held, lost, faults>>

\* Without the picture there is no name; without the map there is one, if the
\* exception is caught.
DrawFails ==
  /\ CanDraw
  /\ Fault
  /\ \E saved \in BOOLEAN :
       End(IF ~ P.catches THEN "thrown" ELSE IF saved THEN "file" ELSE "null")
  /\ UNCHANGED <<table, held, lost>>

Init ==
  /\ table = <<>>
  /\ call = [generator |-> "generateLineChart", legend |-> TRUE, sets |-> <<>>,
             step |-> "end", answer |-> "none"]
  /\ held = 0
  /\ lost = 0
  /\ faults = 0

Next ==
  \/ Insert \/ Request
  \/ Ask \/ AskFails
  \/ Take \/ GiveUp \/ ReadFails \/ EndOfRows
  \/ Close \/ CloseFails
  \/ Fail \/ Draw \/ DrawFails

Spec == Init /\ [][Next]_vars

--------------------------------------------------------------------------------

\* The types of the variables; a null name is never a series.
ChartsTypeOK ==
  /\ table \in Seq(Rows) /\ Len(table) <= MaxRows
  /\ call.generator \in DOMAIN Plan /\ call.legend \in BOOLEAN
  /\ call.step \in {"end", "ask", "read", "close"}
  /\ call.answer \in {"none", "file", "null", "thrown"}
  /\ Len(call.sets) <= Len(P.asks)
  /\ \A i \in DOMAIN call.sets :
       call.sets[i].series \subseteq Names /\ call.sets[i].read <= Len(call.sets[i].rows)
  /\ {held, lost} \subseteq Nat /\ faults \in 0..MaxFaults

\* What the loops over a result set promise, said without the loop: the dataset
\* holds the last value of every key among the rows it took; and unless something
\* threw that is not the code's doing, it took all rows, or all before the first
\* one with a null key, with a name that is no number, or with a key that a series
\* cannot take twice (createXYCurveDataset and the other builders of ChartUtil).
DatasetFits ==
  \A i \in DOMAIN call.sets :
    LET d == call.sets[i]
        KeyOf(n) == Key(d.how, d.rows[n])
        taken == 1..d.read
        done == i < Len(call.sets) \/ call.step \in {"ask", "end"}
    IN /\ DOMAIN d.data = {KeyOf(n) : n \in taken}
       /\ \A n \in taken : d.data[KeyOf(n)] >= n /\ KeyOf(d.data[KeyOf(n)]) = KeyOf(n)
       /\ d.how.repeat = "throws" => \A m, n \in taken : KeyOf(m) = KeyOf(n) => m = n
       /\ done /\ faults = 0 /\ d.read < Len(d.rows) =>
            \/ NullName = d.rows[d.read + 1].name
            \/ NullTime = d.rows[d.read + 1].at
            \/ d.how.numeral
            \/ \E n \in taken : KeyOf(n) = KeyOf(d.read + 1)

\* The charts hold and wait for nothing: whatever throws, a call has one connection
\* at a time, has given it back when it ends, and loses one only to a close that
\* throws (the finally blocks of the builders).
OneConnection ==
  /\ held <= 1
  /\ call.step \in {"ask", "end"} => held = 0
  /\ lost <= faults

\* The charts with averages ask for them after the samples, so samples that arrive
\* in between cannot leave a series without its average: without failures such a
\* chart is always drawn, but for series that outnumber the shapes.
AveragesFound ==
  call.step = "end" /\ call.answer \in {"null", "thrown"} /\ faults = 0 =>
    \/ "a chart" \in P.needs
    \/ "legend" \in P.needs /\ ~ call.legend
    \/ "shapes" \in P.needs /\ Cardinality(call.sets[2].series) > Shapes

\* What is drawn is drawn from the rows, and is drawn (ChartUtil).
DrawnFromRows == DatasetFits /\ AveragesFound

================================================================================
