----------------------------- MODULE Charts_proofs -----------------------------
(* Proofs about Charts, for any generators, tables and failures.                  *)
EXTENDS Charts, TLAPS

\* A call holds a connection exactly while it reads or closes one, and every one it
\* lost is a failure.
Held == IF call.step \in {"read", "close"} THEN 1 ELSE 0

HeldInv ==
  /\ {"step", "sets", "answer"} \subseteq DOMAIN call
  /\ held = Held
  /\ lost \in Nat /\ faults \in Nat /\ lost <= faults

\* Every step keeps it.
LEMMA HeldKeeps == HeldInv /\ [Next]_vars => HeldInv'
<1> SUFFICES ASSUME HeldInv, [Next]_vars  PROVE HeldInv'
  OBVIOUS
<1>t. /\ {"step", "sets", "answer"} \subseteq DOMAIN call /\ held = Held
      /\ lost \in Nat /\ faults \in Nat /\ lost <= faults
  BY DEF HeldInv
<1>f. Fault => faults' = faults + 1 /\ faults' \in Nat
  BY <1>t DEF Fault
<1>1. CASE Insert
  BY <1>1 DEF Insert, Held, HeldInv
<1>2. CASE Request
  <2>1. /\ call'.step = "ask" /\ {"step", "sets", "answer"} \subseteq DOMAIN call'
        /\ UNCHANGED <<held, lost, faults>> /\ call.step = "end"
    BY <1>2 DEF Request
  <2> QED  BY <1>t, <2>1 DEF Held, HeldInv
<1>3. CASE Ask
  <2>1. /\ call'.step = "read" /\ DOMAIN call' = DOMAIN call /\ call.step = "ask"
        /\ held' = held + 1 /\ UNCHANGED <<lost, faults>>
    BY <1>3, <1>t DEF Ask, CanAsk
  <2> QED  BY <1>t, <2>1 DEF Held, HeldInv
<1>4. CASE AskFails
  <2>1. PICK connected \in BOOLEAN :
          /\ held' = held + (IF connected THEN 1 ELSE 0)
          /\ call'.step = IF connected THEN "close" ELSE "ask"
          /\ DOMAIN call' = DOMAIN call
    BY <1>4, <1>t DEF AskFails
  <2>2. call.step = "ask" /\ lost' = lost
    BY <1>4 DEF AskFails, CanAsk
  <2>3. faults' = faults + 1
    BY <1>4, <1>f DEF AskFails
  <2> QED  BY <1>t, <2>1, <2>2, <2>3 DEF Held, HeldInv
<1>5. CASE Take
  <2>1. /\ call'.step = call.step /\ DOMAIN call' = DOMAIN call
        /\ UNCHANGED <<held, lost, faults>>
    BY <1>5, <1>t DEF Take
  <2> QED  BY <1>t, <2>1 DEF Held, HeldInv
<1>6. CASE GiveUp
  <2>1. /\ call'.step = "close" /\ call.step = "read" /\ DOMAIN call' = DOMAIN call
        /\ UNCHANGED <<held, lost, faults>>
    BY <1>6, <1>t DEF GiveUp, Reading
  <2> QED  BY <1>t, <2>1 DEF Held, HeldInv
<1>7. CASE ReadFails
  <2>1. /\ call'.step = "close" /\ call.step = "read" /\ DOMAIN call' = DOMAIN call
        /\ UNCHANGED <<held, lost>> /\ faults' = faults + 1
    BY <1>7, <1>t, <1>f DEF ReadFails
  <2> QED  BY <1>t, <2>1 DEF Held, HeldInv
<1>8. CASE EndOfRows
  <2>1. /\ call'.step = "close" /\ call.step = "read" /\ DOMAIN call' = DOMAIN call
        /\ UNCHANGED <<held, lost, faults>>
    BY <1>8, <1>t DEF EndOfRows
  <2> QED  BY <1>t, <2>1 DEF Held, HeldInv
<1>9. CASE Close
  <2>1. /\ call'.step = "ask" /\ call.step = "close" /\ DOMAIN call' = DOMAIN call
        /\ held' = held - 1 /\ UNCHANGED <<lost, faults>>
    BY <1>9, <1>t DEF Close
  <2> QED  BY <1>t, <2>1 DEF Held, HeldInv
<1>10. CASE CloseFails
  <2>1. /\ call'.step = "ask" /\ call.step = "close" /\ DOMAIN call' = DOMAIN call
        /\ held' = held - 1 /\ lost' = lost + 1 /\ faults' = faults + 1
    BY <1>10, <1>t, <1>f DEF CloseFails
  <2> QED  BY <1>t, <2>1 DEF Held, HeldInv
<1>11. CASE Fail \/ Draw
  <2>1. /\ call'.step = "end" /\ call.step = "ask" /\ DOMAIN call' = DOMAIN call
        /\ UNCHANGED <<held, lost, faults>>
    BY <1>11, <1>t DEF Fail, Draw, CanDraw, End
  <2> QED  BY <1>t, <2>1 DEF Held, HeldInv
<1>12. CASE DrawFails
  <2>1. /\ call'.step = "end" /\ call.step = "ask" /\ DOMAIN call' = DOMAIN call
        /\ UNCHANGED <<held, lost>> /\ faults' = faults + 1
    BY <1>12, <1>t, <1>f DEF DrawFails, CanDraw, End
  <2> QED  BY <1>t, <2>1 DEF Held, HeldInv
<1>13. CASE UNCHANGED vars
  BY <1>13 DEF vars, HeldInv, Held
<1> QED  BY <1>1, <1>2, <1>3, <1>4, <1>5, <1>6, <1>7, <1>8, <1>9, <1>10, <1>11, <1>12,
            <1>13 DEF Next

\* A call has at most one connection, none between its questions and at its end, and
\* loses one only to a failing close (the finally blocks of the builders of ChartUtil),
\* whatever the builders, the rows and the failures.
THEOREM AlwaysOneConnection == Spec => []OneConnection
<1>1. Init => HeldInv
  BY DEF Init, HeldInv, Held
<1>2. HeldInv => OneConnection
  BY DEF HeldInv, Held, OneConnection
<1> QED  BY <1>1, <1>2, HeldKeeps, PTL DEF Spec

--------------------------------------------------------------------------------
(* Datasets: what the loop over a result set builds.                              *)

Builders == [columns : {1, 2}, repeat : {"replaces", "throws"}, numeral : BOOLEAN,
             nulls : BOOLEAN]

Keys == {<<x>> : x \in Names \cup {NullName}}
          \cup ((Names \cup {NullName}) \X (Times \cup {NullTime}))

Datasets == [how : Builders, rows : Seq(Rows), read : Nat, series : SUBSET Names,
             data : UNION {[K -> Nat] : K \in SUBSET Keys}]

KeyAt(d, n) == Key(d.how, d.rows[n])

\* The values are those of the rows taken, the last one of each key; every series is
\* named in a row.
DatasetInv(d) ==
  /\ d.read <= Len(d.rows)
  /\ DOMAIN d.data = {KeyAt(d, n) : n \in 1..d.read}
  /\ \A n \in 1..d.read : /\ d.data[KeyAt(d, n)] \in n..d.read
                          /\ KeyAt(d, d.data[KeyAt(d, n)]) = KeyAt(d, n)
  /\ d.how.repeat = "throws" =>
       \A m, n \in 1..d.read : KeyAt(d, m) = KeyAt(d, n) => m = n
  /\ \A s \in d.series : \E n \in 1..Len(d.rows) : d.rows[n].name = s

\* A row has a key.
LEMMA KeyType == ASSUME NEW b \in Builders, NEW r \in Rows  PROVE Key(b, r) \in Keys
BY DEF Builders, Rows, Key, Keys

\* A dataset before its first row.
LEMMA EmptyDataset ==
  ASSUME NEW b \in Builders, NEW rs \in Seq(Rows)
  PROVE  /\ Dataset(b, rs) \in Datasets /\ DatasetInv(Dataset(b, rs))
         /\ Dataset(b, rs).how = b /\ Dataset(b, rs).rows = rs /\ Dataset(b, rs).read = 0
<1> DEFINE d == Dataset(b, rs)
<1>1. /\ d.how = b /\ d.rows = rs /\ d.read = 0 /\ d.series = {} /\ d.data = <<>>
      /\ d = [how |-> b, rows |-> rs, read |-> 0, series |-> {}, data |-> <<>>]
  BY DEF Dataset
<1>2. DOMAIN <<>> = {} /\ <<>> \in [{} -> Nat] /\ {} \in SUBSET Keys
  OBVIOUS
<1>4. Len(rs) \in Nat /\ 1..0 = {}
  OBVIOUS
<1> HIDE DEF d
<1>3. d \in Datasets
  <2>1. <<>> \in UNION {[K -> Nat] : K \in SUBSET Keys}
    BY <1>2
  <2> DEFINE D == UNION {[K -> Nat] : K \in SUBSET Keys}
  <2>2. <<>> \in D
    BY <2>1
  <2> HIDE DEF D
  <2>3. d \in [how : Builders, rows : Seq(Rows), read : Nat, series : SUBSET Names, data : D]
    BY <1>1, <2>2
  <2> QED  BY <2>3 DEF Datasets, D
<1>5. DatasetInv(d)
  BY <1>1, <1>2, <1>4 DEF DatasetInv
<1> QED  BY <1>1, <1>3, <1>5 DEF d

\* Taking a row that can be taken.
LEMMA TakenDataset ==
  ASSUME NEW d \in Datasets, DatasetInv(d), d.read < Len(d.rows), ~ Throws(d)
  PROVE  /\ Taken(d) \in Datasets /\ DatasetInv(Taken(d))
         /\ Taken(d).how = d.how /\ Taken(d).rows = d.rows
<1> DEFINE r == d.rows[d.read + 1]
           k == Key(d.how, r)
           dat == Put(d.data, k, d.read + 1)
           t == Taken(d)
<1>1. /\ d.how \in Builders /\ d.rows \in Seq(Rows) /\ d.read \in Nat
      /\ d.series \in SUBSET Names /\ d.data \in UNION {[K -> Nat] : K \in SUBSET Keys}
      /\ Len(d.rows) \in Nat
  BY DEF Datasets
<1>2. d.read + 1 \in 1..Len(d.rows) /\ r \in Rows
  BY <1>1
<1>3. k \in Keys
  BY <1>1, <1>2, KeyType
<1>4. /\ r.name \in Names \cup {NullName}
      /\ r.name = NullName => ~ d.how.nulls = FALSE
  BY <1>1, <1>2 DEF Throws, NextRow, Rows, Builders
<1>5. Registered(d) \in SUBSET Names /\ Registered(d) = d.series \cup ({r.name} \ {NullName})
  BY <1>1, <1>4 DEF Registered, NextRow
<1>6. PICK K \in SUBSET Keys : d.data \in [K -> Nat]
  BY <1>1
<1>7. /\ dat \in [K \cup {k} -> Nat]
      /\ DOMAIN dat = DOMAIN d.data \cup {k}
      /\ dat[k] = d.read + 1
      /\ \A x \in DOMAIN d.data : x # k => dat[x] = d.data[x]
  BY <1>1, <1>6 DEF Put
<1>8. dat \in UNION {[L -> Nat] : L \in SUBSET Keys}
  <2>1. K \cup {k} \in SUBSET Keys
    BY <1>3
  <2> HIDE DEF dat, k
  <2> QED  BY <1>7, <2>1
<1>9. /\ t.how = d.how /\ t.rows = d.rows /\ t.read = d.read + 1
      /\ t.series = d.series \cup ({r.name} \ {NullName}) /\ t.data = dat
      /\ t \in Datasets
  <2> DEFINE D == UNION {[L -> Nat] : L \in SUBSET Keys}
  <2>1. dat \in D /\ d.data \in D
    BY <1>1, <1>8
  <2>2. Datasets = [how : Builders, rows : Seq(Rows), read : Nat, series : SUBSET Names, data : D]
    BY DEF Datasets
  <2>3. t = [d EXCEPT !.series = Registered(d), !.read = d.read + 1, !.data = dat]
    BY DEF Taken, NextRow
  <2> HIDE DEF D, dat, t
  <2>4. d.read + 1 \in Nat
    BY <1>1
  <2> QED  BY <1>5, <2>1, <2>2, <2>3, <2>4
<1>10. ~ (k \in DOMAIN d.data /\ d.how.repeat = "throws")
  BY DEF Throws, NextRow
<1>11. KeyAt(d, d.read + 1) = k /\ \A n \in 1..Len(d.rows) : KeyAt(t, n) = KeyAt(d, n)
  BY <1>9 DEF KeyAt
<1>12. /\ DOMAIN d.data = {KeyAt(d, n) : n \in 1..d.read}
       /\ \A n \in 1..d.read : /\ d.data[KeyAt(d, n)] \in n..d.read
                               /\ KeyAt(d, d.data[KeyAt(d, n)]) = KeyAt(d, n)
       /\ d.how.repeat = "throws" =>
            \A m, n \in 1..d.read : KeyAt(d, m) = KeyAt(d, n) => m = n
       /\ \A s \in d.series : \E n \in 1..Len(d.rows) : d.rows[n].name = s
  BY DEF DatasetInv
<1>13. r.name = d.rows[d.read + 1].name
  OBVIOUS
<1>14. 1..(d.read + 1) = 1..d.read \cup {d.read + 1}
  BY <1>1
<1> HIDE DEF t, dat, k, r
<1>15. DOMAIN dat = {KeyAt(d, n) : n \in 1..(d.read + 1)}
  BY <1>7, <1>11, <1>12, <1>14
<1>16. ASSUME NEW n \in 1..(d.read + 1)
       PROVE  /\ dat[KeyAt(d, n)] \in n..(d.read + 1)
              /\ KeyAt(d, dat[KeyAt(d, n)]) = KeyAt(d, n)
  <2>1. CASE KeyAt(d, n) = k
    BY <1>1, <1>7, <1>11, <2>1
  <2>2. CASE KeyAt(d, n) # k
    <3>1. n \in 1..d.read
      BY <1>11, <1>14, <2>2
    <3>2. KeyAt(d, n) \in DOMAIN d.data
      BY <1>12, <3>1
    <3>3. dat[KeyAt(d, n)] = d.data[KeyAt(d, n)]
      BY <1>7, <2>2, <3>2
    <3>4. d.data[KeyAt(d, n)] \in n..d.read /\ KeyAt(d, d.data[KeyAt(d, n)]) = KeyAt(d, n)
      BY <1>12, <3>1
    <3> QED  BY <1>1, <3>3, <3>4
  <2> QED  BY <2>1, <2>2
<1>17. ASSUME d.how.repeat = "throws", NEW m \in 1..(d.read + 1), NEW n \in 1..(d.read + 1),
              KeyAt(d, m) = KeyAt(d, n)
       PROVE  m = n
  <2>1. \A i \in 1..d.read : KeyAt(d, i) # k
    BY <1>10, <1>12, <1>17
  <2> QED  BY <1>11, <1>12, <1>14, <1>17, <2>1
<1>18. \A s \in t.series : \E n \in 1..Len(d.rows) : d.rows[n].name = s
  BY <1>2, <1>9, <1>12, <1>13
<1>19. DatasetInv(t)
  <2>1. t.read <= Len(t.rows)
    BY <1>1, <1>9
  <2>2. \A n \in 1..t.read : KeyAt(t, n) = KeyAt(d, n)
    BY <1>1, <1>2, <1>9, <1>11
  <2>3. DOMAIN t.data = {KeyAt(t, n) : n \in 1..t.read}
    BY <1>9, <1>15, <2>2
  <2>4. \A n \in 1..t.read : /\ t.data[KeyAt(t, n)] \in n..t.read
                             /\ KeyAt(t, t.data[KeyAt(t, n)]) = KeyAt(t, n)
    <3> SUFFICES ASSUME NEW n \in 1..t.read
                 PROVE  /\ t.data[KeyAt(t, n)] \in n..t.read
                        /\ KeyAt(t, t.data[KeyAt(t, n)]) = KeyAt(t, n)
      OBVIOUS
    <3>1. KeyAt(t, n) = KeyAt(d, n) /\ n \in 1..(d.read + 1)
      BY <1>9, <2>2
    <3>2. /\ t.data[KeyAt(t, n)] \in n..t.read
          /\ KeyAt(d, t.data[KeyAt(t, n)]) = KeyAt(t, n)
      BY <1>9, <1>16, <3>1
    <3>3. t.data[KeyAt(t, n)] \in 1..t.read
      BY <1>1, <1>9, <3>1, <3>2
    <3> QED  BY <2>2, <3>2, <3>3
  <2>5. t.how.repeat = "throws" =>
          \A m, n \in 1..t.read : KeyAt(t, m) = KeyAt(t, n) => m = n
    BY <1>9, <1>17, <2>2
  <2> QED  BY <1>9, <1>18, <2>1, <2>3, <2>4, <2>5 DEF DatasetInv
<1> QED  BY <1>9, <1>19 DEF t

\* A row that cannot be taken registers its series.
LEMMA GivenUpDataset ==
  ASSUME NEW d \in Datasets, DatasetInv(d), d.read < Len(d.rows)
  PROVE  LET e == [d EXCEPT !.series = Registered(d)] IN
           /\ e \in Datasets /\ DatasetInv(e)
           /\ e.how = d.how /\ e.rows = d.rows /\ e.read = d.read /\ e.data = d.data
<1> DEFINE e == [d EXCEPT !.series = Registered(d)]
<1>1. /\ d.rows \in Seq(Rows) /\ d.read \in Nat /\ d.series \in SUBSET Names /\ Len(d.rows) \in Nat
  BY DEF Datasets
<1>2. d.read + 1 \in 1..Len(d.rows) /\ d.rows[d.read + 1].name \in Names \cup {NullName}
  <2>1. d.read + 1 \in 1..Len(d.rows)
    BY <1>1
  <2>2. d.rows[d.read + 1] \in Rows
    BY <1>1, <2>1
  <2> QED  BY <2>1, <2>2 DEF Rows
<1>3. /\ Registered(d) \in SUBSET Names
      /\ Registered(d) \subseteq d.series \cup {d.rows[d.read + 1].name}
  BY <1>1, <1>2 DEF Registered, NextRow
<1>4. /\ e.how = d.how /\ e.rows = d.rows /\ e.read = d.read /\ e.data = d.data
      /\ e.series = Registered(d) /\ e \in Datasets
  BY <1>3 DEF Datasets
<1> HIDE DEF e
<1>5. \A n : KeyAt(e, n) = KeyAt(d, n)
  BY <1>4 DEF KeyAt
<1>6. \A s \in e.series : \E n \in 1..Len(e.rows) : e.rows[n].name = s
  BY <1>2, <1>3, <1>4 DEF DatasetInv
<1>7. DatasetInv(e)
  BY <1>4, <1>5, <1>6 DEF DatasetInv
<1> QED  BY <1>4, <1>7 DEF e

--------------------------------------------------------------------------------
(* Generators: the averages are the last question of those that need them.        *)

AvgLast(p) ==
  /\ p.asks \in Seq(Builders)
  /\ "averages" \in p.needs =>
       /\ Len(p.asks) >= 2
       /\ p.asks[Len(p.asks)] = createAvgList
       /\ \A i \in 1..(Len(p.asks) - 1) : p.asks[i] # createAvgList

\* The builders, none of which but createAvgList takes a null name.
LEMMA BuildersTyped ==
  /\ createAvgList \in Builders
  /\ \A b \in {createPieDataset, createCategoryDataset, createCategoryDatasetByTime,
               createSimpleCategoryDataset, createXYCurveDataset, createXYDataset,
               createXYDatasetByDay, createXYDatasetByMonth, createXYDatasetByWeek,
               createInfoDatasetByWeek, createInfoDatasetByDay, createInfoDatasetByMonth} :
       b \in Builders /\ b # createAvgList
<1>1. ASSUME NEW c \in {1, 2}, NEW r \in {"replaces", "throws"}, NEW n \in BOOLEAN
      PROVE  Builder(c, r, n) \in Builders /\ Builder(c, r, n).nulls = FALSE
  BY DEF Builder, Builders
<1>2. createAvgList \in Builders /\ createAvgList.nulls = TRUE
  BY <1>1 DEF createAvgList, Builder, Builders
<1> HIDE DEF Builders, Builder, createAvgList
<1> QED  BY <1>1, <1>2 DEF createPieDataset, createCategoryDataset, createCategoryDatasetByTime,
  createSimpleCategoryDataset, createXYCurveDataset, createXYDataset,
  createXYDatasetByDay, createXYDatasetByMonth, createXYDatasetByWeek,
  createInfoDatasetByWeek, createInfoDatasetByDay, createInfoDatasetByMonth

\* One question, or two without averages.
LEMMA PlainPlan ==
  ASSUME NEW a \in Builders, NEW b \in Builders, NEW n, NEW c, "averages" \notin n
  PROVE  AvgLast(Generator(<<a>>, n, c)) /\ AvgLast(Generator(<<a, b>>, n, c))
<1>1. <<a>> \in Seq(Builders) /\ <<a, b>> \in Seq(Builders)
  OBVIOUS
<1> QED  BY <1>1 DEF Generator, AvgLast

\* One or two questions before that for the averages.
LEMMA AveragePlan ==
  ASSUME NEW a \in Builders, NEW b \in Builders, NEW n, NEW c,
         a # createAvgList, b # createAvgList
  PROVE  /\ AvgLast(Generator(<<a, createAvgList>>, n, c))
         /\ AvgLast(Generator(<<a, b, createAvgList>>, n, c))
<1>0. createAvgList \in Builders
  BY BuildersTyped
<1>1. /\ <<a, createAvgList>> \in Seq(Builders) /\ Len(<<a, createAvgList>>) = 2
      /\ <<a, createAvgList>>[2] = createAvgList
      /\ \A i \in 1..1 : <<a, createAvgList>>[i] = a
  BY <1>0
<1>2. /\ <<a, b, createAvgList>> \in Seq(Builders) /\ Len(<<a, b, createAvgList>>) = 3
      /\ <<a, b, createAvgList>>[3] = createAvgList
      /\ \A i \in 1..2 : <<a, b, createAvgList>>[i] \in {a, b}
  BY <1>0
<1> QED  BY <1>1, <1>2 DEF Generator, AvgLast

\* Every generator is one of these.
LEMMA PlanAvgLast == \A g \in DOMAIN Plan : AvgLast(Plan[g])
<1>1. ASSUME NEW n, "averages" \notin n, NEW c, NEW a \in Builders
      PROVE  AvgLast(Generator(<<a>>, n, c)) /\ AvgLast(Generator(<<a, a>>, n, c))
  BY <1>1, PlainPlan
<1>2. "averages" \notin {} /\ "averages" \notin {"legend"} /\ "averages" \notin {"a chart"}
  OBVIOUS
<1>3. /\ AvgLast(generatePieChart) /\ AvgLast(generate3DPieChart) /\ AvgLast(generateLineChart)
      /\ AvgLast(generateCombinedLineChart) /\ AvgLast(generateXYCurveLineChart)
      /\ AvgLast(generateSimpleBarChart) /\ AvgLast(generateSimple3DBarChart)
      /\ AvgLast(generate3DBarChart) /\ AvgLast(generateBarChart)
      /\ AvgLast(generateCombInfoChart) /\ AvgLast(generateOverlaidBarChart)
  BY <1>1, <1>2, BuildersTyped DEF generatePieChart, generate3DPieChart, generateLineChart,
    generateCombinedLineChart, generateXYCurveLineChart, generateSimpleBarChart,
    generateSimple3DBarChart, generate3DBarChart, generateBarChart, generateCombInfoChart,
    generateOverlaidBarChart
<1>4. /\ AvgLast(generateXYLineChart) /\ AvgLast(generateXYLineChartByDay)
      /\ AvgLast(generateXYLineChartByWeek) /\ AvgLast(generateInfoChartByWeek1)
      /\ AvgLast(generateInfoChart) /\ AvgLast(generateInfoChartByMonth1)
  BY AveragePlan, BuildersTyped DEF generateXYLineChart, generateXYLineChartByDay,
    generateXYLineChartByWeek, generateInfoChartByWeek1, generateInfoChart,
    generateInfoChartByMonth1
<1>5. ASSUME NEW g \in DOMAIN Plan
      PROVE  Plan[g] \in
             {generatePieChart, generate3DPieChart, generateLineChart,
              generateCombinedLineChart, generateXYCurveLineChart,
              generateXYLineChart, generateXYLineChartByDay,
              generateXYLineChartByWeek, generateInfoChartByWeek1,
              generateInfoChart, generateInfoChartByMonth1, generateSimpleBarChart,
              generateSimple3DBarChart, generate3DBarChart, generateBarChart,
              generateCombInfoChart, generateOverlaidBarChart}
  BY DEF Plan
<1> QED  BY <1>3, <1>4, <1>5

--------------------------------------------------------------------------------
(* The datasets of a call.                                                        *)

Answers == {"none", "file", "null", "thrown"}
CallRecords == [generator : DOMAIN Plan, legend : BOOLEAN, sets : Seq(Datasets),
                step : {"end", "ask", "read", "close"}, answer : Answers]

\* s is a beginning of t.
Begins(s, t) == Len(s) <= Len(t) /\ \A n \in 1..Len(s) : s[n] = t[n]

\* Its loop ended because of the rows.
Ended(d) == d.read = Len(d.rows) \/ (d.read < Len(d.rows) /\ Throws(d))

TypeInv ==
  /\ table \in Seq(Rows) /\ Len(table) <= MaxRows
  /\ call \in CallRecords
  /\ Len(call.sets) <= Len(P.asks)
  /\ call.step \in {"read", "close"} => Len(call.sets) > 0
  /\ faults \in 0..MaxFaults

\* The i-th dataset is what the i-th question asked for.  If nothing failed it is
\* complete, or will be, and a later question sees every row that an earlier one saw.
SetOK(sets, i, asks) == sets[i].how = asks[i] /\ DatasetInv(sets[i])
SetDone(sets, i, step) == i < Len(sets) \/ step # "read" => Ended(sets[i])
SetSeen(sets, i, t) ==
  /\ \A j \in i..Len(sets) : Begins(sets[i].rows, sets[j].rows)
  /\ Begins(sets[i].rows, t)

SetsOK(sets, asks, step, t, f) ==
  \A i \in 1..Len(sets) :
    SetOK(sets, i, asks) /\ (f = 0 => SetDone(sets, i, step) /\ SetSeen(sets, i, t))

SetsInv == SetsOK(call.sets, P.asks, call.step, table, faults)

ChartInv == HeldInv /\ TypeInv /\ SetsInv

\* What is left alone: the generator and its plan.
LEMMA SamePlan == ASSUME call'.generator = call.generator PROVE P' = P
BY DEF P

\* The fields of a call and of its plan.
LEMMA CallFields ==
  ASSUME TypeInv
  PROVE  /\ call.sets \in Seq(Datasets) /\ Len(call.sets) \in Nat
         /\ P.asks \in Seq(Builders) /\ Len(P.asks) \in Nat
         /\ AvgLast(P)
         /\ call.generator \in DOMAIN Plan /\ call.legend \in BOOLEAN
         /\ call.answer \in Answers
<1>1. call.generator \in DOMAIN Plan /\ call.sets \in Seq(Datasets) /\ call.legend \in BOOLEAN
      /\ call.answer \in Answers
  BY DEF TypeInv, CallRecords
<1>2. AvgLast(P)
  BY <1>1, PlanAvgLast DEF P
<1> QED  BY <1>1, <1>2 DEF AvgLast

\* One more dataset, of the rows there are.
LEMMA AppendSets ==
  ASSUME NEW sets \in Seq(Datasets), NEW asks, NEW step, NEW t, NEW f, NEW g, NEW st,
         SetsOK(sets, asks, step, t, f),
         NEW d \in Datasets, DatasetInv(d), d.how = asks[Len(sets) + 1],
         step = "ask", g = 0 => f = 0 /\ st = "read" /\ d.rows = t
  PROVE  SetsOK(Append(sets, d), asks, st, t, g)
<1> DEFINE n == Len(sets) + 1
           new == Append(sets, d)
<1>1. /\ Len(sets) \in Nat /\ Len(new) = n /\ new[n] = d
      /\ \A i \in 1..Len(sets) : new[i] = sets[i]
  OBVIOUS
<1> HIDE DEF new
<1> SUFFICES ASSUME NEW i \in 1..n
             PROVE  SetOK(new, i, asks) /\ (g = 0 => SetDone(new, i, st) /\ SetSeen(new, i, t))
  BY <1>1 DEF SetsOK, new
<1>2. CASE i = n
  <2>1. SetOK(new, i, asks)
    BY <1>1, <1>2 DEF SetOK
  <2>2. g = 0 => SetDone(new, i, st)
    BY <1>1, <1>2 DEF SetDone
  <2>3. g = 0 => SetSeen(new, i, t)
    BY <1>1, <1>2 DEF SetSeen, Begins
  <2> QED  BY <2>1, <2>2, <2>3
<1>3. CASE i # n
  <2>1. i \in 1..Len(sets) /\ new[i] = sets[i]
    BY <1>1, <1>3
  <2>2. SetOK(sets, i, asks) /\ (f = 0 => SetDone(sets, i, step) /\ SetSeen(sets, i, t))
    BY <2>1 DEF SetsOK
  <2>3. SetOK(new, i, asks)
    BY <2>1, <2>2 DEF SetOK
  <2>4. g = 0 => SetDone(new, i, st)
    BY <2>1, <2>2 DEF SetDone
  <2>5. g = 0 => SetSeen(new, i, t)
    <3> SUFFICES ASSUME g = 0  PROVE SetSeen(new, i, t)
      OBVIOUS
    <3>1. Begins(sets[i].rows, t) /\ \A j \in i..Len(sets) : Begins(sets[i].rows, sets[j].rows)
      BY <2>2 DEF SetSeen
    <3>2. ASSUME NEW j \in i..n  PROVE Begins(new[i].rows, new[j].rows)
      <4>1. CASE j = n
        BY <1>1, <2>1, <3>1, <4>1
      <4>2. CASE j # n
        <5>1. j \in i..Len(sets) /\ j \in 1..Len(sets)
          BY <1>1, <4>2
        <5> QED  BY <1>1, <2>1, <3>1, <5>1
      <4> QED  BY <4>1, <4>2
    <3> QED  BY <1>1, <2>1, <3>1, <3>2 DEF SetSeen
  <2> QED  BY <2>3, <2>4, <2>5
<1> QED  BY <1>2, <1>3

\* The last dataset goes on: the same question, the same rows.
LEMMA UpdateSets ==
  ASSUME NEW sets \in Seq(Datasets), Len(sets) > 0,
         NEW asks, NEW step, NEW t, NEW f, NEW g, NEW st,
         SetsOK(sets, asks, step, t, f),
         NEW d \in Datasets, DatasetInv(d),
         d.how = sets[Len(sets)].how, d.rows = sets[Len(sets)].rows,
         g = 0 => f = 0 /\ (st # "read" => Ended(d))
  PROVE  /\ [sets EXCEPT ![Len(sets)] = d] \in Seq(Datasets)
         /\ Len([sets EXCEPT ![Len(sets)] = d]) = Len(sets)
         /\ SetsOK([sets EXCEPT ![Len(sets)] = d], asks, st, t, g)
<1> DEFINE n == Len(sets)
           new == [sets EXCEPT ![n] = d]
<1>1. /\ n \in Nat /\ n > 0 /\ Len(new) = n /\ new[n] = d /\ new \in Seq(Datasets)
      /\ \A i \in 1..n : i # n => new[i] = sets[i]
  OBVIOUS
<1>2. \A i \in 1..n : new[i].how = sets[i].how /\ new[i].rows = sets[i].rows
  BY <1>1
<1> HIDE DEF new
<1>3. ASSUME NEW i \in 1..n
      PROVE  SetOK(new, i, asks) /\ (g = 0 => SetDone(new, i, st) /\ SetSeen(new, i, t))
  <2>1. SetOK(sets, i, asks) /\ (f = 0 => SetDone(sets, i, step) /\ SetSeen(sets, i, t))
    BY DEF SetsOK
  <2>2. SetOK(new, i, asks)
    BY <1>1, <1>2, <2>1 DEF SetOK
  <2>3. g = 0 => SetDone(new, i, st)
    BY <1>1, <2>1 DEF SetDone
  <2>4. g = 0 => SetSeen(new, i, t)
    <3> SUFFICES ASSUME g = 0  PROVE SetSeen(new, i, t)
      OBVIOUS
    <3>1. Begins(sets[i].rows, t) /\ \A j \in i..n : Begins(sets[i].rows, sets[j].rows)
      BY <2>1 DEF SetSeen
    <3>2. \A j \in i..n : j \in 1..n
      BY <1>1
    <3> QED  BY <1>1, <1>2, <3>1, <3>2 DEF SetSeen
  <2> QED  BY <2>2, <2>3, <2>4
<1>4. SetsOK(new, asks, st, t, g)
  BY <1>1, <1>3 DEF SetsOK
<1> QED  BY <1>1, <1>4 DEF new

\* A row that is added to the table leaves what was seen a beginning of it.
LEMMA InsertSets ==
  ASSUME NEW sets \in Seq(Datasets), NEW asks, NEW step, NEW t \in Seq(Rows), NEW f,
         NEW r \in Rows, SetsOK(sets, asks, step, t, f)
  PROVE  SetsOK(sets, asks, step, Append(t, r), f)
<1>1. /\ Len(t) \in Nat /\ Len(Append(t, r)) = Len(t) + 1
      /\ \A n \in 1..Len(t) : Append(t, r)[n] = t[n]
  OBVIOUS
<1>2. ASSUME NEW i \in 1..Len(sets), Begins(sets[i].rows, t)
      PROVE  Begins(sets[i].rows, Append(t, r))
  <2>1. Len(sets[i].rows) \in Nat
    <3>1. sets[i] \in Datasets
      OBVIOUS
    <3> QED  BY <3>1 DEF Datasets
  <2> QED  BY <1>1, <1>2, <2>1 DEF Begins
<1> QED  BY <1>2 DEF SetsOK, SetSeen

--------------------------------------------------------------------------------
(* The steps of a call.                                                           *)

\* A call of which step and datasets change has the type of a call.
LEMMA SameCall ==
  ASSUME TypeInv, NEW st \in {"end", "ask", "read", "close"}, NEW sets \in Seq(Datasets),
         Len(sets) <= Len(P.asks), st \in {"read", "close"} => Len(sets) > 0,
         call' = [call EXCEPT !.step = st, !.sets = sets],
         UNCHANGED table, faults' \in 0..MaxFaults
  PROVE  TypeInv' /\ call'.sets = sets /\ call'.step = st /\ P' = P
<1>1. /\ call' \in CallRecords /\ call'.sets = sets /\ call'.step = st
      /\ call'.generator = call.generator
  BY DEF TypeInv, CallRecords
<1>2. P' = P
  BY <1>1, SamePlan
<1> QED  BY <1>1, <1>2 DEF TypeInv

\* The next question was asked, and its rows came or it failed.
LEMMA AskKeeps ==
  ASSUME TypeInv, SetsInv, CanAsk, NEW rs \in Seq(Rows), NEW st \in {"ask", "read", "close"},
         call' = [call EXCEPT !.step = st,
                    !.sets = Append(call.sets, Dataset(P.asks[Len(call.sets) + 1], rs))],
         UNCHANGED table, faults' \in 0..MaxFaults,
         faults' = 0 => faults = 0 /\ st = "read" /\ rs = table
  PROVE  TypeInv' /\ SetsInv'
<1> DEFINE n == Len(call.sets) + 1
           d == Dataset(P.asks[n], rs)
           new == Append(call.sets, d)
<1>0. /\ call.sets \in Seq(Datasets) /\ Len(call.sets) \in Nat
      /\ P.asks \in Seq(Builders) /\ Len(P.asks) \in Nat
      /\ Len(call.sets) <= Len(P.asks) /\ Len(call.sets) # Len(P.asks) /\ call.step = "ask"
  BY CallFields DEF CanAsk, Asked, TypeInv
<1>1. n \in 1..Len(P.asks) /\ P.asks[n] \in Builders
  BY <1>0
<1>2. d \in Datasets /\ DatasetInv(d) /\ d.how = P.asks[n] /\ d.rows = rs
  BY <1>1, EmptyDataset
<1>3. call' = [call EXCEPT !.step = st, !.sets = new]
  OBVIOUS
<1> HIDE DEF d
<1>4. new \in Seq(Datasets) /\ Len(new) = n /\ n > 0 /\ n <= Len(P.asks)
  BY <1>0, <1>1, <1>2
<1>6. SetsOK(new, P.asks, st, table, faults')
  <2>1. SetsOK(call.sets, P.asks, "ask", table, faults)
    BY <1>0 DEF SetsInv
  <2> QED  BY <1>0, <1>2, <2>1, AppendSets
<1> HIDE DEF new
<1>5. TypeInv' /\ call'.sets = new /\ call'.step = st /\ P' = P
  BY <1>3, <1>4, SameCall
<1> QED  BY <1>5, <1>6 DEF SetsInv

\* The current dataset goes on.
LEMMA UpdateKeeps ==
  ASSUME TypeInv, SetsInv, call.step \in {"read", "close"},
         NEW st \in {"ask", "read", "close"}, NEW d \in Datasets, DatasetInv(d),
         d.how = Current.how, d.rows = Current.rows,
         call' = [call EXCEPT !.step = st, !.sets = SetCurrent(d)],
         UNCHANGED table, faults' \in 0..MaxFaults,
         faults' = 0 => faults = 0 /\ (st # "read" => Ended(d))
  PROVE  TypeInv' /\ SetsInv'
<1>0. /\ call.sets \in Seq(Datasets) /\ Len(call.sets) > 0
      /\ Len(call.sets) <= Len(P.asks)
  BY CallFields DEF TypeInv
<1>1. SetsOK(call.sets, P.asks, call.step, table, faults)
  BY DEF SetsInv
<1>2. /\ SetCurrent(d) \in Seq(Datasets) /\ Len(SetCurrent(d)) = Len(call.sets)
      /\ SetsOK(SetCurrent(d), P.asks, st, table, faults')
  BY <1>0, <1>1, UpdateSets DEF Current, SetCurrent
<1>3. TypeInv' /\ call'.sets = SetCurrent(d) /\ call'.step = st /\ P' = P
  BY <1>0, <1>2, SameCall
<1> QED  BY <1>2, <1>3 DEF SetsInv

\* What is known of the current dataset.
LEMMA CurrentDataset ==
  ASSUME TypeInv, SetsInv, call.step \in {"read", "close"}
  PROVE  /\ Current \in Datasets /\ DatasetInv(Current)
         /\ Current.read \in Nat /\ Len(Current.rows) \in Nat /\ Current.read <= Len(Current.rows)
         /\ SetCurrent(Current) = call.sets
         /\ call.step = "close" /\ faults = 0 => Ended(Current)
<1>0. call.sets \in Seq(Datasets) /\ Len(call.sets) > 0 /\ Len(call.sets) \in Nat
  BY CallFields DEF TypeInv
<1>1. Len(call.sets) \in 1..Len(call.sets) /\ Current \in Datasets
  BY <1>0 DEF Current
<1>2. /\ SetOK(call.sets, Len(call.sets), P.asks)
      /\ faults = 0 => SetDone(call.sets, Len(call.sets), call.step)
  BY <1>1 DEF SetsInv, SetsOK
<1>3. SetCurrent(Current) = call.sets
  BY <1>0 DEF SetCurrent, Current
<1> QED  BY <1>1, <1>2, <1>3 DEF SetOK, SetDone, Current, Datasets, DatasetInv

\* Giving up leaves a dataset whose loop the rows have ended.
LEMMA GivenUpEnded ==
  ASSUME NEW d \in Datasets, DatasetInv(d), d.read < Len(d.rows), Throws(d)
  PROVE  Ended([d EXCEPT !.series = Registered(d)])
<1> DEFINE e == [d EXCEPT !.series = Registered(d)]
<1>1. e.how = d.how /\ e.rows = d.rows /\ e.read = d.read /\ e.data = d.data
  BY GivenUpDataset
<1> HIDE DEF e
<1>2. Ended(e)
  BY <1>1 DEF Ended, Throws, NextRow
<1> QED  BY <1>2 DEF e

\* A step that fails is counted.
LEMMA FaultCounts ==
  ASSUME TypeInv, Fault  PROVE faults' \in 0..MaxFaults /\ faults' # 0
BY ChartsAssumption DEF TypeInv, Fault, ChartsAssumption

\* Every step keeps the types and the datasets.
LEMMA SetsKept == TypeInv /\ SetsInv /\ [Next]_vars => TypeInv' /\ SetsInv'
<1> SUFFICES ASSUME TypeInv, SetsInv, [Next]_vars  PROVE TypeInv' /\ SetsInv'
  OBVIOUS
<1>t. /\ table \in Seq(Rows) /\ faults \in 0..MaxFaults /\ call \in CallRecords
      /\ call.sets \in Seq(Datasets) /\ Len(call.sets) \in Nat /\ Len(call.sets) <= Len(P.asks)
  BY CallFields DEF TypeInv
<1>1. CASE Insert
  <2>1. PICK r \in Rows : table' = Append(table, r)
    BY <1>1 DEF Insert
  <2>2. call' = call /\ faults' = faults /\ P' = P
    BY <1>1, SamePlan DEF Insert
  <2>3. table' \in Seq(Rows) /\ Len(table') <= MaxRows
    BY <1>1, <1>t, <2>1, ChartsAssumption DEF Insert, ChartsAssumption
  <2>4. TypeInv'
    BY <2>2, <2>3 DEF TypeInv
  <2>5. SetsOK(call.sets, P.asks, call.step, Append(table, r), faults)
    BY <1>t, InsertSets DEF SetsInv
  <2> QED  BY <2>1, <2>2, <2>4, <2>5 DEF SetsInv
<1>2. CASE Request
  <2>1. PICK g \in Generators, legend \in BOOLEAN :
          call' = [generator |-> g, legend |-> legend, sets |-> <<>>, step |-> "ask",
                   answer |-> "none"]
    BY <1>2 DEF Request
  <2>2. /\ call' \in CallRecords /\ call'.generator = g /\ call'.sets = <<>>
        /\ call'.step = "ask" /\ g \in DOMAIN Plan
    BY <2>1, GeneratorsAssumption DEF CallRecords, Answers, GeneratorsAssumption
  <2>3. P'.asks \in Seq(Builders)
    <3>1. P' = Plan[g]
      BY <2>2 DEF P
    <3> QED  BY <2>2, <3>1, PlanAvgLast DEF AvgLast
  <2>4. table' = table /\ faults' = faults /\ Len(<<>>) = 0 /\ Len(P'.asks) \in Nat
    BY <1>2, <2>3 DEF Request
  <2>5. TypeInv'
    BY <2>2, <2>4 DEF TypeInv
  <2>6. SetsInv'
    BY <2>2, <2>4 DEF SetsInv, SetsOK
  <2> QED  BY <2>5, <2>6
<1>3. CASE Ask
  <2>1. /\ CanAsk /\ UNCHANGED table /\ faults' = faults
        /\ call' = [call EXCEPT !.step = "read",
                      !.sets = Append(call.sets, Dataset(P.asks[Len(call.sets) + 1], table))]
    BY <1>3 DEF Ask
  <2>2. faults' \in 0..MaxFaults /\ (faults' = 0 => faults = 0)
    BY <1>t, <2>1
  <2> QED  BY <1>t, <2>1, <2>2, AskKeeps
<1>4. CASE AskFails
  <2>1. PICK connected \in BOOLEAN :
          call' = [call EXCEPT !.step = IF connected THEN "close" ELSE "ask",
                     !.sets = Append(call.sets, Dataset(P.asks[Len(call.sets) + 1], <<>>))]
    BY <1>4 DEF AskFails
  <2>2. CanAsk /\ UNCHANGED table /\ faults' \in 0..MaxFaults /\ faults' # 0
    BY <1>4, FaultCounts DEF AskFails
  <2>3. <<>> \in Seq(Rows) /\ (IF connected THEN "close" ELSE "ask") \in {"ask", "read", "close"}
    OBVIOUS
  <2> QED  BY <2>1, <2>2, <2>3, AskKeeps
<1>5. CASE Take
  <2>1. /\ call.step = "read" /\ Current.read < Len(Current.rows) /\ ~ Throws(Current)
        /\ UNCHANGED table /\ faults' = faults
    BY <1>5 DEF Take, Reading
  <2>2. Current \in Datasets /\ DatasetInv(Current)
    BY <2>1, CurrentDataset
  <2>3. /\ Taken(Current) \in Datasets /\ DatasetInv(Taken(Current))
        /\ Taken(Current).how = Current.how /\ Taken(Current).rows = Current.rows
    BY <2>1, <2>2, TakenDataset
  <2>4. call' = [call EXCEPT !.step = "read", !.sets = SetCurrent(Taken(Current))]
    <3>1. call' = [call EXCEPT !.sets = SetCurrent(Taken(Current))]
      BY <1>5 DEF Take
    <3> QED  BY <1>t, <2>1, <3>1 DEF CallRecords
  <2> HIDE DEF Current
  <2> QED  BY <1>t, <2>1, <2>3, <2>4, UpdateKeeps
<1>6. CASE GiveUp
  <2> DEFINE d == [Current EXCEPT !.series = Registered(Current)]
  <2>1. /\ call.step = "read" /\ Current.read < Len(Current.rows) /\ Throws(Current)
        /\ UNCHANGED table /\ faults' = faults
        /\ call' = [call EXCEPT !.step = "close", !.sets = SetCurrent(d)]
    BY <1>6 DEF GiveUp, Reading
  <2>2. Current \in Datasets /\ DatasetInv(Current)
    BY <2>1, CurrentDataset
  <2>3. /\ d \in Datasets /\ DatasetInv(d) /\ d.how = Current.how /\ d.rows = Current.rows
        /\ Ended(d)
    BY <2>1, <2>2, GivenUpDataset, GivenUpEnded
  <2> HIDE DEF d
  <2> QED  BY <1>t, <2>1, <2>3, UpdateKeeps
<1>7. ASSUME call.step \in {"read", "close"}, NEW st \in {"ask", "close"},
             call' = [call EXCEPT !.step = st], UNCHANGED table, faults' \in 0..MaxFaults,
             faults' = 0 => faults = 0 /\ Ended(Current)
      PROVE  TypeInv' /\ SetsInv'
  <2>1. Current \in Datasets /\ DatasetInv(Current) /\ SetCurrent(Current) = call.sets
    BY <1>7, CurrentDataset
  <2>2. call' = [call EXCEPT !.step = st, !.sets = SetCurrent(Current)]
    BY <1>t, <1>7, <2>1 DEF CallRecords
  <2> QED  BY <1>7, <2>1, <2>2, UpdateKeeps
<1>8. CASE ReadFails
  <2>1. /\ call.step = "read" /\ call' = [call EXCEPT !.step = "close"] /\ UNCHANGED table
        /\ faults' \in 0..MaxFaults /\ faults' # 0
    BY <1>8, FaultCounts DEF ReadFails
  <2> QED  BY <1>7, <2>1
<1>9. CASE EndOfRows
  <2>1. /\ call.step = "read" /\ call' = [call EXCEPT !.step = "close"] /\ UNCHANGED table
        /\ faults' = faults /\ Current.read = Len(Current.rows)
    BY <1>9 DEF EndOfRows
  <2> QED  BY <1>t, <1>7, <2>1 DEF Ended
<1>10. CASE Close
  <2>1. /\ call.step = "close" /\ call' = [call EXCEPT !.step = "ask"] /\ UNCHANGED table
        /\ faults' = faults
    BY <1>10 DEF Close
  <2>2. faults = 0 => Ended(Current)
    BY <2>1, CurrentDataset
  <2> QED  BY <1>t, <1>7, <2>1, <2>2
<1>11. CASE CloseFails
  <2>1. /\ call.step = "close" /\ call' = [call EXCEPT !.step = "ask"] /\ UNCHANGED table
        /\ faults' \in 0..MaxFaults /\ faults' # 0
    BY <1>11, FaultCounts DEF CloseFails
  <2> QED  BY <1>7, <2>1
<1>12. ASSUME call.step = "ask", NEW a \in Answers, End(a), UNCHANGED table,
              faults' \in 0..MaxFaults, faults' = 0 => faults = 0
       PROVE  TypeInv' /\ SetsInv'
  <2>1. /\ call' \in CallRecords /\ call'.sets = call.sets /\ call'.step = "end"
        /\ call'.generator = call.generator
    BY <1>t, <1>12 DEF End, CallRecords
  <2>2. P' = P
    BY <2>1, SamePlan
  <2>3. TypeInv'
    BY <1>t, <1>12, <2>1, <2>2 DEF TypeInv
  <2>4. ASSUME NEW i \in 1..Len(call.sets)
        PROVE  SetOK(call.sets, i, P.asks)
               /\ (faults' = 0 => SetDone(call.sets, i, "end") /\ SetSeen(call.sets, i, table))
    <3>1. /\ SetOK(call.sets, i, P.asks)
          /\ faults = 0 => SetDone(call.sets, i, "ask") /\ SetSeen(call.sets, i, table)
      BY <1>12 DEF SetsInv, SetsOK
    <3> QED  BY <1>12, <3>1 DEF SetDone
  <2>5. SetsOK(call.sets, P.asks, "end", table, faults')
    BY <2>4 DEF SetsOK
  <2> QED  BY <1>12, <2>1, <2>2, <2>3, <2>5 DEF SetsInv
<1>13. CASE Fail
  BY <1>t, <1>12, <1>13 DEF Fail, Answers
<1>14. CASE Draw
  BY <1>t, <1>12, <1>14 DEF Draw, CanDraw, Answers
<1>15. CASE DrawFails
  <2>1. PICK a \in Answers : End(a)
    BY <1>15 DEF DrawFails, Answers
  <2> QED  BY <1>12, <1>15, <2>1, FaultCounts DEF DrawFails, CanDraw
<1>16. CASE UNCHANGED vars
  <2>1. call' = call /\ table' = table /\ faults' = faults /\ P' = P
    BY <1>16, SamePlan DEF vars
  <2> QED  BY <2>1 DEF TypeInv, SetsInv
<1> QED  BY <1>1, <1>2, <1>3, <1>4, <1>5, <1>6, <1>8, <1>9, <1>10, <1>11, <1>13, <1>14, <1>15,
            <1>16 DEF Next

\* A new process has made no call.
LEMMA SetsStart == Init => TypeInv /\ SetsInv
<1> SUFFICES ASSUME Init  PROVE TypeInv /\ SetsInv
  OBVIOUS
<1>1. /\ call.sets = <<>> /\ call.step = "end" /\ call.generator = "generateLineChart"
      /\ table = <<>> /\ faults = 0
      /\ Len(<<>>) = 0 /\ <<>> \in Seq(Rows) /\ <<>> \in Seq(Datasets)
  BY DEF Init
<1>2. "generateLineChart" \in DOMAIN Plan
  BY DEF Plan
<1>3. call \in CallRecords
  BY <1>1, <1>2 DEF Init, CallRecords, Answers
<1>4. P.asks \in Seq(Builders)
  BY <1>1, <1>2, PlanAvgLast DEF P, AvgLast
<1>5. MaxRows \in Nat /\ MaxFaults \in Nat
  BY ChartsAssumption DEF ChartsAssumption
<1>6. Len(P.asks) \in Nat
  BY <1>4
<1>7. TypeInv
  BY <1>1, <1>3, <1>5, <1>6 DEF TypeInv
<1> QED  BY <1>1, <1>7 DEF SetsInv, SetsOK

\* The invariant of the calls: connections, types and datasets (ChartUtil).
THEOREM ChartsInvariance == Spec => [](HeldInv /\ TypeInv /\ SetsInv)
<1>1. Init => HeldInv /\ TypeInv /\ SetsInv
  BY SetsStart DEF Init, HeldInv, Held
<1> QED  BY <1>1, SetsKept, HeldKeeps, PTL DEF Spec

\* The variables keep their types, and no dataset has a null series or took more rows
\* than its question found (ChartUtil).
THEOREM ChartsTypeCorrect == Spec => []ChartsTypeOK
<1>1. HeldInv /\ TypeInv /\ SetsInv => ChartsTypeOK
  <2> SUFFICES ASSUME HeldInv, TypeInv, SetsInv  PROVE ChartsTypeOK
    OBVIOUS
  <2>1. ASSUME NEW i \in DOMAIN call.sets
        PROVE  call.sets[i].series \subseteq Names /\ call.sets[i].read <= Len(call.sets[i].rows)
    <3>1. i \in 1..Len(call.sets) /\ call.sets[i] \in Datasets
      BY CallFields
    <3>2. DatasetInv(call.sets[i])
      BY <3>1 DEF SetsInv, SetsOK, SetOK
    <3> QED  BY <3>1, <3>2 DEF DatasetInv, Datasets
  <2>2. {held, lost} \subseteq Nat
    BY DEF HeldInv, Held
  <2>3. call \in CallRecords
    BY DEF TypeInv
  <2> QED  BY <2>1, <2>2, <2>3 DEF ChartsTypeOK, TypeInv, CallRecords, Answers
<1> QED  BY <1>1, ChartsInvariance, PTL

\* The invariant says of every dataset what DatasetFits does.
LEMMA DatasetsFit == TypeInv /\ SetsInv => DatasetFits
<1> SUFFICES ASSUME TypeInv, SetsInv, NEW i \in DOMAIN call.sets
             PROVE  LET d == call.sets[i]
                        KeyOf(n) == Key(d.how, d.rows[n])
                        taken == 1..d.read
                        done == i < Len(call.sets) \/ call.step \in {"ask", "end"}
                    IN /\ DOMAIN d.data = {KeyOf(n) : n \in taken}
                       /\ \A n \in taken :
                            d.data[KeyOf(n)] >= n /\ KeyOf(d.data[KeyOf(n)]) = KeyOf(n)
                       /\ d.how.repeat = "throws" =>
                            \A m, n \in taken : KeyOf(m) = KeyOf(n) => m = n
                       /\ done /\ faults = 0 /\ d.read < Len(d.rows) =>
                            \/ NullName = d.rows[d.read + 1].name
                            \/ NullTime = d.rows[d.read + 1].at
                            \/ d.how.numeral
                            \/ \E n \in taken : KeyOf(n) = KeyOf(d.read + 1)
  BY DEF DatasetFits
<1> DEFINE d == call.sets[i]
<1>1. i \in 1..Len(call.sets) /\ d \in Datasets
  BY CallFields
<1>2. DatasetInv(d) /\ (faults = 0 => SetDone(call.sets, i, call.step))
  BY <1>1 DEF SetsInv, SetsOK, SetOK
<1> HIDE DEF d
<1>3. /\ DOMAIN d.data = {KeyAt(d, n) : n \in 1..d.read}
      /\ \A n \in 1..d.read :
           d.data[KeyAt(d, n)] >= n /\ KeyAt(d, d.data[KeyAt(d, n)]) = KeyAt(d, n)
      /\ d.how.repeat = "throws" => \A m, n \in 1..d.read : KeyAt(d, m) = KeyAt(d, n) => m = n
  <2>1. d.read \in Nat
    BY <1>1 DEF Datasets
  <2> QED  BY <1>2, <2>1 DEF DatasetInv
<1>4. ASSUME i < Len(call.sets) \/ call.step \in {"ask", "end"}, faults = 0, d.read < Len(d.rows)
      PROVE  \/ NullName = d.rows[d.read + 1].name
             \/ NullTime = d.rows[d.read + 1].at
             \/ d.how.numeral
             \/ \E n \in 1..d.read : KeyAt(d, n) = KeyAt(d, d.read + 1)
  <2>1. Ended(d)
    BY <1>2, <1>4 DEF SetDone, d
  <2>2. d.read \in Nat /\ Len(d.rows) \in Nat
    BY <1>1 DEF Datasets
  <2>3. Throws(d)
    BY <1>4, <2>1, <2>2 DEF Ended
  <2>4. Key(d.how, NextRow(d)) = KeyAt(d, d.read + 1)
    BY DEF NextRow, KeyAt
  <2> QED  BY <1>3, <2>3, <2>4 DEF Throws, NextRow
<1> QED  BY <1>3, <1>4 DEF KeyAt, d

\* What createAvgList takes: every row, by its name.
LEMMA AvgTakesAll ==
  ASSUME NEW d \in Datasets, d.how = createAvgList
  PROVE  ~ Throws(d) /\ \A n : KeyAt(d, n) = <<d.rows[n].name>>
<1>1. /\ createAvgList.columns = 1 /\ createAvgList.repeat = "replaces"
      /\ createAvgList.numeral = FALSE /\ createAvgList.nulls = TRUE
  BY DEF createAvgList, Builder
<1> HIDE DEF createAvgList
<1> QED  BY <1>1 DEF Throws, KeyAt, Key

\* When all questions are asked, and nothing failed, every series has its average.
LEMMA AveragesThere ==
  ASSUME TypeInv, SetsInv, faults = 0, call.step = "ask"  PROVE ~ MissesAverage
<1> SUFFICES ASSUME MissesAverage  PROVE FALSE
  OBVIOUS
<1> DEFINE n == Len(P.asks)
<1>1. /\ P.asks \in Seq(Builders) /\ n >= 2 /\ n \in Nat /\ Len(call.sets) = n
      /\ P.asks[n] = createAvgList /\ \A i \in 1..(n - 1) : P.asks[i] # createAvgList
      /\ call.sets \in Seq(Datasets)
  BY CallFields DEF MissesAverage, Asked, AvgLast
<1>2. DOMAIN P.asks = 1..n /\ 1..n = 1..(n - 1) \cup {n} /\ 1..0 = {}
  BY <1>1
<1> HIDE DEF n
<1>3. Averages = call.sets[n]
  <2>1. \A i \in DOMAIN P.asks : P.asks[i] = createAvgList <=> i = n
    BY <1>1, <1>2
  <2>2. n \in DOMAIN P.asks
    BY <1>1, <1>2
  <2>3. (CHOOSE i \in DOMAIN P.asks : P.asks[i] = createAvgList) = n
    BY <2>1, <2>2
  <2> QED  BY <2>3 DEF Averages
<1>4. Drawn = call.sets[1]
  <2>1. \A i \in DOMAIN P.asks :
          (P.asks[i] # createAvgList /\ \A j \in 1..(i - 1) : P.asks[j] = createAvgList) <=> i = 1
    <3>1. P.asks[1] # createAvgList /\ 1 - 1 = 0
      BY <1>1
    <3>2. \A i \in DOMAIN P.asks : i # 1 => 1 \in 1..(i - 1)
      BY <1>1, <1>2
    <3> QED  BY <1>2, <3>1, <3>2
  <2>2. 1 \in DOMAIN P.asks
    BY <1>1, <1>2
  <2>3. (CHOOSE i \in DOMAIN P.asks :
           P.asks[i] # createAvgList /\ \A j \in 1..(i - 1) : P.asks[j] = createAvgList) = 1
    BY <2>1, <2>2
  <2> QED  BY <2>3 DEF Drawn
<1> DEFINE d == call.sets[1]  a == call.sets[n]
<1>5. PICK s \in d.series : <<s>> \notin DOMAIN a.data
  BY <1>3, <1>4 DEF MissesAverage
<1>6. 1 \in 1..n /\ n \in 1..n /\ d \in Datasets /\ a \in Datasets
  BY <1>1
<1>7. /\ SetOK(call.sets, 1, P.asks) /\ SetSeen(call.sets, 1, table)
      /\ SetOK(call.sets, n, P.asks) /\ SetDone(call.sets, n, call.step)
  BY <1>1, <1>6 DEF SetsInv, SetsOK
<1>8. DatasetInv(d) /\ DatasetInv(a) /\ a.how = createAvgList /\ Ended(a) /\ Begins(d.rows, a.rows)
  BY <1>1, <1>6, <1>7 DEF SetOK, SetDone, SetSeen
<1>9. /\ Len(d.rows) \in Nat /\ Len(a.rows) \in Nat /\ a.read \in Nat
      /\ ~ Throws(a) /\ \A m : KeyAt(a, m) = <<a.rows[m].name>>
  BY <1>6, <1>8, AvgTakesAll DEF Datasets
<1> HIDE DEF d, a
<1>10. PICK m \in 1..Len(d.rows) : d.rows[m].name = s
  BY <1>5, <1>8 DEF DatasetInv
<1>11. m \in 1..a.read /\ a.rows[m].name = s
  BY <1>8, <1>9, <1>10 DEF Begins, Ended
<1>12. KeyAt(a, m) \in DOMAIN a.data
  BY <1>8, <1>11 DEF DatasetInv
<1> QED  BY <1>5, <1>9, <1>11, <1>12

\* A call without failures ends without a picture for the reasons named only.
LEMMA AveragesKept ==
  TypeInv /\ SetsInv /\ AveragesFound /\ [Next]_vars => AveragesFound'
<1> SUFFICES ASSUME TypeInv, SetsInv, AveragesFound, [Next]_vars,
                    call'.step = "end", call'.answer \in {"null", "thrown"}, faults' = 0
             PROVE  \/ "a chart" \in P'.needs
                    \/ "legend" \in P'.needs /\ ~ call'.legend
                    \/ "shapes" \in P'.needs /\ Cardinality(call'.sets[2].series) > Shapes
  BY DEF AveragesFound
<1>t. call \in CallRecords /\ faults \in 0..MaxFaults
  BY DEF TypeInv
<1>1. CASE Insert \/ UNCHANGED vars
  <2>1. call' = call /\ faults' = faults /\ P' = P
    BY <1>1, SamePlan DEF Insert, vars
  <2> QED  BY <2>1 DEF AveragesFound
<1>2. CASE Fail
  <2>1. /\ call.step = "ask" /\ Stuck /\ faults = 0 /\ call'.generator = call.generator
        /\ call'.sets = call.sets /\ call'.legend = call.legend
    BY <1>t, <1>2 DEF Fail, End, CallRecords
  <2>2. P' = P
    BY <2>1, SamePlan
  <2>3. ~ MissesAverage
    BY <2>1, AveragesThere
  <2> QED  BY <2>1, <2>2, <2>3 DEF Stuck, RunsOutOfShapes, MissesLegend
<1>3. CASE Draw
  <2>1. call'.answer = "file"
    BY <1>t, <1>3 DEF Draw, End, CallRecords
  <2> QED  BY <2>1
<1>4. CASE DrawFails \/ AskFails \/ ReadFails \/ CloseFails
  BY <1>4, FaultCounts DEF DrawFails, AskFails, ReadFails, CloseFails
<1>5. CASE Request \/ Ask \/ Take \/ GiveUp \/ EndOfRows \/ Close
  <2>1. Request => call'.step = "ask"
    BY DEF Request
  <2>2. Ask => call'.step = "read"
    BY <1>t DEF Ask, CallRecords
  <2>3. Take => call'.step = "read"
    BY <1>t DEF Take, Reading, CallRecords
  <2>4. GiveUp => call'.step = "close"
    BY <1>t DEF GiveUp, CallRecords
  <2>5. EndOfRows => call'.step = "close"
    BY <1>t DEF EndOfRows, CallRecords
  <2>6. Close => call'.step = "ask"
    BY <1>t DEF Close, CallRecords
  <2> QED  BY <1>5, <2>1, <2>2, <2>3, <2>4, <2>5, <2>6
<1> QED  BY <1>1, <1>2, <1>3, <1>4, <1>5 DEF Next

\* Every dataset holds the last value of every key among the rows it took, and took
\* all that it could; and when nothing fails every series of a chart finds its
\* average, whatever samples arrive between two questions (ChartUtil).
THEOREM AlwaysDrawnFromRows == Spec => []DrawnFromRows
<1>1. Init => AveragesFound
  <2>1. Init => call.answer = "none"
    BY DEF Init
  <2> QED  BY <2>1 DEF AveragesFound
<1>2. (HeldInv /\ TypeInv /\ SetsInv) /\ AveragesFound /\ [Next]_vars => AveragesFound'
  BY AveragesKept
<1>3. Spec => []AveragesFound
  BY <1>1, <1>2, ChartsInvariance, PTL DEF Spec
<1>4. (HeldInv /\ TypeInv /\ SetsInv) /\ AveragesFound => DrawnFromRows
  BY DatasetsFit DEF DrawnFromRows
<1> QED  BY <1>3, <1>4, ChartsInvariance, PTL

================================================================================
