--------------------------- MODULE ReportPool_proofs ---------------------------
(* Proofs about the connection pool and the requests that share it.             *)
(*                                                                              *)
(* The inductive invariant has three parts.  Good says what can be said of one  *)
(* request alone.  Held says that a connection is in the pool, commits each     *)
(* statement by itself and is free, or is held by one request.  LeaksCounted    *)
(* counts: before the name of the product is known every lost connection had a  *)
(* failure; afterwards the threads that already ask for it may lose one each.   *)
EXTENDS ReportPool, FiniteSetTheorems, SequenceTheorems, TLAPS

\* The picture that analysisfilename names after the cells of a page.
LastFile(page) == IF page = <<>> THEN 0 ELSE page[Len(page)].file

\* Every cell on the page is the right one, in a report that has failed or not.
CellsRight(page, failed) ==
  \A k \in 1..Len(page) :
    /\ page[k].status = k
    /\ page[k].side = "left" <=> k % 2 = 1
    /\ page[k].file = k \/ (failed /\ page[k].file = PictureBefore(page, k))

Fresh(r) == r.page = <<>> /\ r.i = 0 /\ r.file = 0

\* A turn of the loop: the place of its first status, and of its second if there is one.
InTurn(r) == r.i % 2 = 0 /\ r.file = LastFile(r.page) /\ (r.listed > r.i + 1 => r.map2 = r.i + 2)

AtCell(r) ==
  /\ InTurn(r)
  /\ r.side = "left" => Len(r.page) = r.i /\ r.i < r.listed
  /\ r.side = "right" => Len(r.page) = r.i + 1 /\ r.i + 1 < r.listed

\* What holds of a report and of the loop that writes its cells.
LoopShape(r) ==
  r.kind = "report" =>
    /\ r.stage \in {"check", "probe", "ips", "list"} => Fresh(r)
    /\ r.stage \in {"chart", "draw"} => AtCell(r)
    /\ r.stage = "ok" => Len(r.page) = r.listed
    /\ CellsRight(r.page, r.failed)

\* What holds of a request by itself.
Shape(r) ==
  /\ r.kind # "report" => r.stage \in {"write", "ok", "error"}
  /\ r.kind = "report" => r.stage # "write"
  /\ r.step \in Waiting \cup Using => r.stage \in Asking
  /\ r.step = "close" => r.stage # "probe"
  /\ LoopShape(r)
  /\ r.kind = "insert" /\ r.step = "close" /\ r.ok => r.write = "kept"
  /\ r.kind = "insert" /\ r.stage = "ok" => r.write = "kept"

Good(r) == r \in Calls /\ Len(r.page) <= r.listed /\ Shape(r)

Held ==
  /\ \A c \in pool : auto[c]
  /\ \A t \in Threads : Uses(t) => req[t].conn \in Conns \ pool
  /\ \A t, u \in Threads : t # u /\ Uses(t) /\ Uses(u) => req[t].conn # req[u].conn
  /\ \A t \in Threads : Uses(t) /\ req[t].kind = "insert" => auto[req[t].conn]

Probing == {t \in Threads : req[t].stage = "probe"}

LeaksCounted ==
  IF typeKnown
    THEN Cardinality(leaked) + Cardinality(Probing) <= Cardinality(Threads) + faults
    ELSE Cardinality(leaked) <= faults

PoolInv ==
  /\ PoolTypeOK
  /\ \A t \in Threads : Good(req[t])
  /\ Held
  /\ LeaksCounted

--------------------------------------------------------------------------------
(* One request.                                                                 *)

USE DEF Asking, Waiting, Using

SameLoop(a, r) ==
  /\ a.kind = r.kind /\ a.listed = r.listed /\ a.side = r.side /\ a.i = r.i
  /\ a.map2 = r.map2 /\ a.file = r.file /\ a.page = r.page /\ (r.failed => a.failed)

LEMMA LoopKept ==
  ASSUME NEW a, NEW r, SameLoop(a, r), LoopShape(r),
         a.stage = r.stage \/ a.stage = "error"
         \/ (r.stage \in {"chart", "draw"} /\ a.stage \in {"chart", "draw"})
         \/ (r.stage \in {"check", "probe", "ips", "list"} /\ a.stage \in {"check", "probe", "ips", "list"})
  PROVE  LoopShape(a)
  BY DEF SameLoop, LoopShape, Fresh, AtCell, InTurn, CellsRight

LEMMA AskGood ==
  ASSUME NEW r, Good(r), NEW s \in {"probe", "ips", "list"}, r.kind = "report",
         r.stage \in {"check", "probe", "ips", "list"}
  PROVE  Good(Ask(r, s)) /\ Ask(r, s).step = "first" /\ Ask(r, s).stage = s
<1> DEFINE a == Ask(r, s)
<1>1. /\ a.stage = s /\ a.step = "first" /\ a.conn = NoConn /\ a.ok
      /\ SameLoop(a, r)
      /\ a.failed = r.failed /\ a.write = r.write
  BY DEF Ask, Good, Calls, SameLoop
<1>2. a \in Calls
  BY DEF Ask, Good, Calls
<1> HIDE DEF a
<1>3. LoopShape(a)
  BY <1>1, LoopKept DEF Good, Shape
<1>4. Shape(a) /\ Len(a.page) <= a.listed
  BY <1>1, <1>3 DEF Shape, Good, SameLoop
<1> QED BY <1>1, <1>2, <1>4 DEF Good, a

LEMMA EndGood ==
  ASSUME NEW r, Good(r), NEW a \in {"ok", "error"},
         a = "ok" => r.kind # "report" \/ r.stage = "ok",
         a = "ok" /\ r.kind = "insert" => r.write = "kept"
  PROVE  Good(End(r, a)) /\ End(r, a).step = "none" /\ End(r, a).stage = a
<1> DEFINE e == End(r, a)
<1>1. /\ e.stage = a /\ e.step = "none" /\ SameLoop(e, r) /\ e.write = r.write /\ e.ok = r.ok
      /\ e \in Calls
  BY DEF End, Good, Calls, SameLoop
<1> HIDE DEF e
<1>2. LoopShape(e)
  <2>1. CASE a = "error"
    BY <1>1, <2>1, LoopKept DEF Good, Shape
  <2>2. CASE a = "ok"
    BY <1>1, <2>2, LoopKept DEF LoopShape, SameLoop, Good, Shape
  <2> QED BY <2>1, <2>2
<1>3. Shape(e) /\ Len(e.page) <= e.listed
  BY <1>1, <1>2 DEF Shape, Good, SameLoop
<1> QED BY <1>1, <1>3 DEF Good, e

LEMMA CallGood ==
  ASSUME NEW k \in {"report", "insert", "update"}, NEW s \in {"check", "write", "ok"},
         NEW p \in {"first", "none"}, p = "first" <=> k # "report",
         s = "write" <=> k # "report"
  PROVE  Good(Call(k, s, p)) /\ Call(k, s, p).stage = s /\ Call(k, s, p).step = p
<1> DEFINE a == Call(k, s, p)
<1>1. /\ a.kind = k /\ a.stage = s /\ a.step = p /\ a.conn = NoConn /\ a.listed = 0
      /\ a.side = "left" /\ a.i = 0 /\ a.map2 = 0 /\ a.file = 0
      /\ a.page = <<>> /\ a.ok /\ a.failed = FALSE /\ a.write = "none"
  BY DEF Call
<1>2. a \in Calls
  BY PoolAssumption DEF Call, Calls
<1>3. Len(a.page) = 0
  BY <1>1
<1> HIDE DEF a
<1>4. Shape(a)
  <2>1. a.kind # "report" => a.stage \in {"write", "ok", "error"}
    BY <1>1
  <2>2. a.stage = "ok" => a.kind = "report"
    BY <1>1
  <2>3. a.step \in Waiting \cup Using => a.stage \in Asking
    BY <1>1
  <2>4. LoopShape(a)
    BY <1>1, <1>3 DEF LoopShape, Fresh, CellsRight
  <2> QED BY <1>1, <1>3, <2>1, <2>2, <2>3, <2>4 DEF Shape
<1> QED BY <1>1, <1>2, <1>3, <1>4 DEF Good, a

Resting(r) == Good(r) /\ r.step \notin Using /\ r.stage # "probe"

\* A report between two cells: a call whose page is right so far.
Body(r) ==
  /\ r \in Calls
  /\ r.kind = "report"
  /\ Len(r.page) <= r.listed
  /\ CellsRight(r.page, r.failed)

\* The next cell to be written is the one of the given side.
LEMMA CellGood ==
  ASSUME NEW r, Body(r), NEW side \in {"left", "right"}, InTurn(r),
         side = "left" => Len(r.page) = r.i /\ r.i < r.listed,
         side = "right" => Len(r.page) = r.i + 1 /\ r.i + 1 < r.listed
  PROVE  Resting(Cell(r, side))
<1>1. CASE typeKnown
  <2> DEFINE a == Ask([r EXCEPT !.side = side], "chart")
  <2>1. /\ a.kind = "report" /\ a.stage = "chart" /\ a.step = "first" /\ a.side = side
        /\ a.i = r.i /\ a.map2 = r.map2 /\ a.file = r.file /\ a.page = r.page
        /\ a.listed = r.listed /\ a.failed = r.failed /\ a \in Calls
    BY DEF Ask, Body, Calls
  <2> HIDE DEF a
  <2>2. AtCell(a)
    BY <2>1 DEF AtCell, InTurn
  <2>3. LoopShape(a)
    BY <2>1, <2>2 DEF LoopShape, Body
  <2>4. Resting(a)
    BY <2>1, <2>3 DEF Resting, Good, Shape, Body
  <2> QED BY <1>1, <2>4 DEF Cell, a
<1>2. CASE ~ typeKnown
  <2> DEFINE e == End(r, "error")
  <2>1. /\ e.kind = "report" /\ e.stage = "error" /\ e.step = "none" /\ e.page = r.page
        /\ e.listed = r.listed /\ e.failed = r.failed /\ e \in Calls
    BY DEF End, Body, Calls
  <2> HIDE DEF e
  <2>2. LoopShape(e)
    BY <2>1 DEF LoopShape, Body
  <2>3. Resting(e)
    BY <2>1, <2>2 DEF Resting, Good, Shape, Body
  <2> QED BY <1>2, <2>3 DEF Cell, e
<1> QED BY <1>1, <1>2

\* A turn of the loop begins, or the loop is over.
LEMMA TurnGood ==
  ASSUME NEW r, Body(r), r.i % 2 = 0, r.file = LastFile(r.page),
         r.i < r.listed => Len(r.page) = r.i,
         r.i >= r.listed => Len(r.page) = r.listed
  PROVE  Resting(Turn(r))
<1>1. r.i \in Nat /\ r.listed \in 0..MaxCells /\ MaxCells \in Nat /\ r.map2 \in 0..MaxCells
  BY PoolAssumption DEF Body, Calls
<1>2. CASE r.i >= r.listed
  <2> DEFINE e == End(r, "ok")
  <2>1. /\ e.kind = "report" /\ e.stage = "ok" /\ e.step = "none" /\ e.page = r.page
        /\ e.listed = r.listed /\ e.failed = r.failed /\ e \in Calls
    BY DEF End, Body, Calls
  <2> HIDE DEF e
  <2>2. LoopShape(e)
    BY <1>2, <2>1 DEF LoopShape, Body
  <2>3. Resting(e)
    BY <2>1, <2>2 DEF Resting, Good, Shape, Body
  <2> QED BY <1>2, <2>3 DEF Turn, e
<1>3. CASE ~ (r.i >= r.listed)
  <2> DEFINE m == IF r.listed > r.i + 1 THEN r.i + 2 ELSE r.map2
             a == [r EXCEPT !.map2 = m]
  <2>1. m \in 0..MaxCells
    BY <1>1
  <2> HIDE DEF m
  <2>2. /\ a.kind = "report" /\ a.i = r.i /\ a.map2 = m /\ a.file = r.file /\ a.page = r.page
        /\ a.listed = r.listed /\ a.failed = r.failed /\ a \in Calls
    BY <2>1 DEF Body, Calls
  <2>3. Turn(r) = Cell(a, "left")
    BY <1>3 DEF Turn, m
  <2> HIDE DEF a
  <2>4. Body(a)
    BY <2>2 DEF Body
  <2>5. InTurn(a)
    BY <2>2 DEF InTurn, m
  <2>6. Len(a.page) = a.i /\ a.i < a.listed
    BY <1>1, <1>3, <2>2
  <2> QED BY <2>3, <2>4, <2>5, <2>6, CellGood
<1> QED BY <1>2, <1>3

LEMMA ContinueGood ==
  ASSUME NEW r, Good(r), r.stage \in Asking \ {"probe"},
         r.kind = "insert" /\ r.ok => r.write = "kept"
  PROVE  Resting(Continue(r))
<1>1. CASE r.stage = "chart"
  <2> DEFINE d == [r EXCEPT !.stage = "draw", !.step = "none", !.conn = NoConn]
  <2>1. /\ d.stage = "draw" /\ d.step = "none" /\ SameLoop(d, r) /\ d \in Calls
    BY DEF Good, Calls, SameLoop
  <2> HIDE DEF d
  <2>2. LoopShape(d)
    BY <1>1, <2>1, LoopKept DEF Good, Shape
  <2>3. Resting(d)
    BY <1>1, <2>1, <2>2 DEF Resting, Good, Shape, SameLoop
  <2> QED BY <1>1, <2>3 DEF Continue, d
<1>2. CASE r.stage # "chart" /\ ~ r.ok
  BY <1>2, EndGood DEF Continue, Resting
<1>3. CASE r.stage = "ips" /\ r.ok
  <2>1. r.kind = "report"
    BY <1>3 DEF Good, Shape, Calls
  <2> QED BY <1>3, <2>1, AskGood DEF Continue, Resting
<1>4. CASE r.stage = "list" /\ r.ok
  <2>1. r.kind = "report"
    BY <1>4 DEF Good, Shape, Calls
  <2>2. Fresh(r) /\ CellsRight(r.page, r.failed)
    BY <1>4, <2>1 DEF Good, Shape, LoopShape
  <2>3. Body(r) /\ r.listed >= 0
    BY <2>1, <2>2, PoolAssumption DEF Body, Good, Calls
  <2>4. 0 % 2 = 0 /\ Len(<<>>) = 0
    OBVIOUS
  <2>5. /\ r.i % 2 = 0 /\ r.file = LastFile(r.page)
        /\ r.i < r.listed => Len(r.page) = r.i
        /\ r.i >= r.listed => Len(r.page) = r.listed
    <3>1. r.listed \in Nat /\ r.i = 0 /\ Len(r.page) = 0
      BY <2>2, <2>4, PoolAssumption DEF Good, Calls, Fresh
    <3>2. r.file = LastFile(r.page)
      BY <2>2 DEF Fresh, LastFile
    <3> QED BY <2>4, <3>1, <3>2
  <2> QED BY <1>4, <2>3, <2>5, TurnGood DEF Continue
<1>5. CASE r.stage = "write" /\ r.ok
  <2>1. r.kind # "report"
    BY <1>5 DEF Good, Shape
  <2> QED BY <1>5, <2>1, EndGood DEF Continue, Resting
<1> QED BY <1>1, <1>2, <1>3, <1>4, <1>5

LEMMA FailedGood ==
  ASSUME NEW r, Good(r)
  PROVE  /\ Good(Failed(r)) /\ Failed(r).stage = r.stage /\ Failed(r).step = r.step
         /\ Failed(r).kind = r.kind /\ ~ Failed(r).ok
<1> DEFINE f == Failed(r)
<1>1. /\ f.stage = r.stage /\ f.step = r.step /\ f.conn = r.conn /\ ~ f.ok /\ f.write = r.write
      /\ SameLoop(f, r) /\ f \in Calls
  BY DEF Failed, Good, Calls, SameLoop
<1> HIDE DEF f
<1>2. LoopShape(f)
  BY <1>1, LoopKept DEF Good, Shape
<1>3. Good(f)
  BY <1>1, <1>2 DEF Good, Shape, SameLoop
<1> QED BY <1>1, <1>3 DEF f, SameLoop

\* A request refused a connection waits again or is past its use of the database.
LEMMA RefusedGood ==
  ASSUME NEW r, Good(r), r.step \in Waiting
  PROVE  /\ Good(Refused(r)) /\ Refused(r).step \notin Using
         /\ Refused(r).stage = "probe" => r.stage = "probe"
<1>1. CASE ByDbop(r) /\ r.step = "first"
  <2> DEFINE a == [r EXCEPT !.step = "again", !.failed = TRUE]
  <2>1. /\ a.stage = r.stage /\ a.step = "again" /\ a.ok = r.ok /\ a.write = r.write
        /\ SameLoop(a, r) /\ a \in Calls
    BY DEF Good, Calls, SameLoop
  <2> HIDE DEF a
  <2>2. LoopShape(a)
    BY <2>1, LoopKept DEF Good, Shape
  <2>3. Good(a) /\ a.step \notin Using /\ a.stage = r.stage
    BY <2>1, <2>2 DEF Good, Shape, SameLoop
  <2> QED BY <1>1, <2>3 DEF Refused, a
<1>2. CASE ~ (ByDbop(r) /\ r.step = "first")
  <2>1. Refused(r) = Denied(r) /\ r.stage \in Asking
    BY <1>2 DEF Refused, Good, Shape
  <2>2. CASE r.stage = "probe"
    BY <2>1, <2>2, FailedGood, EndGood DEF Denied
  <2>3. CASE r.stage # "probe"
    BY <2>1, <2>3, FailedGood, ContinueGood DEF Denied, Resting
  <2> QED BY <2>2, <2>3
<1> QED BY <1>1, <1>2

--------------------------------------------------------------------------------
(* Counting.                                                                    *)

LEMMA AddOne ==
  ASSUME NEW S, IsFiniteSet(S), NEW x
  PROVE  /\ IsFiniteSet(S \cup {x})
         /\ Cardinality(S) \in Nat /\ Cardinality(S \cup {x}) \in Nat
         /\ Cardinality(S \cup {x}) <= Cardinality(S) + 1
<1>1. IsFiniteSet(S \cup {x}) /\ Cardinality(S \cup {x}) \in {Cardinality(S), Cardinality(S) + 1}
  BY FS_AddElement
<1> QED BY <1>1, FS_CardinalityType

LEMMA TakeOne ==
  ASSUME NEW S, IsFiniteSet(S), NEW x \in S
  PROVE  /\ Cardinality(S) \in Nat /\ Cardinality(S \ {x}) \in Nat
         /\ Cardinality(S \ {x}) + 1 = Cardinality(S)
<1>1. IsFiniteSet(S \ {x}) /\ Cardinality(S \ {x}) = Cardinality(S) - 1
  BY FS_RemoveElement
<1> QED BY <1>1, FS_CardinalityType

\* The counts the invariant speaks of are numbers, and at most every thread probes.
LEMMA Counts ==
  ASSUME PoolTypeOK
  PROVE  /\ IsFiniteSet(leaked) /\ Cardinality(leaked) \in Nat
         /\ IsFiniteSet(Probing) /\ Cardinality(Probing) \in Nat
         /\ Cardinality(Threads) \in Nat /\ Cardinality(Probing) <= Cardinality(Threads)
<1>1. Probing \subseteq Threads /\ leaked \subseteq Conns
  BY DEF Probing, PoolTypeOK
<1> QED BY <1>1, PoolAssumption, FS_Subset, FS_CardinalityType

--------------------------------------------------------------------------------
(* Steps.                                                                       *)

\* What every step shares: one request changes, to a good one.
LEMMA OneRequest ==
  ASSUME PoolInv, NEW t \in Threads, NEW r, Good(r), r.step \in Using => r.conn \in Conns,
         req' = [req EXCEPT ![t] = r],
         pool' \subseteq Conns, leaked' \subseteq Conns, auto' \in [Conns -> BOOLEAN],
         typeKnown' \in BOOLEAN, faults' \in 0..MaxFaults
  PROVE  /\ PoolTypeOK'
         /\ \A u \in Threads : Good(req[u])'
         /\ \A u \in Threads \ {t} : req'[u] = req[u]
         /\ req'[t] = r
<1>1. req'[t] = r /\ \A u \in Threads \ {t} : req'[u] = req[u]
  BY DEF PoolInv, PoolTypeOK
<1>2. \A u \in Threads : Good(req[u])'
  <2> SUFFICES ASSUME NEW u \in Threads PROVE Good(req'[u])
    BY DEF Good, Shape
  <2> QED BY <1>1 DEF PoolInv
<1>3. req' \in [Threads -> Calls]
  BY <1>2 DEF PoolInv, PoolTypeOK, Good
<1>4. \A u \in Threads : Len(req'[u].page) <= req'[u].listed
                         /\ (req'[u].step \in Using => req'[u].conn \in Conns)
  BY <1>1, <1>2 DEF PoolInv, PoolTypeOK, Good, Uses
<1> QED BY <1>1, <1>2, <1>3, <1>4 DEF PoolTypeOK, Uses

\* A step after which t uses no connection, and which leaves the pool as it is or
\* returns to it the connection that t held, with autocommit on.
LEMMA HeldWithout ==
  ASSUME PoolInv, NEW t \in Threads, ~ Uses(t)', PoolTypeOK',
         \A u \in Threads \ {t} : req'[u] = req[u],
         \/ pool' \subseteq pool /\ auto' = auto
         \/ /\ Uses(t)
            /\ pool' = pool \cup {req[t].conn}
            /\ auto' = [auto EXCEPT ![req[t].conn] = TRUE]
  PROVE  Held'
<1>1. \A u \in Threads : Uses(u)' => u # t /\ Uses(u) /\ req'[u] = req[u]
  BY DEF Uses
<1>2. \A u \in Threads : Uses(u) => req[u].conn \in Conns
  BY DEF PoolInv, Held
<1>3. CASE pool' \subseteq pool /\ auto' = auto
  BY <1>1, <1>3 DEF PoolInv, Held
<1>4. CASE /\ Uses(t)
           /\ pool' = pool \cup {req[t].conn}
           /\ auto' = [auto EXCEPT ![req[t].conn] = TRUE]
  <2>1. \A c \in Conns : c # req[t].conn => auto'[c] = auto[c]
    BY <1>4 DEF PoolInv, PoolTypeOK
  <2>2. \A c \in pool' : auto'[c]
    BY <1>4, <1>2, <2>1 DEF PoolInv, PoolTypeOK, Held
  <2>3. \A u \in Threads : Uses(u)' => req[u].conn # req[t].conn
    BY <1>1, <1>4 DEF PoolInv, Held
  <2> QED BY <1>1, <1>2, <1>4, <2>1, <2>2, <2>3 DEF PoolInv, Held
<1> QED BY <1>3, <1>4

\* A step that loses no connection and starts no probe keeps the count.
LEMMA CountKept ==
  ASSUME PoolInv, PoolTypeOK', leaked' = leaked, typeKnown' = typeKnown,
         faults' \in {faults, faults + 1},
         typeKnown => Probing' \subseteq Probing
  PROVE  LeaksCounted'
<1>1. faults \in Nat /\ faults' \in Nat /\ faults <= faults'
  BY PoolAssumption DEF PoolInv, PoolTypeOK
<1>2. /\ IsFiniteSet(Probing) /\ Cardinality(Probing) \in Nat /\ Cardinality(leaked) \in Nat
      /\ Cardinality(Threads) \in Nat
  BY Counts DEF PoolInv
<1>3. Cardinality(Probing') \in Nat
  BY PoolAssumption, FS_Subset, FS_CardinalityType DEF Probing
<1>4. typeKnown => Cardinality(Probing') <= Cardinality(Probing)
  BY <1>2, FS_Subset
<1> QED BY <1>1, <1>2, <1>3, <1>4 DEF PoolInv, LeaksCounted

\* A step that loses one connection to a failure, and starts no probe.
LEMMA CountFault ==
  ASSUME PoolInv, PoolTypeOK', NEW c, leaked' = leaked \cup {c}, typeKnown' = typeKnown,
         faults' = faults + 1,
         typeKnown => Probing' \subseteq Probing
  PROVE  LeaksCounted'
<1>1. faults \in Nat
  BY PoolAssumption DEF PoolInv, PoolTypeOK
<1>2. /\ IsFiniteSet(Probing) /\ Cardinality(Probing) \in Nat
      /\ IsFiniteSet(leaked) /\ Cardinality(Threads) \in Nat
  BY Counts DEF PoolInv
<1>3. Cardinality(Probing') \in Nat
  BY PoolAssumption, FS_Subset, FS_CardinalityType DEF Probing
<1>4. typeKnown => Cardinality(Probing') <= Cardinality(Probing)
  BY <1>2, FS_Subset
<1>5. /\ Cardinality(leaked) \in Nat /\ Cardinality(leaked') \in Nat
      /\ Cardinality(leaked') <= Cardinality(leaked) + 1
  BY <1>2, AddOne
<1> QED BY <1>1, <1>2, <1>3, <1>4, <1>5 DEF PoolInv, LeaksCounted

\* A probe that succeeds: it loses its connection, and is one probe less.
LEMMA CountProbe ==
  ASSUME PoolInv, PoolTypeOK', NEW c, leaked' = leaked \cup {c}, typeKnown', faults' = faults,
         NEW t \in Probing, Probing' \subseteq Probing \ {t}
  PROVE  LeaksCounted'
<1>1. faults \in Nat
  BY PoolAssumption DEF PoolInv, PoolTypeOK
<1>2. /\ IsFiniteSet(Probing) /\ Cardinality(Probing) \in Nat
      /\ IsFiniteSet(leaked) /\ Cardinality(Threads) \in Nat
      /\ Cardinality(Probing) <= Cardinality(Threads)
  BY Counts DEF PoolInv
<1>3. IsFiniteSet(Probing \ {t}) /\ Cardinality(Probing \ {t}) + 1 = Cardinality(Probing)
  BY <1>2, TakeOne, FS_Subset
<1>4. Cardinality(Probing') \in Nat /\ Cardinality(Probing') + 1 <= Cardinality(Probing)
  BY <1>2, <1>3, FS_Subset, FS_CardinalityType
<1>5. /\ Cardinality(leaked) \in Nat /\ Cardinality(leaked') \in Nat
      /\ Cardinality(leaked') <= Cardinality(leaked) + 1
  BY <1>2, AddOne
<1> QED BY <1>1, <1>2, <1>4, <1>5 DEF PoolInv, LeaksCounted

\* Which threads probe, when one request changes.
LEMMA ProbingKept ==
  ASSUME NEW t \in Threads, \A u \in Threads \ {t} : req'[u] = req[u],
         req'[t].stage = "probe" => req[t].stage = "probe"
  PROVE  Probing' \subseteq Probing
  BY DEF Probing

\* A step in which t goes on using the connection it holds.
LEMMA HeldStill ==
  ASSUME PoolInv, NEW t \in Threads, Uses(t), req'[t].conn = req[t].conn,
         req'[t].kind = req[t].kind, \A u \in Threads \ {t} : req'[u] = req[u],
         pool' = pool, auto' = auto
  PROVE  Held'
<1>1. \A u \in Threads : Uses(u)' => Uses(u) /\ req'[u].conn = req[u].conn
                                            /\ req'[u].kind = req[u].kind
  BY DEF Uses
<1> QED BY <1>1 DEF PoolInv, Held

--------------------------------------------------------------------------------
LEMMA InitPoolInv == PoolInit => PoolInv
<1> SUFFICES ASSUME PoolInit PROVE PoolInv
  OBVIOUS
<1> DEFINE a == Call("report", "ok", "none")
           r == End(a, "ok")
<1>1. a.kind = "report"
  BY DEF Call
<1>2. Good(a) /\ a.stage = "ok" /\ a.step = "none"
  BY CallGood
<1> HIDE DEF a
<1>3. Good(r) /\ r.step = "none" /\ r.stage = "ok"
  BY <1>1, <1>2, EndGood
<1> USE DEF a
<1> HIDE DEF r
<1>4. req = [t \in Threads |-> r]
  BY DEF PoolInit, r
<1>5. PoolTypeOK
  <2>1. r \in Calls /\ Len(r.page) <= r.listed
    BY <1>3 DEF Good
  <2>2. req \in [Threads -> Calls]
    BY <1>4, <2>1
  <2>3. \A t \in Threads : Len(req[t].page) <= req[t].listed /\ ~ Uses(t)
    BY <1>3, <1>4, <2>1 DEF Uses
  <2>4. auto \in [Conns -> BOOLEAN] /\ typeKnown \in BOOLEAN /\ pool \subseteq Conns
    BY DEF PoolInit
  <2>5. leaked \subseteq Conns /\ faults \in 0..MaxFaults
    BY PoolAssumption DEF PoolInit
  <2> QED BY <2>2, <2>3, <2>4, <2>5 DEF PoolTypeOK
<1>6. \A t \in Threads : Good(req[t])
  BY <1>3, <1>4
<1>7. Held
  BY <1>3, <1>4 DEF PoolInit, Held, Uses
<1>8. LeaksCounted
  BY FS_EmptySet DEF PoolInit, LeaksCounted
<1> QED BY <1>5, <1>6, <1>7, <1>8 DEF PoolInv

\* A request that returns nothing to the pool, loses nothing and starts no probe.
LEMMA QuietStep ==
  ASSUME PoolInv, NEW t \in Threads, NEW r, Good(r), r.step \notin Using,
         r.stage = "probe" => req[t].stage = "probe" \/ ~ typeKnown,
         req' = [req EXCEPT ![t] = r],
         UNCHANGED <<pool, leaked, auto, typeKnown>>, faults' \in {faults, faults + 1},
         faults' \in 0..MaxFaults
  PROVE  PoolInv'
<1>1. /\ PoolTypeOK'
      /\ \A u \in Threads : Good(req[u])'
      /\ \A u \in Threads \ {t} : req'[u] = req[u]
      /\ req'[t] = r
  BY OneRequest DEF PoolInv, PoolTypeOK
<1>2. Held'
  BY <1>1, HeldWithout DEF Uses
<1>3. typeKnown => Probing' \subseteq Probing
  BY <1>1, ProbingKept
<1>4. LeaksCounted'
  BY <1>1, <1>3, CountKept
<1> QED BY <1>1, <1>2, <1>4 DEF PoolInv

LEMMA FaultBounded == ASSUME PoolInv, Fault PROVE faults' = faults + 1 /\ faults' \in 0..MaxFaults
  BY PoolAssumption DEF Fault, PoolInv, PoolTypeOK

\* A request that loses one connection to a failure.
LEMMA LosingStep ==
  ASSUME PoolInv, NEW t \in Threads, NEW r, Good(r), r.step \notin Using,
         r.stage = "probe" => req[t].stage = "probe",
         req' = [req EXCEPT ![t] = r], NEW c \in Conns, leaked' = leaked \cup {c},
         pool' \subseteq pool, UNCHANGED <<auto, typeKnown>>, Fault
  PROVE  PoolInv'
<1>1. /\ PoolTypeOK'
      /\ \A u \in Threads : Good(req[u])'
      /\ \A u \in Threads \ {t} : req'[u] = req[u]
      /\ req'[t] = r
  BY OneRequest, FaultBounded DEF PoolInv, PoolTypeOK
<1>2. Held'
  BY <1>1, HeldWithout DEF Uses
<1>3. Probing' \subseteq Probing
  BY <1>1, ProbingKept
<1>4. LeaksCounted'
  BY <1>1, <1>3, FaultBounded, CountFault
<1> QED BY <1>1, <1>2, <1>4 DEF PoolInv

--------------------------------------------------------------------------------
(* The actions.                                                                 *)

LEMMA AcceptStep == ASSUME PoolInv, NEW t \in Threads, Accept(t) PROVE PoolInv'
<1>1. PICK k \in Kinds :
        req' = [req EXCEPT ![t] = IF k = "report" THEN Call(k, "check", "none")
                                                  ELSE Call(k, "write", "first")]
  BY DEF Accept
<1>2. k \in {"report", "insert", "update"}
  BY PoolAssumption
<1>3. faults' = faults /\ faults' \in 0..MaxFaults /\ UNCHANGED <<pool, leaked, auto, typeKnown>>
  BY DEF Accept, PoolInv, PoolTypeOK
<1>4. CASE k = "report"
  <2> DEFINE r == Call(k, "check", "none")
  <2>1. Good(r) /\ r.stage = "check" /\ r.step = "none"
    BY <1>4, CallGood
  <2>2. req' = [req EXCEPT ![t] = r]
    BY <1>1, <1>4
  <2> HIDE DEF r
  <2> QED BY <1>3, <2>1, <2>2, QuietStep
<1>5. CASE k # "report"
  <2> DEFINE r == Call(k, "write", "first")
  <2>1. Good(r) /\ r.stage = "write" /\ r.step = "first"
    BY <1>2, <1>5, CallGood
  <2>2. req' = [req EXCEPT ![t] = r]
    BY <1>1, <1>5
  <2> HIDE DEF r
  <2> QED BY <1>3, <2>1, <2>2, QuietStep
<1> QED BY <1>4, <1>5

LEMMA CheckTypeStep == ASSUME PoolInv, NEW t \in Threads, CheckType(t) PROVE PoolInv'
<1> DEFINE s == IF typeKnown THEN "ips" ELSE "probe"
           r == Ask(req[t], s)
<1>1. Good(req[t]) /\ req[t].stage = "check"
  BY DEF PoolInv, CheckType
<1>2. req[t].kind = "report"
  BY <1>1 DEF Good, Shape
<1>3. Good(r) /\ r.step = "first" /\ r.stage = s
  BY <1>1, <1>2, AskGood
<1>4. /\ req' = [req EXCEPT ![t] = r]
      /\ faults' = faults /\ faults' \in 0..MaxFaults
      /\ UNCHANGED <<pool, leaked, auto, typeKnown>>
  BY DEF CheckType, PoolInv, PoolTypeOK
<1>5. r.stage = "probe" => ~ typeKnown
  BY <1>3
<1> HIDE DEF r
<1> QED BY <1>3, <1>4, <1>5, QuietStep

LEMMA BorrowStep == ASSUME PoolInv, NEW t \in Threads, Borrow(t) PROVE PoolInv'
<1>1. PICK c \in pool :
        /\ pool' = pool \ {c}
        /\ auto' = [auto EXCEPT ![c] = AutoAfter(req[t], @)]
        /\ req' = [req EXCEPT ![t].conn = c, ![t].step = "run"]
  BY DEF Borrow
<1> DEFINE r == [req[t] EXCEPT !.conn = c, !.step = "run"]
<1>2. Good(req[t]) /\ req[t].step \in Waiting /\ c \in Conns
  BY DEF PoolInv, PoolTypeOK, Borrow
<1>3. Good(r) /\ r.conn = c /\ r.step = "run" /\ r.kind = req[t].kind /\ r.stage = req[t].stage
  <2>1. /\ r.conn = c /\ r.step = "run" /\ r.stage = req[t].stage /\ r.ok = req[t].ok
        /\ r.write = req[t].write /\ SameLoop(r, req[t]) /\ r \in Calls
    BY <1>2 DEF Good, Calls, SameLoop
  <2> HIDE DEF r
  <2>2. LoopShape(r)
    BY <1>2, <2>1, LoopKept DEF Good, Shape
  <2> QED BY <1>2, <2>1, <2>2 DEF Good, Shape, SameLoop
<1>4. req' = [req EXCEPT ![t] = r]
  BY <1>1
<1> HIDE DEF r
<1>5. /\ auto[c] /\ auto' \in [Conns -> BOOLEAN] /\ \A d \in Conns \ {c} : auto'[d] = auto[d]
      /\ r.kind = "insert" => auto'[c]
  BY <1>1, <1>2, <1>3 DEF PoolInv, PoolTypeOK, Held, AutoAfter, ByDbop
<1>6. /\ PoolTypeOK'
      /\ \A u \in Threads : Good(req[u])'
      /\ \A u \in Threads \ {t} : req'[u] = req[u]
      /\ req'[t] = r
  <2>1. pool' \subseteq Conns /\ leaked' \subseteq Conns /\ typeKnown' \in BOOLEAN /\ faults' \in 0..MaxFaults
    BY <1>1 DEF PoolInv, PoolTypeOK, Borrow
  <2> QED BY <1>2, <1>3, <1>4, <1>5, <2>1, OneRequest
<1>7. \A u \in Threads \ {t} : Uses(u)' => Uses(u) /\ req'[u].conn = req[u].conn /\ req'[u].conn # c
  <2> SUFFICES ASSUME NEW u \in Threads \ {t}, Uses(u)'
               PROVE  Uses(u) /\ req'[u].conn = req[u].conn /\ req'[u].conn # c
    OBVIOUS
  <2>1. req'[u] = req[u]
    BY <1>6
  <2>2. Uses(u)
    BY <2>1 DEF Uses
  <2>3. req[u].conn \notin pool
    BY <2>2 DEF PoolInv, Held
  <2> QED BY <2>1, <2>2, <2>3
<1>8. Held'
  <2>0. pool' = pool \ {c}
    BY <1>1
  <2>1. \A u \in Threads : Uses(u)' => req'[u].conn \in Conns \ pool'
    <3>1. req'[t].conn \in Conns \ pool'
      BY <2>0, <1>2, <1>3, <1>6
    <3>2. \A u \in Threads \ {t} : Uses(u)' => req'[u].conn \in Conns \ pool'
      BY <2>0, <1>7 DEF PoolInv, Held
    <3> QED BY <3>1, <3>2
  <2>2. \A u, v \in Threads : u # v /\ Uses(u)' /\ Uses(v)' => req'[u].conn # req'[v].conn
    BY <1>3, <1>6, <1>7 DEF PoolInv, Held
  <2>3. \A u \in Threads : Uses(u)' /\ req'[u].kind = "insert" => auto'[req'[u].conn]
    BY <1>3, <1>5, <1>6, <1>7 DEF PoolInv, Held
  <2>4. \A d \in pool' : auto'[d]
    BY <1>1, <1>5 DEF PoolInv, PoolTypeOK, Held
  <2> QED BY <2>1, <2>2, <2>3, <2>4 DEF Held
<1>9. Probing' \subseteq Probing
  BY <1>3, <1>6, ProbingKept
<1>10. LeaksCounted'
  BY <1>6, <1>9, CountKept DEF Borrow
<1> QED BY <1>6, <1>8, <1>10 DEF PoolInv

LEMMA BorrowFailsStep == ASSUME PoolInv, NEW t \in Threads, BorrowFails(t) PROVE PoolInv'
<1> DEFINE r == Refused(req[t])
<1>1. Good(r) /\ r.step \notin Using /\ (r.stage = "probe" => req[t].stage = "probe")
  BY RefusedGood DEF PoolInv, BorrowFails
<1>2. /\ req' = [req EXCEPT ![t] = r]
      /\ faults' = faults + 1 /\ faults' \in 0..MaxFaults
      /\ UNCHANGED <<pool, leaked, auto, typeKnown>>
  BY FaultBounded DEF BorrowFails
<1> HIDE DEF r
<1> QED BY <1>1, <1>2, QuietStep

LEMMA SwitchFailsStep == ASSUME PoolInv, NEW t \in Threads, SwitchFails(t) PROVE PoolInv'
<1> DEFINE r == Refused(req[t])
<1>1. Good(r) /\ r.step \notin Using /\ (r.stage = "probe" => req[t].stage = "probe")
  BY RefusedGood DEF PoolInv, SwitchFails
<1>2. PICK c \in pool : pool' = pool \ {c} /\ leaked' = leaked \cup {c}
  BY DEF SwitchFails
<1>3. /\ req' = [req EXCEPT ![t] = r]
      /\ c \in Conns /\ pool' \subseteq pool /\ UNCHANGED <<auto, typeKnown>> /\ Fault
  BY <1>2 DEF SwitchFails, PoolInv, PoolTypeOK
<1> HIDE DEF r
<1> QED BY <1>1, <1>2, <1>3, LosingStep

\* The question for the product is asked by a report that has drawn nothing.
LEMMA AskIpsGood ==
  ASSUME NEW r, Good(r), r.stage = "probe", NEW b \in BOOLEAN
  PROVE  LET a == Ask([r EXCEPT !.failed = b], "ips") IN
         Good(a) /\ a.step = "first" /\ a.stage = "ips"
<1> DEFINE f == [r EXCEPT !.failed = b]
<1>1. r.kind = "report"
  BY DEF Good, Shape, Calls
<1>2. /\ f.kind = "report" /\ f.stage = "probe" /\ f.step = r.step /\ f.page = r.page
      /\ f.listed = r.listed /\ f.i = r.i /\ f.file = r.file /\ f \in Calls
  BY <1>1 DEF Good, Calls
<1> HIDE DEF f
<1>4. Fresh(f) /\ Len(f.page) <= f.listed
  BY <1>1, <1>2 DEF Good, Shape, LoopShape, Fresh
<1>5. CellsRight(f.page, f.failed)
  BY <1>4 DEF Fresh, CellsRight
<1>6. Good(f)
  BY <1>1, <1>2, <1>4, <1>5 DEF Good, Shape, LoopShape
<1>3. Good(Ask(f, "ips")) /\ Ask(f, "ips").step = "first" /\ Ask(f, "ips").stage = "ips"
  BY <1>2, <1>6, AskGood
<1> QED BY <1>3 DEF f

LEMMA ProbeStep == ASSUME PoolInv, NEW t \in Threads, Probe(t) PROVE PoolInv'
<1> DEFINE r == Ask(req[t], "ips")
<1>1. Good(req[t]) /\ Uses(t) /\ t \in Probing
  BY DEF PoolInv, Probe, Uses, Probing
<1>2. req[t].kind = "report" /\ req[t].stage = "probe"
  BY <1>1 DEF Good, Shape, Calls, Probing
<1>3. Good(r) /\ r.step = "first" /\ r.stage = "ips"
  BY <1>1, <1>2, AskGood
<1>4. /\ req' = [req EXCEPT ![t] = r] /\ leaked' = leaked \cup {req[t].conn}
      /\ req[t].conn \in Conns /\ typeKnown' = TRUE
      /\ pool' = pool /\ auto' = auto /\ faults' = faults
  BY <1>1 DEF Probe, PoolInv, Held
<1> HIDE DEF r
<1>5. /\ PoolTypeOK'
      /\ \A u \in Threads : Good(req[u])'
      /\ \A u \in Threads \ {t} : req'[u] = req[u]
      /\ req'[t] = r
  BY <1>3, <1>4, OneRequest DEF PoolInv, PoolTypeOK
<1>6. Held'
  BY <1>3, <1>4, <1>5, HeldWithout DEF Uses
<1>7. Probing' \subseteq Probing \ {t}
  BY <1>3, <1>5 DEF Probing
<1>8. LeaksCounted'
  BY <1>1, <1>4, <1>5, <1>7, CountProbe
<1> QED BY <1>5, <1>6, <1>8 DEF PoolInv

LEMMA ProbeFailsStep == ASSUME PoolInv, NEW t \in Threads, ProbeFails(t) PROVE PoolInv'
<1> DEFINE r == Ask([req[t] EXCEPT !.failed = TRUE], "ips")
<1>1. Good(req[t]) /\ Uses(t) /\ req[t].stage = "probe"
  BY DEF PoolInv, ProbeFails, Uses
<1>2. Good(r) /\ r.step = "first" /\ r.stage = "ips"
  BY <1>1, AskIpsGood
<1>3. /\ req' = [req EXCEPT ![t] = r] /\ leaked' = leaked \cup {req[t].conn}
      /\ req[t].conn \in Conns /\ pool' \subseteq pool /\ UNCHANGED <<auto, typeKnown>> /\ Fault
  BY <1>1 DEF ProbeFails, PoolInv, Held
<1> HIDE DEF r
<1> QED BY <1>2, <1>3, LosingStep

\* A statement is over, and the connection is still held.
LEMMA UsingStep ==
  ASSUME PoolInv, NEW t \in Threads, NEW r, Good(r), Statement(t),
         r.conn = req[t].conn, r.kind = req[t].kind, r.stage = req[t].stage, r.step = "close",
         req' = [req EXCEPT ![t] = r], UNCHANGED <<pool, leaked, auto, typeKnown, faults>>
  PROVE  PoolInv'
<1>1. Uses(t) /\ req[t].conn \in Conns
  BY DEF Statement, Uses, PoolInv, PoolTypeOK
<1>2. /\ PoolTypeOK'
      /\ \A u \in Threads : Good(req[u])'
      /\ \A u \in Threads \ {t} : req'[u] = req[u]
      /\ req'[t] = r
  BY <1>1, OneRequest DEF PoolInv, PoolTypeOK
<1>3. Held'
  BY <1>1, <1>2, HeldStill
<1>4. Probing' \subseteq Probing
  BY <1>2, ProbingKept DEF Statement
<1>5. LeaksCounted'
  BY <1>2, <1>4, CountKept
<1> QED BY <1>2, <1>3, <1>5 DEF PoolInv

LEMMA ExecuteStep == ASSUME PoolInv, NEW t \in Threads, Execute(t) PROVE PoolInv'
<1>1. PICK n \in 0..MaxCells :
       req' = [req EXCEPT
         ![t].step = "close",
         ![t].listed = IF req[t].stage = "list" THEN n ELSE @,
         ![t].write = IF req[t].stage # "write" THEN @
                      ELSE IF auto[req[t].conn] THEN "kept" ELSE "pending"]
  BY DEF Execute
<1> DEFINE r == [req[t] EXCEPT
                  !.step = "close",
                  !.listed = IF req[t].stage = "list" THEN n ELSE @,
                  !.write = IF req[t].stage # "write" THEN @
                            ELSE IF auto[req[t].conn] THEN "kept" ELSE "pending"]
<1>2. Good(req[t]) /\ Statement(t) /\ Uses(t)
  BY DEF PoolInv, Execute, Statement, Uses
<1>3. /\ r.conn = req[t].conn /\ r.kind = req[t].kind /\ r.stage = req[t].stage /\ r.step = "close"
      /\ r.page = req[t].page /\ r.ok = req[t].ok /\ r.failed = req[t].failed
      /\ r.side = req[t].side /\ r.i = req[t].i /\ r.map2 = req[t].map2 /\ r.file = req[t].file
      /\ r.listed = IF req[t].stage = "list" THEN n ELSE req[t].listed
      /\ r.stage = "write" => r.write = IF auto[req[t].conn] THEN "kept" ELSE "pending"
      /\ r \in Calls
  BY <1>2, ZenonT(60) DEF Good, Calls
<1>4. req' = [req EXCEPT ![t] = r]
  BY <1>1
<1> HIDE DEF r
<1>5. r.stage \notin {"ok", "probe"} /\ (r.kind = "insert" => r.write = "kept")
  <2>1. req[t].stage \in Asking
    BY <1>2 DEF Good, Shape, Statement
  <2>2. r.kind = "insert" => r.stage = "write" /\ auto[req[t].conn]
    BY <1>2, <1>3, <2>1 DEF Good, Shape, PoolInv, Held
  <2> QED BY <1>2, <1>3, <2>1, <2>2 DEF Statement
<1>6. Len(r.page) <= r.listed
  <2>1. r.stage = "list" => r.page = <<>>
    BY <1>2, <1>3 DEF Good, Shape, LoopShape, Fresh
  <2>2. Len(<<>>) = 0
    OBVIOUS
  <2> QED BY <1>2, <1>3, <2>1, <2>2, PoolAssumption DEF Good
<1>7. Good(r)
  <2>1. r.stage \in Asking \ {"probe"}
    BY <1>2, <1>3 DEF Good, Shape, Statement
  <2>2. LoopShape(r)
    <3>1. CASE r.stage = "list"
      BY <1>2, <1>3, <3>1 DEF Good, Shape, LoopShape, Fresh
    <3>2. CASE r.stage # "list"
      <4>1. SameLoop(r, req[t])
        BY <1>3, <3>2 DEF SameLoop
      <4> QED BY <1>2, <1>3, <4>1, LoopKept DEF Good, Shape
    <3> QED BY <3>1, <3>2
  <2>5. /\ r.kind # "report" => r.stage \in {"write", "ok", "error"}
        /\ r.kind = "report" => r.stage # "write"
    BY <1>2, <1>3 DEF Good, Shape
  <2>6. Shape(r)
    BY <1>3, <1>5, <2>1, <2>2, <2>5 DEF Shape
  <2> QED BY <1>3, <1>6, <2>6 DEF Good
<1> QED BY <1>2, <1>3, <1>4, <1>7, UsingStep DEF Execute

LEMMA ExecuteFailsStep == ASSUME PoolInv, NEW t \in Threads, ExecuteFails(t) PROVE PoolInv'
<1> DEFINE r == [Failed(req[t]) EXCEPT !.step = "close"]
<1>1. Good(req[t]) /\ Statement(t)
  BY DEF PoolInv, ExecuteFails
<1>2. /\ r.conn = req[t].conn /\ r.kind = req[t].kind /\ r.stage = req[t].stage /\ r.step = "close"
      /\ SameLoop(r, req[t]) /\ ~ r.ok
      /\ r.write = req[t].write /\ r \in Calls
  BY <1>1 DEF Failed, Good, Calls, SameLoop
<1>3. req' = [req EXCEPT ![t] = r] /\ UNCHANGED <<pool, leaked, auto, typeKnown, faults>>
  BY DEF ExecuteFails
<1> HIDE DEF r
<1>4. r.stage \in Asking \ {"probe"}
  BY <1>1, <1>2 DEF Good, Shape, Statement
<1>6. LoopShape(r)
  BY <1>1, <1>2, LoopKept DEF Good, Shape
<1>5. Good(r)
  BY <1>1, <1>2, <1>4, <1>6 DEF Good, Shape, SameLoop
<1> QED BY <1>1, <1>2, <1>3, <1>5, UsingStep

LEMMA ResetGood ==
  ASSUME NEW r, Good(r), r.step = "close"
  PROVE  Resting(Continue(Reset(r)))
<1> DEFINE a == Reset(r)
<1>1. /\ a.stage = r.stage /\ a.ok = r.ok /\ a.step = "close" /\ SameLoop(a, r)
      /\ a.write = IF r.write = "pending" THEN "lost" ELSE r.write
      /\ a \in Calls
  BY DEF Reset, Good, Calls, SameLoop
<1> HIDE DEF a
<1>2. a.stage \in Asking \ {"probe"}
  BY <1>1 DEF Good, Shape
<1>3. a.kind = "insert" /\ a.ok => a.write = "kept"
  BY <1>1 DEF Good, Shape, SameLoop
<1>6. LoopShape(a)
  BY <1>1, LoopKept DEF Good, Shape
<1>4. Good(a)
  BY <1>1, <1>2, <1>3, <1>6 DEF Good, Shape, SameLoop
<1>5. Resting(Continue(a))
  BY <1>2, <1>3, <1>4, ContinueGood
<1> QED BY <1>5 DEF a

LEMMA CloseStep == ASSUME PoolInv, NEW t \in Threads, Close(t) PROVE PoolInv'
<1> DEFINE r == Continue(Reset(req[t]))
<1>1. Good(req[t]) /\ req[t].step = "close" /\ Uses(t) /\ req[t].conn \in Conns
  BY DEF PoolInv, Close, Uses, Held
<1>2. Good(r) /\ r.step \notin Using /\ r.stage # "probe"
  BY <1>1, ResetGood DEF Resting
<1>3. /\ req' = [req EXCEPT ![t] = r]
      /\ pool' = pool \cup {req[t].conn}
      /\ auto' = [auto EXCEPT ![req[t].conn] = TRUE]
      /\ leaked' = leaked /\ typeKnown' = typeKnown /\ faults' = faults
  BY DEF Close
<1> HIDE DEF r
<1>4. pool' \subseteq Conns /\ auto' \in [Conns -> BOOLEAN]
  BY <1>1, <1>3 DEF PoolInv, PoolTypeOK
<1>5. /\ PoolTypeOK'
      /\ \A u \in Threads : Good(req[u])'
      /\ \A u \in Threads \ {t} : req'[u] = req[u]
      /\ req'[t] = r
  BY <1>2, <1>3, <1>4, OneRequest DEF PoolInv, PoolTypeOK
<1>6. Held'
  BY <1>1, <1>2, <1>3, <1>5, HeldWithout DEF Uses
<1>7. Probing' \subseteq Probing
  BY <1>2, <1>5, ProbingKept
<1>8. LeaksCounted'
  BY <1>3, <1>5, <1>7, CountKept
<1> QED BY <1>5, <1>6, <1>8 DEF PoolInv

LEMMA CloseFailsStep == ASSUME PoolInv, NEW t \in Threads, CloseFails(t) PROVE PoolInv'
<1> DEFINE f == [req[t] EXCEPT !.failed = TRUE]
           r == Continue(f)
<1>1. Good(req[t]) /\ req[t].stage = "chart" /\ req[t].conn \in Conns
  BY DEF PoolInv, CloseFails, Uses, Held
<1>5. /\ f.stage = "chart" /\ f.step = req[t].step /\ f.ok = req[t].ok /\ f.write = req[t].write
      /\ SameLoop(f, req[t]) /\ f \in Calls
  BY <1>1 DEF Good, Calls, SameLoop
<1>6. f.kind # "insert"
  BY <1>1, <1>5 DEF Good, Shape, SameLoop
<1> HIDE DEF f
<1>7. LoopShape(f)
  BY <1>1, <1>5, LoopKept DEF Good, Shape
<1>2. Good(f) /\ f.stage = "chart" /\ f.kind # "insert"
  BY <1>1, <1>5, <1>6, <1>7 DEF Good, Shape, SameLoop
<1>3. Good(r) /\ r.step \notin Using /\ r.stage # "probe"
  BY <1>2, ContinueGood DEF Resting
<1>4. /\ req' = [req EXCEPT ![t] = r] /\ leaked' = leaked \cup {req[t].conn}
      /\ pool' \subseteq pool /\ UNCHANGED <<auto, typeKnown>> /\ Fault
  BY DEF CloseFails, f
<1> HIDE DEF r
<1> QED BY <1>1, <1>3, <1>4, LosingStep

\* The next cell shows the picture of its status, or after a failure what the cell
\* before it shows.
LEMMA CellsExtend ==
  ASSUME NEW page \in Seq(Cells), NEW failed \in BOOLEAN, CellsRight(page, failed),
         NEW c \in Cells, c.status = Len(page) + 1, c.side = "left" <=> (Len(page) + 1) % 2 = 1,
         c.file = Len(page) + 1 \/ (failed /\ c.file = LastFile(page))
  PROVE  CellsRight(Append(page, c), failed) /\ LastFile(Append(page, c)) = c.file
<1> DEFINE q == Append(page, c)
<1>1. Len(q) = Len(page) + 1 /\ Len(page) \in Nat /\ q \in Seq(Cells)
  OBVIOUS
<1>2. q[Len(page) + 1] = c /\ \A k \in 1..Len(page) : q[k] = page[k]
  OBVIOUS
<1>3. q # <<>>
  BY <1>1, EmptySeq
<1>6. page # <<>> => Len(page) >= 1
  BY <1>1, EmptySeq
<1>7. page = <<>> => Len(page) = 0
  OBVIOUS
<1> HIDE DEF q
<1>4. LastFile(q) = c.file
  BY <1>1, <1>2, <1>3 DEF LastFile
<1>5. ASSUME NEW k \in 1..Len(q)
      PROVE  /\ q[k].status = k
             /\ q[k].side = "left" <=> k % 2 = 1
             /\ q[k].file = k \/ (failed /\ q[k].file = PictureBefore(q, k))
  <2>1. CASE k \in 1..Len(page)
    <3>1. q[k] = page[k] /\ (k # 1 => q[k - 1] = page[k - 1])
      BY <1>1, <1>2, <2>1
    <3>2. PictureBefore(q, k) = PictureBefore(page, k)
      BY <3>1 DEF PictureBefore
    <3> QED BY <2>1, <3>1, <3>2 DEF CellsRight
  <2>2. CASE k = Len(page) + 1
    <3>1. LastFile(page) = PictureBefore(q, k)
      <4>1. CASE page = <<>>
        BY <1>7, <2>2, <4>1 DEF LastFile, PictureBefore
      <4>2. CASE page # <<>>
        <5>1. k # 1 /\ k - 1 = Len(page) /\ q[k - 1] = page[Len(page)]
          BY <1>1, <1>2, <1>6, <2>2, <4>2
        <5> QED BY <4>2, <5>1 DEF LastFile, PictureBefore
      <4> QED BY <4>1, <4>2
    <3> QED BY <1>2, <2>2, <3>1
  <2> QED BY <1>1, <2>1, <2>2
<1> QED BY <1>4, <1>5 DEF CellsRight, q

\* After a cell the right one of the same row, or the next turn.
LEMMA NextCellGood ==
  ASSUME NEW a, Body(a), a.i % 2 = 0, a.file = LastFile(a.page),
         a.listed > a.i + 1 => a.map2 = a.i + 2,
         a.side = "left" => Len(a.page) = a.i + 1 /\ a.i < a.listed,
         a.side = "right" => Len(a.page) = a.i + 2 /\ a.i + 1 < a.listed
  PROVE  Resting(NextCell(a))
<1>1. a.i \in Nat /\ a.listed \in 0..MaxCells /\ MaxCells \in Nat /\ a.side \in {"left", "right"}
  BY PoolAssumption DEF Body, Calls
<1>2. CASE a.side = "left" /\ a.listed > a.i + 1
  <2>1. InTurn(a) /\ Len(a.page) = a.i + 1 /\ a.i + 1 < a.listed
    BY <1>1, <1>2 DEF InTurn
  <2>2. NextCell(a) = Cell(a, "right")
    BY <1>2 DEF NextCell
  <2> QED BY <2>1, <2>2, CellGood
<1>3. CASE ~ (a.side = "left" /\ a.listed > a.i + 1)
  <2> DEFINE r == [a EXCEPT !.i = a.i + 2]
  <2>1. a.i + 2 \in 0..(MaxCells + 1) /\ (a.i + 2) % 2 = 0
    BY <1>1, <1>3
  <2>2. /\ r.kind = "report" /\ r.i = a.i + 2 /\ r.file = a.file /\ r.page = a.page
        /\ r.listed = a.listed /\ r.failed = a.failed /\ r \in Calls
    BY <2>1 DEF Body, Calls
  <2>3. NextCell(a) = Turn(r)
    BY <1>3 DEF NextCell
  <2> HIDE DEF r
  <2>4. Body(r)
    BY <2>2 DEF Body
  <2>5. /\ r.i < r.listed => Len(r.page) = r.i
        /\ r.i >= r.listed => Len(r.page) = r.listed
    <3>1. Len(a.page) <= a.listed
      BY DEF Body
    <3> QED BY <1>1, <1>3, <2>2, <3>1
  <2> QED BY <2>1, <2>2, <2>3, <2>4, <2>5, TurnGood
<1> QED BY <1>2, <1>3

\* A report writes the cell it is at, whose picture was saved or not.
LEMMA WriteCellGood ==
  ASSUME NEW r, Body(r), r.i % 2 = 0, r.listed > r.i + 1 => r.map2 = r.i + 2,
         r.side = "left" => Len(r.page) = r.i /\ r.i < r.listed,
         r.side = "right" => Len(r.page) = r.i + 1 /\ r.i + 1 < r.listed,
         r.file = Status(r) \/ (r.failed /\ r.file = LastFile(r.page))
  PROVE  Resting(WriteCell(r))
<1> DEFINE c == [side |-> r.side, status |-> Status(r), file |-> r.file]
           a == [r EXCEPT !.page = Append(r.page, c)]
<1>1. /\ r.i \in Nat /\ r.listed \in 0..MaxCells /\ MaxCells \in Nat /\ r.side \in {"left", "right"}
      /\ r.page \in Seq(Cells) /\ r.failed \in BOOLEAN /\ r.file \in 0..MaxCells
  BY PoolAssumption DEF Body, Calls
<1>2. Len(r.page) \in Nat /\ Len(r.page) < r.listed
  BY <1>1
<1>3. Status(r) = Len(r.page) + 1
  BY <1>1 DEF Status
<1>4. c \in Cells /\ c.side = r.side /\ c.status = Len(r.page) + 1 /\ c.file = r.file
  BY <1>1, <1>2, <1>3 DEF Cells
<1>5. c.side = "left" <=> (Len(r.page) + 1) % 2 = 1
  <2>1. (r.i + 1) % 2 = 1 /\ (r.i + 2) % 2 = 0
    BY <1>1
  <2>2. CASE r.side = "left"
    BY <1>4, <2>1, <2>2
  <2>3. CASE r.side = "right"
    <3>1. Len(r.page) + 1 = r.i + 2
      BY <1>1, <2>3
    <3>2. (Len(r.page) + 1) % 2 = 0
      BY <2>1, <3>1, Zenon
    <3>3. c.side # "left"
      BY <1>4, <2>3
    <3>4. 0 # 1
      OBVIOUS
    <3> QED BY <3>2, <3>3, <3>4, Zenon
  <2> QED BY <1>1, <2>2, <2>3
<1> HIDE DEF c
<1>6. CellsRight(Append(r.page, c), r.failed) /\ LastFile(Append(r.page, c)) = r.file
  BY <1>1, <1>3, <1>4, <1>5, CellsExtend DEF Body
<1>7. Append(r.page, c) \in Seq(Cells) /\ Len(Append(r.page, c)) = Len(r.page) + 1
  BY <1>1, <1>4
<1>8. /\ a.kind = "report" /\ a.i = r.i /\ a.map2 = r.map2 /\ a.file = r.file /\ a.side = r.side
      /\ a.page = Append(r.page, c) /\ a.listed = r.listed /\ a.failed = r.failed /\ a \in Calls
  BY <1>7 DEF Body, Calls
<1>9. WriteCell(r) = NextCell(a)
  BY DEF WriteCell, c
<1> HIDE DEF a
<1>10. Body(a)
  BY <1>1, <1>2, <1>6, <1>7, <1>8 DEF Body
<1>11. /\ a.side = "left" => Len(a.page) = a.i + 1 /\ a.i < a.listed
       /\ a.side = "right" => Len(a.page) = a.i + 2 /\ a.i + 1 < a.listed
  BY <1>1, <1>7, <1>8
<1> QED BY <1>6, <1>8, <1>9, <1>10, <1>11, NextCellGood

LEMMA DrawStep == ASSUME PoolInv, NEW t \in Threads, Draw(t) PROVE PoolInv'
<1> DEFINE a == [req[t] EXCEPT !.file = Status(req[t])]
           r == WriteCell(a)
<1>1. Good(req[t]) /\ req[t].stage = "draw" /\ req[t].kind = "report"
  BY DEF PoolInv, Draw, Good, Shape, Calls
<1>2. AtCell(req[t]) /\ CellsRight(req[t].page, req[t].failed)
  BY <1>1 DEF Good, Shape, LoopShape
<1>3. Status(req[t]) \in 0..MaxCells
  BY <1>1, <1>2, PoolAssumption DEF Status, Good, Calls, AtCell
<1>4. /\ a.kind = "report" /\ a.i = req[t].i /\ a.map2 = req[t].map2 /\ a.side = req[t].side
      /\ a.page = req[t].page /\ a.listed = req[t].listed /\ a.failed = req[t].failed
      /\ a.file = Status(req[t]) /\ a \in Calls
  BY <1>1, <1>3 DEF Good, Calls
<1>5. req' = [req EXCEPT ![t] = r]
  BY DEF Draw
<1>7. /\ faults' = faults /\ faults' \in 0..MaxFaults
      /\ UNCHANGED <<pool, leaked, auto, typeKnown>>
  BY DEF Draw, PoolInv, PoolTypeOK
<1> HIDE DEF a
<1>8. Body(a) /\ a.file = Status(a)
  BY <1>1, <1>2, <1>4 DEF Body, Good, Status
<1>6. Good(r) /\ r.step \notin Using /\ r.stage # "probe"
  BY <1>2, <1>4, <1>8, WriteCellGood DEF Resting, AtCell, InTurn
<1> HIDE DEF r
<1> QED BY <1>5, <1>6, <1>7, QuietStep

LEMMA DrawFailsStep == ASSUME PoolInv, NEW t \in Threads, DrawFails(t) PROVE PoolInv'
<1> DEFINE a == [req[t] EXCEPT !.failed = TRUE]
           r == WriteCell(a)
<1>1. Good(req[t]) /\ req[t].stage = "draw" /\ req[t].kind = "report"
  BY DEF PoolInv, DrawFails, Good, Shape, Calls
<1>2. AtCell(req[t]) /\ CellsRight(req[t].page, req[t].failed)
  BY <1>1 DEF Good, Shape, LoopShape
<1>3. /\ a.kind = "report" /\ a.i = req[t].i /\ a.map2 = req[t].map2 /\ a.side = req[t].side
      /\ a.page = req[t].page /\ a.listed = req[t].listed /\ a.failed
      /\ a.file = req[t].file /\ a \in Calls
  BY <1>1 DEF Good, Calls
<1>4. /\ req' = [req EXCEPT ![t] = r]
      /\ UNCHANGED <<pool, leaked, auto, typeKnown>>
      /\ faults' = faults + 1 /\ faults' \in 0..MaxFaults
  BY FaultBounded DEF DrawFails
<1> HIDE DEF a
<1>5. CellsRight(a.page, a.failed)
  BY <1>2, <1>3 DEF CellsRight
<1>6. Body(a) /\ a.failed /\ a.file = LastFile(a.page)
  BY <1>1, <1>2, <1>3, <1>5 DEF Body, Good, AtCell, InTurn
<1>7. Good(r) /\ r.step \notin Using /\ r.stage # "probe"
  BY <1>2, <1>3, <1>6, WriteCellGood DEF Resting, AtCell, InTurn
<1> HIDE DEF r
<1> QED BY <1>4, <1>7, QuietStep

--------------------------------------------------------------------------------
(* The theorems.                                                                *)

\* The invariant holds throughout.
THEOREM PoolInvariance == PoolSpec => []PoolInv
<1>1. PoolInit => PoolInv
  BY InitPoolInv
<1>2. PoolInv /\ [PoolNext]_vars => PoolInv'
  <2> SUFFICES ASSUME PoolInv, [PoolNext]_vars PROVE PoolInv'
    OBVIOUS
  <2>1. CASE UNCHANGED vars
    BY <2>1 DEF vars, PoolInv, PoolTypeOK, Good, Shape, Held, LeaksCounted, Probing, Uses
  <2>2. ASSUME NEW t \in Threads, ThreadStep(t) PROVE PoolInv'
    BY <2>2, AcceptStep, CheckTypeStep, BorrowStep, BorrowFailsStep, SwitchFailsStep,
       ProbeStep, ProbeFailsStep, ExecuteStep, ExecuteFailsStep, CloseStep,
       CloseFailsStep, DrawStep, DrawFailsStep
       DEF ThreadStep, Work, Trouble
  <2> QED BY <2>1, <2>2 DEF PoolNext
<1> QED BY <1>1, <1>2, PTL DEF PoolSpec

\* Whatever the number of threads, connections and failures: a connection is lost
\* to the race for the name of the product once per thread, and once per failure.
THEOREM LeaksAlwaysBounded == PoolSpec => []LeaksBounded
<1>1. PoolInv => LeaksBounded
  <2> SUFFICES ASSUME PoolInv PROVE LeaksBounded
    OBVIOUS
  <2>1. /\ Cardinality(leaked) \in Nat /\ Cardinality(Probing) \in Nat
        /\ Cardinality(Threads) \in Nat
    BY Counts DEF PoolInv
  <2>2. faults \in Nat
    BY PoolAssumption DEF PoolInv, PoolTypeOK
  <2> QED BY <2>1, <2>2 DEF PoolInv, LeaksCounted, LeaksBounded
<1> QED BY <1>1, PoolInvariance, PTL

\* Whatever the number of statuses and whichever pictures fail: the page of a report
\* that is answered has a cell for each status, in order, two in a row, and each shows
\* its own picture or, after a failure, that of the cell before it.
THEOREM PageAlwaysComplete == PoolSpec => []PageIsComplete
<1>1. PoolInv => PageIsComplete
  <2> SUFFICES ASSUME PoolInv, NEW t \in Threads, req[t].kind = "report", req[t].stage = "ok"
               PROVE  /\ Len(req[t].page) = req[t].listed
                      /\ CellsRight(req[t].page, req[t].failed)
    BY DEF PageIsComplete, CellsRight
  <2> QED BY DEF PoolInv, Good, Shape, LoopShape
<1> QED BY <1>1, PoolInvariance, PTL

\* An insert answered without an error is committed, on whatever connection.
THEOREM InsertAlwaysKept == PoolSpec => []InsertKept
<1>1. PoolInv => InsertKept
  BY DEF PoolInv, InsertKept, Kept, Good, Shape
<1> QED BY <1>1, PoolInvariance, PTL

\* Type correctness.
THEOREM PoolTypeCorrect == PoolSpec => []PoolTypeOK
<1>1. PoolInv => PoolTypeOK
  BY DEF PoolInv
<1> QED BY <1>1, PoolInvariance, PTL
================================================================================
