---------------------------- MODULE MenuAdmin_proofs ----------------------------
(* Proofs about MenuAdmin, for any number of administrators and entries.            *)
EXTENDS MenuAdmin, FiniteSetTheorems, TLAPS

(* The rows and the tree.                                                           *)

\* The rows of a query are the active entries, each of them once.
LEMMA RowsAreActive ==
  ASSUME MenuTypeOK, NEW rows \in Query
  PROVE  /\ rows \in [1..Cardinality(Active) -> Active]
         /\ Cardinality(Active) \in Nat
         /\ \A i \in Active : \E m \in 1..Cardinality(Active) : rows[m] = i
<1> DEFINE D == 1..Cardinality(Active)
<1>1. IsFiniteSet(Active)
  <2>1. last \in Nat
    BY MenuAssumption DEF MenuTypeOK
  <2>2. IsFiniteSet(1..last)
    BY <2>1, FS_Interval
  <2>3. Active \subseteq 1..last
    BY DEF Active, Existing
  <2> QED  BY <2>2, <2>3, FS_Subset
<1>2. Cardinality(Active) \in Nat
  BY <1>1, FS_CardinalityType
<1>3. Cardinality(D) = Cardinality(Active)
  BY <1>2, FS_Interval
<1>4. rows \in [D -> Active] /\ \A i, j \in D : i # j => rows[i] # rows[j]
  BY DEF Query, SetToSeqs
<1>5. rows \in Injection(D, Active)
  BY <1>4 DEF Injection, IsInjective
<1>6. rows \in Surjection(D, Active)
  BY <1>1, <1>3, <1>5, FS_Injection
<1> QED  BY <1>2, <1>4, <1>6 DEF Surjection

\* The sort puts a root before the entries under it, so that one pass is enough.
LEMMA TreeOfTypes == MenuTypeOK => TreeIsComplete
<1> SUFFICES ASSUME MenuTypeOK, NEW rows \in Query
             PROVE  getMenuTree(rows) = {[id |-> i, parent |-> parent[i]] : i \in Visible}
  BY DEF TreeIsComplete
<1> DEFINE D == 1..Cardinality(Active)
<1>1. /\ rows \in [D -> Active] /\ DOMAIN rows = D /\ Cardinality(Active) \in Nat
      /\ \A i \in Active : \E m \in D : rows[m] = i
  BY RowsAreActive
<1>2. \A i \in Active : parent[i] \in Nat
  BY MenuAssumption DEF MenuTypeOK, Active, Existing, Ids
<1>3. \A m, n \in D : m < n => parent[rows[m]] <= parent[rows[n]]
  BY <1>1 DEF Query
<1>4. ASSUME NEW m \in D  PROVE Placed(rows, m) <=> rows[m] \in Visible
  <2>1. rows[m] \in Active
    BY <1>1
  <2>2. ASSUME NEW k \in 1..(m - 1), parent[rows[k]] = 0, rows[k] = parent[rows[m]]
        PROVE  rows[m] \in Visible
    <3>1. k \in D
      BY <1>1
    <3>2. rows[k] \in Active
      BY <1>1, <3>1
    <3> QED  BY <2>1, <2>2, <3>2 DEF Visible
  <2>3. ASSUME parent[rows[m]] \in Active, parent[parent[rows[m]]] = 0, parent[rows[m]] # 0
        PROVE  \E k \in 1..(m - 1) : parent[rows[k]] = 0 /\ rows[k] = parent[rows[m]]
    <3>1. PICK k \in D : rows[k] = parent[rows[m]]
      BY <1>1, <2>3
    <3>2. parent[rows[k]] = 0
      BY <2>3, <3>1
    <3>3. parent[rows[m]] > 0
      BY <1>2, <2>1, <2>3
    <3>4. ~ m < k
      <4>1. m < k => parent[rows[m]] <= 0
        BY <1>3, <3>2
      <4> QED  BY <1>2, <2>1, <3>3, <4>1
    <3>5. m # k
      BY <3>2, <3>3
    <3>6. k \in 1..(m - 1)
      BY <3>4, <3>5, <1>1
    <3> QED  BY <3>1, <3>2, <3>6
  <2> QED  BY <2>1, <2>2, <2>3 DEF Placed, Visible
<1>5. \A i \in Visible : \E m \in D : rows[m] = i
  BY <1>1 DEF Visible
<1> QED  BY <1>1, <1>4, <1>5 DEF getMenuTree

--------------------------------------------------------------------------------
(* The invariant.                                                                   *)

\* Only ids that were given out are parents of entries, or on a page.
IdsExist ==
  /\ \A i \in Existing : parent[i] \in 0..last
  /\ \A a \in Admins : \A e \in page[a].tree : e.id \in Existing

MenuInv == MenuTypeOK /\ IdsExist

\* What a page shows when it is made is visible at that moment.
LEMMA LoadedIsVisible ==
  ASSUME MenuInv, NEW rows \in Query
  PROVE  /\ getMenuTree(rows) \subseteq Entries
         /\ \A e \in getMenuTree(rows) : e.id \in Visible
<1>1. getMenuTree(rows) = {[id |-> i, parent |-> parent[i]] : i \in Visible}
  BY TreeOfTypes DEF TreeIsComplete, MenuInv
<1>2. ASSUME NEW i \in Visible  PROVE  i \in Ids /\ parent[i] \in 0..MaxId
  BY <1>2, MenuAssumption DEF Visible, Active, Existing, Ids, MenuInv, MenuTypeOK
<1>3. ASSUME NEW i \in Visible  PROVE  [id |-> i, parent |-> parent[i]] \in Entries
  BY <1>2, <1>3 DEF Entries
<1> QED  BY <1>1, <1>3

\* What the form of a page offers as parents has been given out.
LEMMA ParentsExist ==
  ASSUME MenuInv, NEW a \in Admins
  PROVE  /\ Parents(a) \subseteq 0..last
         /\ \A e \in page[a].tree : e.id \in Existing /\ e.id \in Ids
<1>1. \A e \in page[a].tree : e.id \in Existing
  BY DEF MenuInv, IdsExist
<1>2. last \in Nat /\ last <= MaxId
  BY MenuAssumption DEF MenuInv, MenuTypeOK
<1>3. Existing \subseteq Ids /\ Existing \subseteq 0..last
  BY <1>2, MenuAssumption DEF Existing, Ids
<1>4. ASSUME NEW f \in Parents(a)  PROVE f \in 0..last
  <2>1. f = 0 \/ \E e \in page[a].tree : f = e.id
    BY <1>4 DEF Parents
  <2>2. CASE f = 0
    BY <2>2, <1>2
  <2>3. ASSUME NEW e \in page[a].tree, f = e.id  PROVE f \in 0..last
    BY <2>3, <1>1, <1>3
  <2> QED  BY <2>1, <2>2, <2>3
<1> QED  BY <1>1, <1>3, <1>4

\* The invariant holds at the start.
LEMMA MenuStarts == MenuInit => MenuInv
<1> SUFFICES ASSUME MenuInit PROVE MenuInv
  OBVIOUS
<1>1. MenuTypeOK
  <2>4. 0 \in 0..MaxId
    BY MenuAssumption
  <2>6. last = 0
    BY DEF MenuInit
  <2>7. t_menu \in BOOLEAN
    BY DEF MenuInit
  <2>1. t_menu \in BOOLEAN /\ last \in 0..MaxId /\ ~ last > 0
    BY <2>4, <2>6, <2>7
  <2>5. parent \in [Ids -> 0..MaxId] /\ status \in [Ids -> {0, 1}]
    BY <2>4 DEF MenuInit
  <2>2. NoPage \in [step : {"closed", "loading", "shown"}, tree : SUBSET Entries]
    BY DEF NoPage
  <2>3. page \in [Admins -> [step : {"closed", "loading", "shown"}, tree : SUBSET Entries]]
    BY <2>2 DEF MenuInit
  <2> QED  BY <2>1, <2>3, <2>5 DEF MenuTypeOK
<1>2. IdsExist
  BY DEF MenuInit, IdsExist, NoPage, Existing
<1> QED  BY <1>1, <1>2 DEF MenuInv

\* A page becomes one that shows the entries E, or none.
LEMMA PageStep ==
  ASSUME MenuInv, NEW a \in Admins, NEW p, page' = [page EXCEPT ![a] = p],
         p.step \in {"closed", "loading", "shown"}, p = [step |-> p.step, tree |-> p.tree],
         p.tree \subseteq Entries, \A e \in p.tree : e.id \in Existing
  PROVE  /\ page' \in [Admins -> [step : {"closed", "loading", "shown"},
                                  tree : SUBSET Entries]]
         /\ \A b \in Admins : \A e \in page'[b].tree : e.id \in Existing
<1>1. page \in [Admins -> [step : {"closed", "loading", "shown"}, tree : SUBSET Entries]]
  BY DEF MenuInv, MenuTypeOK
<1>2. p \in [step : {"closed", "loading", "shown"}, tree : SUBSET Entries]
  OBVIOUS
<1>3. \A b \in Admins : page'[b] = IF b = a THEN p ELSE page[b]
  BY <1>1
<1>4. page' \in [Admins -> [step : {"closed", "loading", "shown"}, tree : SUBSET Entries]]
  BY <1>1, <1>2
<1>5. \A b \in Admins : \A e \in page'[b].tree : e.id \in Existing
  BY <1>3 DEF MenuInv, IdsExist
<1> QED  BY <1>4, <1>5

\* The pages without entries are such pages.
LEMMA EmptyPages ==
  \A p \in {NoPage, Loading, Showing({})} :
    /\ p.step \in {"closed", "loading", "shown"}
    /\ p = [step |-> p.step, tree |-> p.tree]
    /\ p.tree = {}
BY DEF NoPage, Loading, Showing

\* A step that changes a page only keeps the invariant.
LEMMA OnlyPages ==
  ASSUME MenuInv, UNCHANGED <<last, parent, status>>, t_menu' \in BOOLEAN, t_menu => t_menu',
         page' \in [Admins -> [step : {"closed", "loading", "shown"}, tree : SUBSET Entries]],
         \A b \in Admins : \A e \in page'[b].tree : e.id \in Existing
  PROVE  MenuInv'
BY DEF MenuInv, MenuTypeOK, IdsExist, Existing

\* Every step keeps the invariant.
LEMMA MenuKeeps == MenuInv /\ [MenuNext]_mvars => MenuInv'
<1> SUFFICES ASSUME MenuInv, [MenuNext]_mvars  PROVE MenuInv'
  OBVIOUS
<1>t. /\ t_menu \in BOOLEAN /\ last \in 0..MaxId /\ MaxId \in Nat
      /\ parent \in [Ids -> 0..MaxId] /\ status \in [Ids -> {0, 1}]
      /\ last > 0 => t_menu
  BY MenuAssumption DEF MenuInv, MenuTypeOK
<1>e. \A i \in Existing : parent[i] \in 0..last
  BY DEF MenuInv, IdsExist
<1>1. ASSUME NEW a \in Admins, Open(a)  PROVE MenuInv'
  BY <1>1, <1>t, EmptyPages, PageStep, OnlyPages DEF Open
<1>2. ASSUME NEW a \in Admins, menuList(a)  PROVE MenuInv'
  <2>1. PICK rows \in Query : page' = [page EXCEPT ![a] = Showing(getMenuTree(rows))]
    BY <1>2 DEF menuList
  <2>2. /\ getMenuTree(rows) \subseteq Entries
        /\ \A e \in getMenuTree(rows) : e.id \in Existing
    BY LoadedIsVisible DEF Visible, Active
  <2>3. /\ Showing(getMenuTree(rows)).step \in {"closed", "loading", "shown"}
        /\ Showing(getMenuTree(rows)).tree = getMenuTree(rows)
        /\ Showing(getMenuTree(rows)) = [step |-> Showing(getMenuTree(rows)).step,
                                         tree |-> Showing(getMenuTree(rows)).tree]
    BY DEF Showing
  <2>4. /\ page' \in [Admins -> [step : {"closed", "loading", "shown"}, tree : SUBSET Entries]]
        /\ \A b \in Admins : \A e \in page'[b].tree : e.id \in Existing
    BY <2>1, <2>2, <2>3, PageStep
  <2> QED  BY <1>2, <1>t, <2>4, OnlyPages DEF menuList
<1>3. ASSUME NEW a \in Admins, menuListFails(a)  PROVE MenuInv'
  BY <1>3, <1>t, EmptyPages, PageStep, OnlyPages DEF menuListFails
<1>4. ASSUME NEW a \in Admins, add(a)  PROVE MenuInv'
  <2>1. PICK f \in Parents(a) : parent' = [parent EXCEPT ![last + 1] = f]
    BY <1>4 DEF add
  <2>2. f \in 0..last
    BY ParentsExist
  <2>3. /\ t_menu' = TRUE /\ last' = last + 1 /\ last < MaxId
        /\ status' = [status EXCEPT ![last + 1] = 1]
        /\ page' = [page EXCEPT ![a] = Loading]
    BY <1>4 DEF add
  <2>4. /\ page' \in [Admins -> [step : {"closed", "loading", "shown"}, tree : SUBSET Entries]]
        /\ \A b \in Admins : \A e \in page'[b].tree : e.id \in Existing
    BY <2>3, EmptyPages, PageStep
  <2>5. MenuTypeOK'
    BY <1>t, <2>1, <2>2, <2>3, <2>4 DEF MenuTypeOK, Ids
  <2>6. \A i \in Existing' : parent'[i] \in 0..last'
    <3> TAKE i \in Existing'
    <3>1. i \in 1..(last + 1) /\ i \in Ids
      BY <1>t, <2>3 DEF Existing, Ids
    <3>2. CASE i = last + 1
      BY <1>t, <2>1, <2>2, <2>3, <3>1, <3>2
    <3>3. CASE i # last + 1
      BY <1>t, <1>e, <2>1, <2>3, <3>1, <3>3 DEF Existing
    <3> QED  BY <3>2, <3>3
  <2>7. Existing \subseteq Existing'
    BY <1>t, <2>3 DEF Existing
  <2> QED  BY <2>4, <2>5, <2>6, <2>7 DEF MenuInv, IdsExist
<1>5. ASSUME NEW a \in Admins, update(a)  PROVE MenuInv'
  <2>1. PICK e \in page[a].tree, f \in Parents(a) : parent' = [parent EXCEPT ![e.id] = f]
    BY <1>5 DEF update
  <2>2. f \in 0..last /\ e.id \in Existing /\ e.id \in Ids
    BY ParentsExist
  <2>3. page' = [page EXCEPT ![a] = Loading] /\ UNCHANGED <<t_menu, last, status>>
    BY <1>5 DEF update
  <2>4. /\ page' \in [Admins -> [step : {"closed", "loading", "shown"}, tree : SUBSET Entries]]
        /\ \A b \in Admins : \A x \in page'[b].tree : x.id \in Existing
    BY <2>3, EmptyPages, PageStep
  <2>5. MenuTypeOK'
    BY <1>t, <2>1, <2>2, <2>3, <2>4 DEF MenuTypeOK
  <2>6. \A i \in Existing : parent'[i] \in 0..last
    BY <1>t, <1>e, <2>1, <2>2 DEF Existing, Ids
  <2> QED  BY <2>3, <2>4, <2>5, <2>6 DEF MenuInv, IdsExist, Existing
<1>6. ASSUME NEW a \in Admins, del(a)  PROVE MenuInv'
  <2>1. PICK e \in page[a].tree : status' = [status EXCEPT ![e.id] = 0]
    BY <1>6 DEF del
  <2>2. page' = [page EXCEPT ![a] = Loading] /\ UNCHANGED <<t_menu, last, parent>>
    BY <1>6 DEF del
  <2>3. /\ page' \in [Admins -> [step : {"closed", "loading", "shown"}, tree : SUBSET Entries]]
        /\ \A b \in Admins : \A x \in page'[b].tree : x.id \in Existing
    BY <2>2, EmptyPages, PageStep
  <2>4. MenuTypeOK'
    BY <1>t, <2>1, <2>2, <2>3 DEF MenuTypeOK
  <2> QED  BY <1>e, <2>2, <2>3, <2>4 DEF MenuInv, IdsExist, Existing
<1>7. ASSUME NEW a \in Admins, saveFails(a)  PROVE MenuInv'
  <2>1. t_menu' \in BOOLEAN /\ (t_menu => t_menu')
    BY <1>7, <1>t DEF saveFails
  <2> QED  BY <1>7, <2>1, EmptyPages, PageStep, OnlyPages DEF saveFails
<1>8. CASE UNCHANGED mvars
  BY <1>8 DEF mvars, MenuInv, MenuTypeOK, IdsExist, Existing
<1> QED  BY <1>1, <1>2, <1>3, <1>4, <1>5, <1>6, <1>7, <1>8 DEF MenuNext

LEMMA MenuAlways == MenuSpec => []MenuInv
BY MenuStarts, MenuKeeps, PTL DEF MenuSpec

\* The types of the menu's columns and of the pages, and that no row is there before
\* the table (MenuDao.add).
THEOREM MenuTypeCorrect == MenuSpec => []MenuTypeOK
<1>1. MenuInv => MenuTypeOK
  BY DEF MenuInv
<1> QED  BY <1>1, MenuAlways, PTL

\* getMenuTree shows every active entry that has an active root, in whatever order
\* the query returns equal rows (MenuServiceImpl.getMenuTree, the sort of MenuDao.query).
THEOREM TreeAlwaysComplete == MenuSpec => []TreeIsComplete
BY MenuTypeCorrect, TreeOfTypes, PTL

--------------------------------------------------------------------------------
(* What is buried.                                                                  *)

\* A set of active entries that no page shows, each with a parent that is deleted or
\* in the set.
Burial(B) == B \subseteq Active \ Shown /\ Closed(B)

LEMMA BuriedIsBurial == \A i : i \in Buried <=> \E B : i \in B /\ Burial(B)
BY DEF Buried, Burial

\* No entry of such a set is visible.
LEMMA BurialUnseen ==
  ASSUME MenuInv, NEW B, Burial(B)  PROVE B \cap Visible = {}
<1> SUFFICES ASSUME NEW i \in B, i \in Visible  PROVE FALSE
  OBVIOUS
<1>1. parent[i] # 0 /\ (status[parent[i]] = 0 \/ parent[i] \in B)
  BY DEF Burial, Closed
<1>2. parent[i] \in Active /\ parent[parent[i]] = 0
  BY <1>1 DEF Visible
<1>3. parent[i] \in B
  BY <1>1, <1>2 DEF Active
<1> QED  BY <1>2, <1>3 DEF Burial, Closed

\* A step of one page that leaves the entries alone keeps the set, if the page does
\* not come to show one of its entries.
LEMMA BurialOfPages ==
  ASSUME MenuInv, NEW B, Burial(B), UNCHANGED <<last, parent, status>>,
         NEW a \in Admins, NEW p, page' = [page EXCEPT ![a] = p],
         \A e \in p.tree : e.id \notin B
  PROVE  Burial(B)'
<1>1. page \in [Admins -> [step : {"closed", "loading", "shown"}, tree : SUBSET Entries]]
  BY DEF MenuInv, MenuTypeOK
<1>2. ASSUME NEW i \in B  PROVE i \notin Shown'
  BY <1>1 DEF Shown, Burial
<1> QED  BY <1>2 DEF Burial, Closed, Active, Existing

\* Pages only lose entries, and entries and their parents change outside the set.
LEMMA BurialOfSaves ==
  ASSUME MenuInv, NEW B, Burial(B), NEW a \in Admins, page' = [page EXCEPT ![a] = Loading],
         last' \in Nat, last <= last',
         \A i \in B : parent'[i] = parent[i] /\ status'[i] = status[i],
         \A i \in B : status[parent[i]] = 0 => status'[parent[i]] = 0
  PROVE  Burial(B)'
<1>1. page \in [Admins -> [step : {"closed", "loading", "shown"}, tree : SUBSET Entries]]
  BY DEF MenuInv, MenuTypeOK
<1>2. Shown' \subseteq Shown
  BY <1>1 DEF Shown, Loading
<1>3. last \in Nat
  BY MenuAssumption DEF MenuInv, MenuTypeOK
<1>4. B \subseteq Active'
  BY <1>3 DEF Burial, Active, Existing
<1>5. Closed(B)'
  BY DEF Burial, Closed
<1> QED  BY <1>2, <1>4, <1>5 DEF Burial

\* Every step keeps the set.
LEMMA BurialKeeps ==
  ASSUME MenuInv, [MenuNext]_mvars, NEW B, Burial(B)  PROVE Burial(B)'
<1>t. last \in Nat /\ parent \in [Ids -> 0..MaxId] /\ status \in [Ids -> {0, 1}]
  BY MenuAssumption DEF MenuInv, MenuTypeOK
<1>b. /\ \A i \in B : i \in Existing /\ status[i] = 1 /\ i \notin Shown
      /\ \A i \in B : parent[i] # 0 /\ (status[parent[i]] = 0 \/ parent[i] \in B)
  BY DEF Burial, Closed, Active
<1>e. \A i \in Existing : parent[i] \in 0..last
  BY DEF MenuInv, IdsExist
<1>i. \A i \in B : i \in Ids /\ parent[i] \in Ids
  <2> SUFFICES ASSUME NEW i \in B  PROVE i \in Ids /\ parent[i] \in Ids
    OBVIOUS
  <2>1. i \in Existing /\ parent[i] \in 0..last /\ parent[i] # 0
    BY <1>b, <1>e
  <2>2. last \in 0..MaxId
    BY DEF MenuInv, MenuTypeOK
  <2> QED  BY <2>1, <2>2, MenuAssumption DEF Existing, Ids
<1>1. ASSUME NEW a \in Admins, Open(a) \/ menuListFails(a) \/ saveFails(a)
      PROVE Burial(B)'
  <2>1. \E p \in {NoPage, Loading, Showing({})} : page' = [page EXCEPT ![a] = p]
    BY <1>1 DEF Open, menuListFails, saveFails
  <2>2. UNCHANGED <<last, parent, status>>
    BY <1>1 DEF Open, menuListFails, saveFails
  <2> QED  BY <2>1, <2>2, EmptyPages, BurialOfPages
<1>2. ASSUME NEW a \in Admins, menuList(a)  PROVE Burial(B)'
  <2>1. PICK rows \in Query : page' = [page EXCEPT ![a] = Showing(getMenuTree(rows))]
    BY <1>2 DEF menuList
  <2>2. \A e \in Showing(getMenuTree(rows)).tree : e.id \notin B
    BY LoadedIsVisible, BurialUnseen DEF Showing
  <2>3. UNCHANGED <<last, parent, status>>
    BY <1>2 DEF menuList
  <2> QED  BY <2>1, <2>2, <2>3, BurialOfPages
<1>3. ASSUME NEW a \in Admins, add(a)  PROVE Burial(B)'
  <2>1. PICK f \in Parents(a) : parent' = [parent EXCEPT ![last + 1] = f]
    BY <1>3 DEF add
  <2>2. /\ last' = last + 1 /\ status' = [status EXCEPT ![last + 1] = 1]
        /\ page' = [page EXCEPT ![a] = Loading]
    BY <1>3 DEF add
  <2>3. \A i \in B : i # last + 1 /\ parent[i] # last + 1
    BY <1>t, <1>b, <1>e DEF Existing
  <2>4. \A i \in B : parent'[i] = parent[i] /\ status'[i] = status[i]
    BY <1>t, <2>1, <2>2, <2>3
  <2>5. \A i \in B : status[parent[i]] = 0 => status'[parent[i]] = 0
    BY <1>t, <2>2, <2>3
  <2>6. last' \in Nat /\ last <= last'
    BY <1>t, <2>2
  <2> QED  BY <2>2, <2>4, <2>5, <2>6, BurialOfSaves
<1>4. ASSUME NEW a \in Admins, update(a)  PROVE Burial(B)'
  <2>1. PICK e \in page[a].tree, f \in Parents(a) : parent' = [parent EXCEPT ![e.id] = f]
    BY <1>4 DEF update
  <2>2. page' = [page EXCEPT ![a] = Loading] /\ UNCHANGED <<last, status>>
    BY <1>4 DEF update
  <2>3. e.id \notin B
    BY <1>b DEF Shown
  <2>4. \A i \in B : parent'[i] = parent[i]
    BY <1>t, <1>i, <2>1, <2>3
  <2>5. \A i \in B : status'[i] = status[i]
    BY <2>2
  <2>6. \A i \in B : status[parent[i]] = 0 => status'[parent[i]] = 0
    BY <2>2
  <2>7. last' \in Nat /\ last <= last'
    BY <1>t, <2>2
  <2> QED  BY <2>2, <2>4, <2>5, <2>6, <2>7, BurialOfSaves
<1>5. ASSUME NEW a \in Admins, del(a)  PROVE Burial(B)'
  <2>1. PICK e \in page[a].tree : status' = [status EXCEPT ![e.id] = 0]
    BY <1>5 DEF del
  <2>2. page' = [page EXCEPT ![a] = Loading] /\ UNCHANGED <<last, parent>>
    BY <1>5 DEF del
  <2>3. e.id \notin B
    BY <1>b DEF Shown
  <2>4. \A i \in B : status'[i] = status[i]
    BY <1>t, <1>i, <2>1, <2>3
  <2>5. \A i \in B : status[parent[i]] = 0 => status'[parent[i]] = 0
    <3> SUFFICES ASSUME NEW i \in B, status[parent[i]] = 0  PROVE status'[parent[i]] = 0
      OBVIOUS
    <3>1. parent[i] \in Ids
      BY <1>b, <1>i
    <3>2. CASE parent[i] = e.id
      BY <1>t, <2>1, <3>1, <3>2
    <3>3. CASE parent[i] # e.id
      BY <1>t, <2>1, <3>1, <3>3
    <3> QED  BY <3>2, <3>3
  <2>6. \A i \in B : parent'[i] = parent[i]
    BY <2>2
  <2>7. last' \in Nat /\ last <= last'
    BY <1>t, <2>2
  <2> QED  BY <2>2, <2>4, <2>5, <2>6, <2>7, BurialOfSaves
<1>6. CASE UNCHANGED mvars
  BY <1>6 DEF mvars, Burial, Closed, Active, Existing, Shown
<1> QED  BY <1>1, <1>2, <1>3, <1>4, <1>5, <1>6 DEF MenuNext

\* What no administrator can reach any more stays out of every menu for ever
\* (MenuDao, MenuServiceImpl.getMenuTree and the choices of menuList.jsp), for any
\* number of administrators with pages of any age.
THEOREM BuriedAlwaysStay == MenuSpec => BuriedStay
<1>1. MenuInv /\ [MenuNext]_mvars => Buried \subseteq Buried'
  <2> SUFFICES ASSUME MenuInv, [MenuNext]_mvars, NEW i \in Buried
               PROVE  i \in Buried'
    OBVIOUS
  <2>1. PICK B : i \in B /\ Burial(B)
    BY BuriedIsBurial DEF Burial
  <2>2. Burial(B)'
    BY <2>1, BurialKeeps
  <2> QED  BY <2>1, <2>2 DEF Buried, Burial
<1>2. MenuInv /\ [MenuNext]_mvars => [Buried \subseteq Buried']_mvars
  BY <1>1
<1> QED  BY <1>2, MenuAlways, PTL DEF MenuSpec, BuriedStay

--------------------------------------------------------------------------------
(* What is deleted.                                                                 *)

\* What DeletedStay says of one step.
DeletedKept ==
  \A i \in Existing : status[i] = 0 =>
    /\ status'[i] = 0
    /\ \A a \in Admins : (\E e \in page'[a].tree : e.id = i) => page'[a] = page[a]

\* A page that shows nothing deleted takes the place of the page of a.
LEMMA DeletedOfPages ==
  ASSUME MenuInv, NEW a \in Admins, NEW p, page' = [page EXCEPT ![a] = p],
         \A e \in p.tree : status[e.id] # 0,
         \A i \in Existing : status[i] = 0 => status'[i] = 0
  PROVE  DeletedKept
<1>1. page \in [Admins -> [step : {"closed", "loading", "shown"}, tree : SUBSET Entries]]
  BY DEF MenuInv, MenuTypeOK
<1>2. \A b \in Admins : page'[b] = IF b = a THEN p ELSE page[b]
  BY <1>1
<1> QED  BY <1>2 DEF DeletedKept

LEMMA DeletedKeeps == MenuInv /\ [MenuNext]_mvars => DeletedKept
<1> SUFFICES ASSUME MenuInv, [MenuNext]_mvars  PROVE DeletedKept
  OBVIOUS
<1>t. /\ last \in 0..MaxId /\ MaxId \in Nat /\ status \in [Ids -> {0, 1}]
  BY MenuAssumption DEF MenuInv, MenuTypeOK
<1>e. Existing \subseteq Ids
  BY <1>t DEF Existing, Ids
<1>l. \A e \in Loading.tree : status[e.id] # 0
  BY DEF Loading
<1>1. ASSUME NEW a \in Admins, Open(a) \/ menuListFails(a) \/ saveFails(a)
      PROVE DeletedKept
  <2>1. \E p \in {NoPage, Loading, Showing({})} : page' = [page EXCEPT ![a] = p]
    BY <1>1 DEF Open, menuListFails, saveFails
  <2>2. status' = status
    BY <1>1 DEF Open, menuListFails, saveFails
  <2> QED  BY <2>1, <2>2, EmptyPages, DeletedOfPages
<1>2. ASSUME NEW a \in Admins, menuList(a)  PROVE DeletedKept
  <2>1. PICK rows \in Query : page' = [page EXCEPT ![a] = Showing(getMenuTree(rows))]
    BY <1>2 DEF menuList
  <2>2. \A e \in Showing(getMenuTree(rows)).tree : status[e.id] # 0
    BY LoadedIsVisible DEF Showing, Visible, Active
  <2>3. status' = status
    BY <1>2 DEF menuList
  <2> QED  BY <2>1, <2>2, <2>3, DeletedOfPages
<1>3. ASSUME NEW a \in Admins, add(a)  PROVE DeletedKept
  <2>1. /\ page' = [page EXCEPT ![a] = Loading]
        /\ status' = [status EXCEPT ![last + 1] = 1]
    BY <1>3 DEF add
  <2>2. \A i \in Existing : i # last + 1
    BY <1>t DEF Existing
  <2>3. \A i \in Existing : status[i] = 0 => status'[i] = 0
    BY <1>t, <1>e, <2>1, <2>2
  <2> QED  BY <1>l, <2>1, <2>3, DeletedOfPages
<1>4. ASSUME NEW a \in Admins, update(a)  PROVE DeletedKept
  <2>1. page' = [page EXCEPT ![a] = Loading] /\ status' = status
    BY <1>4 DEF update
  <2> QED  BY <1>l, <2>1, DeletedOfPages
<1>5. ASSUME NEW a \in Admins, del(a)  PROVE DeletedKept
  <2>1. PICK x \in page[a].tree : status' = [status EXCEPT ![x.id] = 0]
    BY <1>5 DEF del
  <2>2. page' = [page EXCEPT ![a] = Loading]
    BY <1>5 DEF del
  <2>3. \A i \in Existing : status[i] = 0 => status'[i] = 0
    BY <1>t, <1>e, <2>1
  <2> QED  BY <1>l, <2>2, <2>3, DeletedOfPages
<1>6. CASE UNCHANGED mvars
  BY <1>6 DEF mvars, DeletedKept
<1> QED  BY <1>1, <1>2, <1>3, <1>4, <1>5, <1>6 DEF MenuNext

\* A deleted entry stays deleted and appears on no page made afterwards, for any
\* number of administrators (MenuDao.update and query).
THEOREM DeletedAlwaysStay == MenuSpec => DeletedStay
<1>1. MenuInv /\ [MenuNext]_mvars => [DeletedKept]_mvars
  BY DeletedKeeps
<1> QED  BY <1>1, MenuAlways, PTL DEF MenuSpec, DeletedStay, DeletedKept

\* What was deleted and what is out of reach stays so, for any number of administrators
\* with pages of any age (MenuDao, menuList.jsp).
THEOREM GoneAlwaysStay == MenuSpec => GoneStay
BY BuriedAlwaysStay, DeletedAlwaysStay DEF GoneStay

================================================================================
