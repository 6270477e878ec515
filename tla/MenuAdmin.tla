------------------------------- MODULE MenuAdmin --------------------------------
(* The menu (MenuController, MenuServiceImpl, MenuDao, menuList.jsp) and the       *)
(* administrators that change it.  A request saves its change and then, with a     *)
(* query of its own, makes the page it answers with; the next request is made from *)
(* that page, whatever others have changed since.                                  *)
(*                                                                                 *)
(* An entry is its id and its parent; names, links and hosts are overwritten with  *)
(* the parent and not told apart.  The order among entries of one parent is free.  *)
EXTENDS Naturals, SequencesExt

CONSTANTS
  Admins,   \* administrators, each with one page open
  MaxId     \* bound: entries ever added

ASSUME MenuAssumption == MaxId \in Nat

VARIABLES
  t_menu,   \* the table exists
  last,     \* the last id the identity column gave out
  parent,   \* parent[i]: column f_id of entry i, 0 at the top
  status,   \* status[i]: column status of entry i, 0 once deleted
  page      \* page[a]: the page of a: a step of a request, or the entries it shows

mvars == <<t_menu, last, parent, status, page>>

Ids == 1..MaxId
Entries == [id : Ids, parent : 0..MaxId]
Existing == 1..last
\* Mutant of Active: the deleted entries as well.
ActiveAll == Existing
Active == {i \in Existing : status[i] = 1}

\* A page that shows the entries E, and the absence of one.
Showing(E) == [step |-> "shown", tree |-> E]
NoPage == [step |-> "closed", tree |-> {}]
Loading == [step |-> "loading", tree |-> {}]

MenuTypeOK ==
  /\ t_menu \in BOOLEAN
  /\ last \in 0..MaxId
  /\ parent \in [Ids -> 0..MaxId]
  /\ status \in [Ids -> {0, 1}]
  /\ page \in [Admins -> [step : {"closed", "loading", "shown"}, tree : SUBSET Entries]]
  /\ last > 0 => t_menu

--------------------------------------------------------------------------------
(* The tree.                                                                       *)

\* Mutant of Query: the rows come in the order of their ids.
QueryById == {[n \in 1..Cardinality(Active) |->
                 CHOOSE i \in Active : Cardinality({j \in Active : j <= i}) = n]}

\* The rows of the query, sorted by the parent's id.
Query ==
  {rows \in SetToSeqs(Active) :
     \A m, n \in DOMAIN rows : m < n => parent[rows[m]] <= parent[rows[n]]}

\* Row m finds its place: it is a root, or its root is one of the rows before it.
Placed(rows, m) ==
  \/ parent[rows[m]] = 0
  \/ \E k \in 1..(m - 1) : parent[rows[k]] = 0 /\ rows[k] = parent[rows[m]]

\* One pass over the rows; a row that finds no place is dropped.
getMenuTree(rows) ==
  {[id |-> rows[m], parent |-> parent[rows[m]]] :
     m \in {n \in DOMAIN rows : Placed(rows, n)}}

--------------------------------------------------------------------------------
(* The requests of administrator a.                                                *)

\* menuList.do, or the answer to a save: the page is asked for.
Open(a) ==
  /\ page[a].step # "loading"
  /\ page' = [page EXCEPT ![a] = Loading]
  /\ UNCHANGED <<t_menu, last, parent, status>>

menuList(a) ==
  /\ page[a].step = "loading"
  /\ t_menu
  /\ \E rows \in Query : page' = [page EXCEPT ![a] = Showing(getMenuTree(rows))]
  /\ UNCHANGED <<t_menu, last, parent, status>>

\* The query throws, as it does while there is no table: an empty list.
menuListFails(a) ==
  /\ page[a].step = "loading"
  /\ page' = [page EXCEPT ![a] = Showing({})]
  /\ UNCHANGED <<t_menu, last, parent, status>>

\* What the select of the form offers: the roots of the page.
Parents(a) == {0} \cup {e.id : e \in {x \in page[a].tree : x.parent = 0}}

\* Mutant of add: the table is expected to be there.
addRow(a) ==
  /\ page[a].step = "shown"
  /\ last < MaxId
  /\ last' = last + 1
  /\ \E f \in Parents(a) : parent' = [parent EXCEPT ![last + 1] = f]
  /\ status' = [status EXCEPT ![last + 1] = 1]
  /\ page' = [page EXCEPT ![a] = Loading]
  /\ UNCHANGED t_menu

\* The table is created if it does not exist, then the row is inserted.
add(a) ==
  /\ page[a].step = "shown"
  /\ last < MaxId
  /\ t_menu' = TRUE
  /\ last' = last + 1
  /\ \E f \in Parents(a) : parent' = [parent EXCEPT ![last + 1] = f]
  /\ status' = [status EXCEPT ![last + 1] = 1]
  /\ page' = [page EXCEPT ![a] = Loading]

\* Mutant of update: the row is written as add writes it.
updateAll(a) ==
  /\ page[a].step = "shown"
  /\ \E e \in page[a].tree, f \in Parents(a) :
       /\ parent' = [parent EXCEPT ![e.id] = f]
       /\ status' = [status EXCEPT ![e.id] = 1]
  /\ page' = [page EXCEPT ![a] = Loading]
  /\ UNCHANGED <<t_menu, last>>

\* Every column of the form is written, the status is not in it.
update(a) ==
  /\ page[a].step = "shown"
  /\ \E e \in page[a].tree, f \in Parents(a) : parent' = [parent EXCEPT ![e.id] = f]
  /\ page' = [page EXCEPT ![a] = Loading]
  /\ UNCHANGED <<t_menu, last, status>>

del(a) ==
  /\ page[a].step = "shown"
  /\ \E e \in page[a].tree : status' = [status EXCEPT ![e.id] = 0]
  /\ page' = [page EXCEPT ![a] = Loading]
  /\ UNCHANGED <<t_menu, last, parent>>

\* The save throws; add may have created the table before it did.
saveFails(a) ==
  /\ page[a].step = "shown"
  /\ t_menu' \in {t_menu, TRUE}
  /\ page' = [page EXCEPT ![a] = NoPage]
  /\ UNCHANGED <<last, parent, status>>

MenuInit ==
  /\ t_menu = FALSE
  /\ last = 0
  /\ parent = [i \in Ids |-> 0]
  /\ status = [i \in Ids |-> 0]
  /\ page = [a \in Admins |-> NoPage]

MenuNext ==
  \E a \in Admins :
    Open(a) \/ menuList(a) \/ menuListFails(a) \/ add(a) \/ update(a) \/ del(a) \/ saveFails(a)

MenuSpec == MenuInit /\ [][MenuNext]_mvars

--------------------------------------------------------------------------------

\* What a menu shows: the active entries at the top, and those whose parent is one.
Visible == {i \in Active : parent[i] = 0 \/ (parent[i] \in Active /\ parent[parent[i]] = 0)}

\* getMenuTree finds the root of every entry that has one, whatever the order of
\* equal rows: one pass is enough because the query sorts the roots to the front.
TreeIsComplete ==
  \A rows \in Query :
    getMenuTree(rows) = {[id |-> i, parent |-> parent[i]] : i \in Visible}

\* Entries that no page shows and whose parents are deleted, or themselves such
\* entries: no administrator can reach them any more.
Shown == UNION {{e.id : e \in page[a].tree} : a \in Admins}
Closed(B) ==
  \A i \in B : /\ parent[i] # 0
               /\ status[parent[i]] = 0 \/ parent[i] \in B
Buried == UNION {B \in SUBSET (Active \ Shown) : Closed(B)}

\* Deleting an entry, or making it its own ancestor, buries what is under it: such
\* entries stay active in the table and stay out of every menu for ever, also when
\* an administrator still saves a page that was made before (del, update and add
\* of MenuDao, and the choices of menuList.jsp).
BuriedStay == [][Buried \subseteq Buried']_mvars

\* A deleted entry stays deleted, also when it is saved again from an old page, and
\* no page that is made afterwards shows it.
DeletedStay ==
  [][\A i \in Existing : status[i] = 0 =>
       /\ status'[i] = 0
       /\ \A a \in Admins : (\E e \in page'[a].tree : e.id = i) => page'[a] = page[a]]_mvars

\* What is gone stays gone: what was deleted, and what nobody can reach (MenuDao).
GoneStay == BuriedStay /\ DeletedStay

================================================================================
