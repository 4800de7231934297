---------------------------- MODULE SearchPages ----------------------------
(***************************************************************************)
(* One page of the search over the registered agents                       *)
(* (sqlitestore.DB.Search and the links of the search handler): a filter,  *)
(* a total order, LIMIT and OFFSET over the agents as they are when the    *)
(* page is asked for.  A page token is the number of the page.             *)
(***************************************************************************)
EXTENDS Agents, Integers, Sequences, FiniteSets

CONSTANTS
  Rows,       \* what a registered agent may be: its name and its provider
  NoRow,
  MaxSize,    \* maxPageSize
  MaxPage,    \* maxPage
  DefaultSize \* defaultPageSize

ASSUME SearchConstants ==
  /\ AgentIds \subseteq Nat  \* so that ids compare
  /\ IsFiniteSet(AgentIds)
  /\ \A row \in Rows : row.name \in Nat
  /\ NoRow \notin Rows
  /\ MaxSize \in Nat \ {0} /\ MaxPage \in Nat \ {0} /\ DefaultSize \in 1 .. MaxSize

VARIABLE catalog  \* catalog[a]: the row of a in the table agents

Catalogs == [AgentIds -> Rows \cup {NoRow}]

\* The agents a query selects; an empty filter is no constraint.
Matches(rows, providers) ==
  {a \in AgentIds : /\ rows[a] # NoRow
                    /\ providers = {} \/ rows[a].provider \in providers}

\* ORDER BY display_name, agent_id.
Before(rows, a, b) ==
  rows[a].name < rows[b].name \/ (rows[a].name = rows[b].name /\ a < b)

Rank(rows, providers, a) ==
  Cardinality({b \in Matches(rows, providers) : Before(rows, b, a)})

clampSize(size) ==
  IF size <= 0 THEN DefaultSize ELSE IF size > MaxSize THEN MaxSize ELSE size

\* The page of a token or a page number; 0 is none, or one that does not decode.
effectivePage(page) == IF page < 1 THEN 1 ELSE IF page > MaxPage THEN MaxPage ELSE page

\* Mutant: the page number is taken for the number of pages to skip.
OffsetPastPage(page, size) == effectivePage(page) * clampSize(size)

Offset(page, size) == (effectivePage(page) - 1) * clampSize(size)

\* Mutant: the look ahead is one row too far.
HasNextButOne(providers, page, size) ==
  Cardinality(Matches(catalog, providers)) > Offset(page, size) + clampSize(size) + 1

\* The query asks for one row more than the page holds.
HasNext(providers, page, size) ==
  Cardinality(Matches(catalog, providers)) > Offset(page, size) + clampSize(size)

NextToken(providers, page, size) ==
  IF HasNext(providers, page, size) THEN effectivePage(page) + 1 ELSE 0

PageLength(providers, page, size) ==
  LET left == Cardinality(Matches(catalog, providers)) - Offset(page, size)
  IN  IF left < 0 THEN 0 ELSE IF left > clampSize(size) THEN clampSize(size) ELSE left

\* The rows of a page, in order.
Items(providers, page, size) ==
  [i \in 1 .. PageLength(providers, page, size) |->
     CHOOSE a \in Matches(catalog, providers) :
       Rank(catalog, providers, a) = Offset(page, size) + i - 1]
=============================================================================
