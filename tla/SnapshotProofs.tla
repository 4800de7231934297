--------------------------- MODULE SnapshotProofs ---------------------------
(***************************************************************************)
(* Proofs about the snapshot and the search pages it walks, for any number *)
(* of agents, any rows and filters, any page size, limit and badges.       *)
(***************************************************************************)
EXTENDS Snapshot, FiniteSetTheorems, SequenceTheorems, TLAPS

(***************************************************************************)
(* The order of the list.                                                  *)
(***************************************************************************)

Preceding(rows, providers, a) == {b \in Matches(rows, providers) : Before(rows, b, a)}

\* A query selects finitely many agents, and their names and ids compare.
LEMMA MatchesFinite ==
  ASSUME NEW rows \in Catalogs, NEW providers
  PROVE  /\ IsFiniteSet(Matches(rows, providers))
         /\ Matches(rows, providers) \subseteq AgentIds
         /\ \A a \in Matches(rows, providers) : a \in Nat /\ rows[a].name \in Nat
<1>1. Matches(rows, providers) \subseteq AgentIds
  BY DEF Matches
<1>2. IsFiniteSet(Matches(rows, providers))
  BY <1>1, FS_Subset, SearchConstants
<1>3. \A a \in Matches(rows, providers) : a \in Nat /\ rows[a].name \in Nat
  BY SearchConstants DEF Matches, Catalogs
<1>. QED
  BY <1>1, <1>2, <1>3

\* A rank is the number of a finite set.
LEMMA RankNat ==
  ASSUME NEW rows \in Catalogs, NEW providers, NEW a
  PROVE  /\ IsFiniteSet(Preceding(rows, providers, a))
         /\ Rank(rows, providers, a) = Cardinality(Preceding(rows, providers, a))
         /\ Rank(rows, providers, a) \in Nat
<1>1. Preceding(rows, providers, a) \subseteq Matches(rows, providers)
  BY DEF Preceding
<1>2. IsFiniteSet(Preceding(rows, providers, a))
  BY <1>1, MatchesFinite, FS_Subset
<1>3. Rank(rows, providers, a) = Cardinality(Preceding(rows, providers, a))
  BY DEF Rank, Preceding
<1>. QED
  BY <1>2, <1>3, FS_CardinalityType

\* ORDER BY display_name, agent_id: who comes before has the lower rank.
LEMMA RankStrict ==
  ASSUME NEW rows \in Catalogs, NEW providers,
         NEW a \in Matches(rows, providers), NEW b \in Matches(rows, providers),
         Before(rows, a, b)
  PROVE  Rank(rows, providers, a) < Rank(rows, providers, b)
<1>1. a \notin Preceding(rows, providers, a)
  BY MatchesFinite DEF Preceding, Before
<1>2. Preceding(rows, providers, a) \cup {a} \subseteq Preceding(rows, providers, b)
  BY MatchesFinite DEF Preceding, Before
<1>3. Cardinality(Preceding(rows, providers, a) \cup {a}) =
        Cardinality(Preceding(rows, providers, a)) + 1
  BY <1>1, RankNat, FS_AddElement
<1>4. Cardinality(Preceding(rows, providers, a) \cup {a}) <=
        Cardinality(Preceding(rows, providers, b))
  BY <1>2, RankNat, FS_Subset
<1>. QED
  BY <1>3, <1>4, RankNat

\* The order is total, so that two agents have two ranks.
LEMMA RankInjective ==
  ASSUME NEW rows \in Catalogs, NEW providers,
         NEW a \in Matches(rows, providers), NEW b \in Matches(rows, providers),
         Rank(rows, providers, a) = Rank(rows, providers, b)
  PROVE  a = b
<1>1. a = b \/ Before(rows, a, b) \/ Before(rows, b, a)
  BY MatchesFinite DEF Before
<1>. QED
  BY <1>1, RankStrict, RankNat

\* Ranks stay below the length of the list.
LEMMA RankBelow ==
  ASSUME NEW rows \in Catalogs, NEW providers, NEW a \in Matches(rows, providers)
  PROVE  Rank(rows, providers, a) < Cardinality(Matches(rows, providers))
<1>1. Preceding(rows, providers, a) \subseteq Matches(rows, providers) \ {a}
  BY MatchesFinite DEF Preceding, Before
<1>2. /\ IsFiniteSet(Matches(rows, providers) \ {a})
      /\ Cardinality(Matches(rows, providers) \ {a}) =
           Cardinality(Matches(rows, providers)) - 1
  BY MatchesFinite, FS_RemoveElement
<1>3. Cardinality(Preceding(rows, providers, a)) <=
        Cardinality(Matches(rows, providers)) - 1
  BY <1>1, <1>2, FS_Subset
<1>. QED
  BY <1>3, RankNat, MatchesFinite, FS_CardinalityType

\* Every place of the list is taken: ranks are an injection into as many places
\* as there are agents.
LEMMA RankDense ==
  ASSUME NEW rows \in Catalogs, NEW providers,
         NEW k \in 0 .. Cardinality(Matches(rows, providers)) - 1
  PROVE  \E a \in Matches(rows, providers) : Rank(rows, providers, a) = k
<1> DEFINE M == Matches(rows, providers)
           n == Cardinality(M)
           f == [a \in M |-> Rank(rows, providers, a)]
<1>1. IsFiniteSet(M) /\ n \in Nat
  BY MatchesFinite, FS_CardinalityType
<1>2. \A a \in M : Rank(rows, providers, a) \in 0 .. n - 1
  BY <1>1, RankNat, RankBelow
<1>3. f \in [M -> 0 .. n - 1]
  BY <1>2
<1>4. \A a, b \in M : f[a] = f[b] => a = b
  BY RankInjective
<1>5. f \in Injection(M, 0 .. n - 1)
  BY <1>3, <1>4 DEF Injection, IsInjective
<1>6. IsFiniteSet(0 .. n - 1) /\ Cardinality(0 .. n - 1) = Cardinality(M)
  BY <1>1, FS_Interval
<1>7. f \in Surjection(M, 0 .. n - 1)
  <2> HIDE DEF f, M, n
  <2>. QED
    BY <1>1, <1>5, <1>6, FS_Injection
<1>. QED
  BY <1>7 DEF Surjection

\* Where rows are only added, and the others keep their places, ranks only grow.
LEMMA RankGrows ==
  ASSUME NEW old \in Catalogs, NEW new \in Catalogs, NEW providers,
         Matches(old, providers) \subseteq Matches(new, providers),
         \A b \in Matches(old, providers) : new[b].name = old[b].name,
         NEW a \in Matches(old, providers)
  PROVE  Rank(old, providers, a) <= Rank(new, providers, a)
<1>1. Preceding(old, providers, a) \subseteq Preceding(new, providers, a)
  BY DEF Preceding, Before
<1>. QED
  BY <1>1, RankNat, FS_Subset

(***************************************************************************)
(* The pages.                                                              *)
(***************************************************************************)

\* Pages are numbered from one, and clamped to MaxPage; a size is clamped too.
LEMMA PagesNat ==
  ASSUME NEW page \in Nat, NEW size \in Nat
  PROVE  /\ effectivePage(page) \in 1 .. MaxPage
         /\ clampSize(size) \in 1 .. MaxSize
         /\ Offset(page, size) \in Nat
<1>1. effectivePage(page) \in 1 .. MaxPage
  BY SearchConstants DEF effectivePage
<1>2. clampSize(size) \in 1 .. MaxSize
  BY SearchConstants DEF clampSize
<1>3. effectivePage(page) - 1 \in Nat /\ clampSize(size) \in Nat
  BY <1>1, <1>2, SearchConstants
<1>4. \A x, y \in Nat : x * y \in Nat
  OBVIOUS
<1>. QED
  BY <1>1, <1>2, <1>3, <1>4 DEF Offset

\* The length of the list is a number.
LEMMA ListLength ==
  ASSUME NEW rows \in Catalogs, NEW providers
  PROVE  Cardinality(Matches(rows, providers)) \in Nat
<1>1. IsFiniteSet(Matches(rows, providers))
  BY MatchesFinite
<1>. QED
  BY <1>1, FS_CardinalityType

\* A page without a next link ends the list; a next link leaves no gap.
LEMMA NextPage ==
  ASSUME catalog \in Catalogs, NEW providers, NEW page \in Nat, NEW size \in Nat
  PROVE  LET next == NextToken(providers, page, size)
             end  == Offset(page, size) + clampSize(size)
         IN  /\ next \in Nat
             /\ next = 0 => Cardinality(Matches(catalog, providers)) <= end
             /\ next # 0 => Offset(next, size) <= end
<1> DEFINE p == effectivePage(page)
           c == clampSize(size)
           n == Cardinality(Matches(catalog, providers))
           next == NextToken(providers, page, size)
<1>1. p \in Nat \ {0} /\ p <= MaxPage /\ c \in Nat /\ n \in Nat /\ Offset(page, size) \in Nat
  <2>1. n \in Nat
    BY ListLength
  <2>2. p \in 1 .. MaxPage /\ c \in 1 .. MaxSize /\ Offset(page, size) \in Nat
    BY PagesNat
  <2>3. MaxPage \in Nat /\ MaxSize \in Nat
    BY SearchConstants
  <2>4. p \in Nat \ {0} /\ p <= MaxPage /\ c \in Nat
    BY <2>2, <2>3
  <2>. QED
    BY <2>1, <2>2, <2>4
<1>2. next = IF n > Offset(page, size) + c THEN p + 1 ELSE 0
  BY DEF NextToken, HasNext
<1>3. next # 0 => Offset(next, size) <= Offset(page, size) + c
  <2> SUFFICES ASSUME next # 0 PROVE Offset(next, size) <= Offset(page, size) + c
    OBVIOUS
  <2>1. next = p + 1
    BY <1>2
  <2>2. Offset(page, size) = (p - 1) * c
    BY DEF Offset
  <2>3. effectivePage(p + 1) = p + 1 \/ effectivePage(p + 1) = p
    BY <1>1, SearchConstants DEF effectivePage
  <2>4. PICK q : q = effectivePage(p + 1)
    OBVIOUS
  <2>5. Offset(next, size) = (q - 1) * c
    BY <2>1, <2>4 DEF Offset
  <2> HIDE DEF p, c, next
  <2>6. CASE q = p
    BY <1>1, <2>2, <2>5, <2>6
  <2>7. CASE q = p + 1
    <3>1. p * c = (p - 1) * c + c
      BY <1>1
    <3>2. q - 1 = p
      BY <1>1, <2>7
    <3>3. Offset(next, size) = p * c
      BY <2>5, <3>2
    <3>. QED
      BY <1>1, <2>2, <3>1, <3>3
  <2>. QED
    BY <2>3, <2>4, <2>6, <2>7
<1>. QED
  BY <1>1, <1>2, <1>3

\* A page holds the agents of its places.
LEMMA ItemsPlaced ==
  ASSUME catalog \in Catalogs, NEW providers, NEW page \in Nat, NEW size \in Nat
  PROVE  LET start == Offset(page, size)
             items == Items(providers, page, size)
             n     == PageLength(providers, page, size)
         IN  /\ n \in Nat
             /\ items \in [1 .. n -> Matches(catalog, providers)]
             /\ \A i \in 1 .. n : Rank(catalog, providers, items[i]) = start + i - 1
<1> DEFINE M == Matches(catalog, providers)
           start == Offset(page, size)
           c == clampSize(size)
           items == Items(providers, page, size)
           n == PageLength(providers, page, size)
           R(a) == Rank(catalog, providers, a)
<1>1. start \in Nat /\ c \in Nat /\ Cardinality(M) \in Nat
  <2>1. Cardinality(M) \in Nat
    BY ListLength
  <2>2. c \in 1 .. MaxSize /\ start \in Nat
    BY PagesNat
  <2>3. MaxSize \in Nat
    BY SearchConstants
  <2>. QED
    BY <2>1, <2>2, <2>3
<1>2. n \in Nat /\ n <= c /\ (n > 0 => start + n <= Cardinality(M))
        /\ (start + c <= Cardinality(M) => n = c)
        /\ (start < Cardinality(M) /\ Cardinality(M) <= start + c => n = Cardinality(M) - start)
  BY <1>1 DEF PageLength
<1>3. items = [i \in 1 .. n |-> CHOOSE a \in M : R(a) = start + i - 1]
  BY DEF Items
<1>4. ASSUME NEW i \in 1 .. n
      PROVE  items[i] \in M /\ R(items[i]) = start + i - 1
  <2>1. start + i - 1 \in 0 .. Cardinality(M) - 1
    BY <1>1, <1>2
  <2>2. \E a \in M : R(a) = start + i - 1
    BY <2>1, RankDense
  <2>3. items[i] = CHOOSE a \in M : R(a) = start + i - 1
    BY <1>3
  <2>. QED
    BY <2>2, <2>3
<1>5. items \in [1 .. n -> M]
  BY <1>3, <1>4
<1>. QED
  BY <1>2, <1>4, <1>5

\* A page holds all the agents of its places.
LEMMA PageComplete ==
  ASSUME catalog \in Catalogs, NEW providers, NEW page \in Nat, NEW size \in Nat,
         NEW a \in Matches(catalog, providers),
         Rank(catalog, providers, a) >= Offset(page, size),
         Rank(catalog, providers, a) < Offset(page, size) + clampSize(size)
  PROVE  \E i \in 1 .. PageLength(providers, page, size) : Items(providers, page, size)[i] = a
<1> DEFINE M == Matches(catalog, providers)
           start == Offset(page, size)
           c == clampSize(size)
           items == Items(providers, page, size)
           n == PageLength(providers, page, size)
           R(b) == Rank(catalog, providers, b)
           i == R(a) - start + 1
<1>1. start \in Nat /\ c \in Nat /\ Cardinality(M) \in Nat
  <2>1. Cardinality(M) \in Nat
    BY ListLength
  <2>2. c \in 1 .. MaxSize /\ start \in Nat
    BY PagesNat
  <2>3. MaxSize \in Nat
    BY SearchConstants
  <2>. QED
    BY <2>1, <2>2, <2>3
<1>2. R(a) \in Nat /\ R(a) < Cardinality(M)
  BY RankNat, RankBelow
<1>3. i \in 1 .. n
  BY <1>1, <1>2 DEF PageLength
<1>4. R(items[i]) = start + i - 1 /\ items[i] \in M
  <2>1. items \in [1 .. n -> M] /\ \A k \in 1 .. n : R(items[k]) = start + k - 1
    BY ItemsPlaced
  <2> HIDE DEF items, n, M, i
  <2>. QED
    BY <1>3, <2>1
<1>5. R(items[i]) = R(a)
  BY <1>1, <1>2, <1>4
<1>6. items[i] = a
  BY <1>4, <1>5, RankInjective
<1>. QED
  BY <1>3, <1>6

(***************************************************************************)
(* The inductive invariant.                                                *)
(***************************************************************************)

Ids(found) == {found[k].agentId : k \in DOMAIN found}

\* The fixtures stay as they were until the walk has ended well.
SparedInv ==
  /\ Running => run.error = "none"
  /\ run.phase # "idle" /\ (run.phase \in {"page", "prepare"} \/ run.error \in {"search", "ceiling"})
       => dir = past.before

\* Nothing is counted before the first badge is asked for.
FreshInv ==
  run.phase \in {"page", "prepare"} =>
    /\ past.answered = {} /\ summary.captured = 0 /\ summary.errors = 0
    /\ run.phase = "prepare" => run.todo = walk.collected

\* The files are the answered badges, and every agent is counted once.
FixturesInv ==
  run.phase \in {"enrich", "ok"} =>
    /\ Loads
    /\ Files = past.answered /\ Files \subseteq Collected
    /\ Ids(run.todo) \subseteq Collected
    /\ Files = {} => summary.captured = 0
    /\ Cardinality(Files) <= summary.captured
    /\ summary.captured + summary.errors + Len(run.todo) = Len(walk.collected)
    /\ run.phase = "ok" => /\ run.todo = <<>>
                           /\ walk.collected = <<>> \/ summary.captured # 0

\* The agents listed all along that the walk has not met are still ahead of it.
AheadInv ==
  /\ past.listed \subseteq Matches(catalog, Providers)
  /\ run.phase = "page" /\ walk.limit = 0 /\ Undisturbed =>
       \A a \in past.listed \ Collected :
         Rank(catalog, Providers, a) >= Offset(walk.next, PageSize)
  /\ WalkSkipsNobody

\* On a quiet list the walk has read the places before the page it is at.
QuietInv ==
  imports = 0 /\ run.phase # "idle" =>
    /\ past.listed = Matches(catalog, Providers)
    /\ Undisturbed /\ Cardinality(past.listed) <= MaxPage * clampSize(PageSize) =>
         /\ \A k \in DOMAIN walk.collected :
              Rank(catalog, Providers, walk.collected[k].agentId) = k - 1
         /\ run.phase = "page" =>
              /\ walk.next # 0
              /\ Len(walk.collected) = Offset(walk.next, PageSize)
              /\ Len(walk.collected) <= Cardinality(past.listed)
              /\ walk.limit > 0 => Len(walk.collected) < walk.limit
    /\ QuietWalkIsTheList

SnapshotInv ==
  SnapshotTypeOK /\ SparedInv /\ FreshInv /\ FixturesInv /\ AheadInv /\ QuietInv

(***************************************************************************)
(* What a page adds to the walk.                                           *)
(***************************************************************************)

\* An answer is a sequence of agents found, in their places.
LEMMA AnswerSeq ==
  ASSUME SnapshotTypeOK, NEW page \in Nat
  PROVE  LET n     == PageLength(Providers, page, PageSize)
             items == Items(Providers, page, PageSize)
         IN  /\ n \in Nat
             /\ Answer(page) \in Seq(Found)
             /\ Len(Answer(page)) = n
             /\ \A i \in 1 .. n :
                  /\ Answer(page)[i].agentId = items[i]
                  /\ Rank(catalog, Providers, Answer(page)[i].agentId) =
                       Offset(page, PageSize) + i - 1
<1> DEFINE n == PageLength(Providers, page, PageSize)
           items == Items(Providers, page, PageSize)
           M == Matches(catalog, Providers)
           answer == [i \in 1 .. n |-> [agentId |-> items[i], status |-> catalog[items[i]].status]]
<1>1. catalog \in Catalogs /\ PageSize \in Nat
  BY SnapshotConstants DEF SnapshotTypeOK
<1>2. /\ n \in Nat /\ items \in [1 .. n -> M]
      /\ \A i \in 1 .. n : Rank(catalog, Providers, items[i]) = Offset(page, PageSize) + i - 1
  BY <1>1, ItemsPlaced
<1>3. Answer(page) = answer
  <2> HIDE DEF items, n
  <2>1. DOMAIN items = 1 .. n
    BY <1>2
  <2>2. Answer(page) = [i \in DOMAIN items |-> [agentId |-> items[i], status |-> catalog[items[i]].status]]
    BY DEF Answer, items
  <2>. QED
    BY <2>1, <2>2
<1>4. \A a \in M : a \in AgentIds /\ catalog[a].status \in StatusTexts
  BY <1>1, SnapshotConstants DEF Matches, Catalogs
<1> HIDE DEF items, n, M
<1>5. \A i \in 1 .. n : answer[i] \in Found /\ answer[i].agentId = items[i]
  BY <1>2, <1>4 DEF Found
<1>6. answer \in [1 .. n -> Found]
  BY <1>5
<1> HIDE DEF answer
<1>7. answer \in Seq(Found) /\ Len(answer) = n
  BY <1>2, <1>6
<1>. QED
  BY <1>2, <1>3, <1>5, <1>7 DEF n, items

\* The walk keeps what it found, up to its limit.
LEMMA LimitedSeq ==
  ASSUME SnapshotTypeOK, NEW found \in Seq(Found)
  PROVE  /\ Limited(found) \in Seq(Found)
         /\ Len(Limited(found)) = IF walk.limit > 0 /\ Len(found) > walk.limit
                                  THEN walk.limit ELSE Len(found)
         /\ \A k \in 1 .. Len(Limited(found)) : Limited(found)[k] = found[k]
<1>1. walk.limit \in Nat /\ Len(found) \in Nat
  BY DEF SnapshotTypeOK, Walks
<1>2. CASE walk.limit > 0 /\ Len(found) > walk.limit
  <2>1. Limited(found) = SubSeq(found, 1, walk.limit)
    BY <1>2 DEF Limited
  <2>2. /\ SubSeq(found, 1, walk.limit) \in Seq(Found)
        /\ Len(SubSeq(found, 1, walk.limit)) = walk.limit
        /\ \A k \in 1 .. walk.limit : SubSeq(found, 1, walk.limit)[k] = found[k]
    BY <1>1, <1>2
  <2>. QED
    BY <1>2, <2>1, <2>2
<1>3. CASE ~(walk.limit > 0 /\ Len(found) > walk.limit)
  BY <1>3 DEF Limited
<1>. QED
  BY <1>2, <1>3

\* The agents of a sequence put after another.
LEMMA IdsConcat ==
  ASSUME NEW s \in Seq(Found), NEW t \in Seq(Found)
  PROVE  /\ s \o t \in Seq(Found)
         /\ Len(s \o t) = Len(s) + Len(t)
         /\ \A k \in 1 .. Len(s) : (s \o t)[k] = s[k]
         /\ \A k \in 1 .. Len(t) : (s \o t)[Len(s) + k] = t[k]
         /\ Ids(s) \subseteq Ids(s \o t) /\ Ids(t) \subseteq Ids(s \o t)
<1>1. /\ s \o t \in Seq(Found)
      /\ Len(s \o t) = Len(s) + Len(t) /\ Len(s) \in Nat /\ Len(t) \in Nat
      /\ \A k \in 1 .. Len(s) : (s \o t)[k] = s[k]
      /\ \A k \in 1 .. Len(t) : (s \o t)[Len(s) + k] = t[k]
  OBVIOUS
<1>2. /\ DOMAIN s = 1 .. Len(s) /\ DOMAIN t = 1 .. Len(t)
      /\ DOMAIN (s \o t) = 1 .. Len(s \o t)
  BY <1>1
<1>3. ASSUME NEW k \in 1 .. Len(s) PROVE k \in DOMAIN (s \o t) /\ (s \o t)[k] = s[k]
  BY <1>1, <1>2
<1>4. ASSUME NEW k \in 1 .. Len(t)
      PROVE  Len(s) + k \in DOMAIN (s \o t) /\ (s \o t)[Len(s) + k] = t[k]
  BY <1>1, <1>2
<1>5. Ids(s) \subseteq Ids(s \o t)
  BY <1>2, <1>3 DEF Ids
<1>6. Ids(t) \subseteq Ids(s \o t)
  BY <1>2, <1>4 DEF Ids
<1>. QED
  BY <1>1, <1>5, <1>6

\* What FetchPage does, its sequences spelled out.
LEMMA Fetched ==
  ASSUME SnapshotTypeOK, FetchPage
  PROVE  LET found == walk.collected \o Answer(walk.next)
         IN  /\ run.phase = "page"
             /\ found \in Seq(Found)
             /\ walk' \in Walks
             /\ walk'.limit = walk.limit /\ walk'.collected = Limited(found)
             /\ run' \in Runs /\ run'.error = run.error
             /\ run'.phase = IF LimitReached(found) \/ walk'.next = 0 THEN "prepare" ELSE "page"
             /\ run'.phase = "prepare" => run'.todo = Limited(found)
             /\ past' \in Histories
             /\ past'.before = past.before /\ past'.listed = past.listed
             /\ past'.moved = past.moved /\ past'.answered = past.answered
             /\ past'.strays = 0 =>
                  past.strays = 0 /\ walk'.next = NextToken(Providers, walk.next, PageSize)
<1> DEFINE found == walk.collected \o Answer(walk.next)
           token == NextToken(Providers, walk.next, PageSize)
<1>1. /\ run \in Runs /\ walk \in Walks /\ past \in Histories /\ catalog \in Catalogs
      /\ PageSize \in Nat /\ StrayPages \subseteq Nat
  BY SnapshotConstants DEF SnapshotTypeOK
<1>2. walk.next \in Nat /\ walk.limit \in Nat /\ walk.collected \in Seq(Found)
  BY <1>1 DEF Walks
<1>3. found \in Seq(Found)
  <2>1. Answer(walk.next) \in Seq(Found)
    BY <1>2, AnswerSeq
  <2>. QED
    BY <1>2, <2>1, IdsConcat
<1>4. token \in Nat
  BY <1>1, <1>2, NextPage
<1>5. Limited(found) \in Seq(Found)
  BY <1>3, LimitedSeq
<1> HIDE DEF found, token
<1>6. PICK next \in {token} \cup StrayPages :
        /\ walk' = [walk EXCEPT !.next = next, !.pages = @ + 1, !.collected = Limited(found)]
        /\ run' = [run EXCEPT !.phase = IF LimitReached(found) \/ next = 0 THEN "prepare" ELSE "page",
                              !.todo = IF LimitReached(found) \/ next = 0 THEN Limited(found) ELSE <<>>]
        /\ past' = [past EXCEPT !.strays = IF next = token THEN @ ELSE 1]
  BY DEF FetchPage, NextLinks, found, token
<1>7. next \in Nat
  BY <1>1, <1>4, <1>6
<1>8. /\ walk' \in Walks /\ walk'.next = next
      /\ walk'.limit = walk.limit /\ walk'.collected = Limited(found)
  <2> DEFINE kept == Limited(found)
  <2>1. kept \in Seq(Found) /\ walk.pages + 1 \in Nat
    BY <1>1, <1>5 DEF Walks
  <2> HIDE DEF kept
  <2>2. walk' = [walk EXCEPT !.next = next, !.pages = @ + 1, !.collected = kept]
    BY <1>6 DEF kept
  <2>3. /\ walk' \in Walks /\ walk'.next = next
        /\ walk'.limit = walk.limit /\ walk'.collected = kept
    BY <1>1, <1>7, <2>1, <2>2 DEF Walks
  <2>. QED
    BY <2>3 DEF kept
<1>9. <<>> \in Seq(Found)
  OBVIOUS
<1>10. /\ run' \in Runs /\ run'.error = run.error
       /\ run'.phase = IF LimitReached(found) \/ walk'.next = 0 THEN "prepare" ELSE "page"
       /\ run'.phase = "prepare" => run'.todo = Limited(found)
  BY <1>1, <1>5, <1>6, <1>8, <1>9 DEF Runs
<1>11. /\ past' \in Histories
       /\ past'.before = past.before /\ past'.listed = past.listed
       /\ past'.moved = past.moved /\ past'.answered = past.answered
       /\ past'.strays = 0 => past.strays = 0 /\ walk'.next = token
  BY <1>1, <1>6, <1>8 DEF Histories
<1>. QED
  BY <1>3, <1>8, <1>10, <1>11 DEF found, token, FetchPage

(***************************************************************************)
(* Types.                                                                  *)
(***************************************************************************)

\* A valid badge merged with what the search found is a fixture.
LEMMA MergeFixture ==
  ASSUME NEW found \in Found, NEW badge \in Badges
  PROVE  merge(found, badge) \in Fixtures
<1>1. badge \in Fixtures
  BY SnapshotConstants
<1>2. found.status \in StatusTexts
  BY DEF Found
<1>3. Given(badge.status, found.status) \in StatusTexts
  BY <1>1, <1>2 DEF Given, Fixtures
<1>. QED
  BY <1>1, <1>3 DEF merge, Fixtures

\* The first and the other agents to do.
LEMMA TodoSeq ==
  ASSUME SnapshotTypeOK, run.todo # <<>>
  PROVE  /\ Head(run.todo) \in Found /\ Head(run.todo).agentId \in AgentIds
         /\ Tail(run.todo) \in Seq(Found)
         /\ Len(Tail(run.todo)) = Len(run.todo) - 1
         /\ Len(run.todo) \in Nat
         /\ Head(run.todo).agentId \in Ids(run.todo)
         /\ Ids(Tail(run.todo)) \subseteq Ids(run.todo)
<1> DEFINE t == run.todo
<1>1. t \in Seq(Found) /\ t # <<>>
  BY DEF SnapshotTypeOK, Runs
<1> HIDE DEF t
<1>2. /\ Len(t) \in Nat \ {0} /\ DOMAIN t = 1 .. Len(t)
      /\ Head(t) = t[1] /\ t[1] \in Found
      /\ Tail(t) \in Seq(Found) /\ Len(Tail(t)) = Len(t) - 1
      /\ DOMAIN Tail(t) = 1 .. Len(t) - 1
      /\ \A k \in 1 .. Len(t) - 1 : Tail(t)[k] = t[k + 1]
  BY <1>1
<1>3. Head(t).agentId \in Ids(t)
  BY <1>2 DEF Ids
<1>4. Ids(Tail(t)) \subseteq Ids(t)
  BY <1>2 DEF Ids
<1>5. Head(t).agentId \in AgentIds
  BY <1>2 DEF Found
<1>. QED
  BY <1>2, <1>3, <1>4, <1>5 DEF t

\* A directory keeps its shape when a file is written or files are removed.
LEMMA DirShape ==
  ASSUME dir \in [AgentIds -> Fixtures \cup {NoFixture, Torn}]
  PROVE  /\ EmptyDir \in [AgentIds -> Fixtures \cup {NoFixture, Torn}]
         /\ \A gone : Without(gone) \in [AgentIds -> Fixtures \cup {NoFixture, Torn}]
         /\ \A a : \A file \in Fixtures \cup {NoFixture, Torn} :
              [dir EXCEPT ![a] = file] \in [AgentIds -> Fixtures \cup {NoFixture, Torn}]
<1> DEFINE D == Fixtures \cup {NoFixture, Torn}
<1>1. NoFixture \in D
  OBVIOUS
<1> HIDE DEF D
<1>. QED
  BY <1>1 DEF EmptyDir, Without, D

\* The run's fields, and what a failure does to them.
LEMMA FailShape ==
  ASSUME run \in Runs,
         NEW error \in {"search", "ceiling", "prepare", "write", "nothing"},
         Fail(error)
  PROVE  run' \in Runs /\ run'.phase = "failed" /\ run'.error = error
BY DEF Fail, Runs

\* A new run's parts.
LEMMA NewShapes ==
  /\ IdleRun \in Runs /\ [IdleRun EXCEPT !.phase = "page"] \in Runs
  /\ [IdleRun EXCEPT !.phase = "page"] = [phase |-> "page", error |-> "none", todo |-> <<>>]
  /\ \A limit \in Nat : NewWalk(limit) \in Walks
  /\ NoSummary \in Summaries
  /\ \A before \in [AgentIds -> Fixtures \cup {NoFixture, Torn}], listed \in SUBSET AgentIds :
       NewPast(before, listed) \in Histories
<1>1. <<>> \in Seq(Found)
  OBVIOUS
<1>2. /\ IdleRun \in Runs /\ [IdleRun EXCEPT !.phase = "page"] \in Runs
      /\ [IdleRun EXCEPT !.phase = "page"] = [phase |-> "page", error |-> "none", todo |-> <<>>]
  <2>1. PICK nobody \in Seq(Found) : nobody = <<>>
    BY <1>1
  <2>2. IdleRun = [phase |-> "idle", error |-> "none", todo |-> nobody]
    BY <2>1 DEF IdleRun
  <2>3. [IdleRun EXCEPT !.phase = "page"] = [phase |-> "page", error |-> "none", todo |-> nobody]
    BY <2>2
  <2>4. IdleRun \in Runs
    BY <2>2 DEF Runs
  <2>5. [IdleRun EXCEPT !.phase = "page"] \in Runs
    BY <2>3 DEF Runs
  <2>. QED
    BY <2>1, <2>3, <2>4, <2>5
<1>3. \A limit \in Nat : NewWalk(limit) \in Walks
  BY <1>1 DEF NewWalk, Walks
<1>4. NoSummary \in Summaries
  BY DEF NoSummary, Summaries
<1>5. \A before \in [AgentIds -> Fixtures \cup {NoFixture, Torn}], listed \in SUBSET AgentIds :
       NewPast(before, listed) \in Histories
  BY DEF NewPast, Histories
<1>. QED
  BY <1>2, <1>3, <1>4, <1>5

\* Passing an agent over, and writing its file, spelled out.
LEMMA Skipped ==
  ASSUME SnapshotTypeOK, run.todo # <<>>, Skip
  PROVE  /\ run' \in Runs /\ run'.phase = run.phase /\ run'.error = run.error
         /\ run'.todo = Tail(run.todo)
         /\ summary' \in Summaries
         /\ summary'.captured = summary.captured /\ summary'.errors = summary.errors + 1
<1>1. run \in Runs /\ summary \in Summaries /\ Tail(run.todo) \in Seq(Found)
  BY TodoSeq DEF SnapshotTypeOK
<1>2. summary.errors + 1 \in Nat
  BY <1>1 DEF Summaries
<1>. QED
  BY <1>1, <1>2 DEF Skip, Runs, Summaries

\* Writing an agent's file, spelled out.
LEMMA Written ==
  ASSUME SnapshotTypeOK, run.todo # <<>>, NEW a \in AgentIds, NEW ev \in Fixtures, Write(a, ev)
  PROVE  /\ run' \in Runs /\ run'.phase = run.phase /\ run'.error = run.error
         /\ run'.todo = Tail(run.todo)
         /\ summary' \in Summaries
         /\ summary'.captured = summary.captured + 1 /\ summary'.errors = summary.errors
         /\ dir' \in [AgentIds -> Fixtures \cup {NoFixture, Torn}]
         /\ dir' = [dir EXCEPT ![a] = ev]
         /\ past' \in Histories
         /\ past'.answered = past.answered \cup {a}
         /\ past'.before = past.before /\ past'.listed = past.listed
         /\ past'.moved = past.moved /\ past'.strays = past.strays
<1>1. run \in Runs /\ summary \in Summaries /\ Tail(run.todo) \in Seq(Found)
  BY TodoSeq DEF SnapshotTypeOK
<1>2. summary.captured + 1 \in Nat
  BY <1>1 DEF Summaries
<1>3. dir' \in [AgentIds -> Fixtures \cup {NoFixture, Torn}] /\ dir' = [dir EXCEPT ![a] = ev]
  BY DirShape DEF Write, SnapshotTypeOK
<1>4. /\ past' \in Histories
      /\ past'.answered = past.answered \cup {a}
      /\ past'.before = past.before /\ past'.listed = past.listed
      /\ past'.moved = past.moved /\ past'.strays = past.strays
  <2>1. past \in Histories /\ past.answered \cup {a} \in SUBSET AgentIds
    BY DEF SnapshotTypeOK, Histories
  <2>. QED
    BY <2>1 DEF Write, Histories
<1>5. /\ run' \in Runs /\ run'.phase = run.phase /\ run'.error = run.error
      /\ run'.todo = Tail(run.todo)
  BY <1>1 DEF Write, Runs
<1>6. /\ summary' \in Summaries
      /\ summary'.captured = summary.captured + 1 /\ summary'.errors = summary.errors
  BY <1>1, <1>2 DEF Write, Summaries
<1>. QED
  BY <1>3, <1>4, <1>5, <1>6

\* What Capture does: a file is written, a write fails, or the agent is passed
\* over.
LEMMA Captured ==
  ASSUME SnapshotTypeOK, Capture
  PROVE  /\ run.phase = "enrich" /\ run.todo # <<>>
         /\ Head(run.todo).agentId \in AgentIds
         /\ UNCHANGED <<catalog, imports, walk>>
         /\ \/ \E ev \in Fixtures : Valid(ev) /\ Write(Head(run.todo).agentId, ev)
            \/ WriteFails(Head(run.todo).agentId)
            \/ Skip
<1> DEFINE first == Head(run.todo)
<1>1. run.todo # <<>> /\ first \in Found /\ first.agentId \in AgentIds
  BY TodoSeq DEF Capture
<1>2. PICK badge \in Badges :
        IF Valid(merge(first, badge))
        THEN Write(first.agentId, merge(first, badge)) \/ WriteFails(first.agentId)
        ELSE Skip
  BY DEF Capture
<1>3. merge(first, badge) \in Fixtures
  BY <1>1, MergeFixture
<1>. QED
  BY <1>1, <1>2, <1>3 DEF Capture

\* What an import does, spelled out: an agent stays on the list that is
\* selected still, and keeps its place if its name is the same.
LEMMA Imported ==
  ASSUME SnapshotTypeOK, NEW a \in AgentIds, NEW row \in Rows, Import(a, row)
  PROVE  /\ catalog' \in Catalogs /\ catalog' = [catalog EXCEPT ![a] = row]
         /\ imports < MaxImports /\ imports' = imports + 1 /\ imports' \in 0 .. MaxImports
         /\ past' \in Histories
         /\ past'.listed = IF Selected(row) THEN past.listed ELSE past.listed \ {a}
         /\ past'.moved = {} =>
              /\ past.moved = {}
              /\ a \in Matches(catalog, Providers) => Selected(row) /\ row.name = catalog[a].name
         /\ past'.strays = past.strays /\ past'.before = past.before
         /\ past'.answered = past.answered
         /\ UNCHANGED <<run, walk, summary, dir>>
<1>1. /\ catalog \in Catalogs /\ imports \in 0 .. MaxImports /\ past \in Histories
      /\ MaxImports \in Nat
  BY SnapshotConstants DEF SnapshotTypeOK
<1>2. catalog' \in Catalogs /\ catalog' = [catalog EXCEPT ![a] = row]
  BY <1>1 DEF Import, Catalogs
<1>3. imports < MaxImports /\ imports' = imports + 1 /\ imports' \in 0 .. MaxImports
  BY <1>1 DEF Import
<1>4. PICK left, moved \in SUBSET AgentIds :
        /\ past' = [past EXCEPT !.listed = left, !.moved = moved]
        /\ left = IF Selected(row) THEN past.listed ELSE past.listed \ {a}
        /\ moved = IF a \in Matches(catalog, Providers)
                        /\ (~Selected(row) \/ row.name # catalog[a].name)
                   THEN past.moved \cup {a} ELSE past.moved
  <2>1. past.listed \in SUBSET AgentIds /\ past.moved \in SUBSET AgentIds
    BY <1>1 DEF Histories
  <2>. QED
    BY <2>1 DEF Import
<1>5. /\ past' \in Histories
      /\ past'.listed = left /\ past'.moved = moved
      /\ past'.strays = past.strays /\ past'.before = past.before
      /\ past'.answered = past.answered
  BY <1>1, <1>4 DEF Histories
<1>. QED
  BY <1>2, <1>3, <1>4, <1>5 DEF Import

\* Every step keeps the types.
LEMMA TypeStep ==
  ASSUME SnapshotTypeOK, [Next]_vars
  PROVE  SnapshotTypeOK'
<1> USE DEF SnapshotTypeOK
<1>0. run \in Runs /\ dir \in [AgentIds -> Fixtures \cup {NoFixture, Torn}]
  OBVIOUS
<1>1. ASSUME NEW a \in AgentIds, NEW row \in Rows, Import(a, row) PROVE SnapshotTypeOK'
  BY <1>1, Imported DEF Import
<1>2. CASE Start
  <2>1. Matches(catalog, Providers) \in SUBSET AgentIds
    BY DEF Matches
  <2>2. PICK limit \in Limits : walk' = NewWalk(limit)
    BY <1>2 DEF Start
  <2>3. walk' \in Walks
    BY <2>2, NewShapes, SnapshotConstants
  <2>4. run' \in Runs /\ summary' \in Summaries /\ past' \in Histories
    BY <1>0, <1>2, <2>1, NewShapes DEF Start
  <2>. QED
    BY <1>2, <2>3, <2>4 DEF Start
<1>3. CASE Crash
  <2>1. run' \in Runs /\ walk' \in Walks /\ summary' \in Summaries
    BY <1>3, NewShapes DEF Crash
  <2>2. dir' \in [AgentIds -> Fixtures \cup {NoFixture, Torn}]
    BY <1>3, DirShape DEF Crash
  <2>. QED
    BY <1>3, <2>1, <2>2 DEF Crash
<1>4. CASE FetchPage
  BY <1>4, Fetched DEF FetchPage
<1>5. CASE FetchFails
  BY <1>0, <1>5, FailShape DEF FetchFails
<1>6. CASE Ceiling
  BY <1>0, <1>6, FailShape DEF Ceiling
<1>7. CASE PrepareOutDir
  <2>1. run' \in Runs
    BY <1>0, <1>7 DEF PrepareOutDir, Runs
  <2>. QED
    BY <1>7, <2>1, DirShape DEF PrepareOutDir
<1>8. CASE PrepareFails
  <2>1. run' \in Runs
    BY <1>0, <1>8, FailShape DEF PrepareFails
  <2>2. dir' \in [AgentIds -> Fixtures \cup {NoFixture, Torn}]
    BY <1>8, DirShape DEF PrepareFails
  <2>. QED
    BY <1>8, <2>1, <2>2 DEF PrepareFails
<1>9. CASE Capture
  <2> DEFINE a == Head(run.todo).agentId
  <2>1. run.todo # <<>> /\ a \in AgentIds /\ UNCHANGED <<catalog, imports, walk>>
    BY <1>9, Captured
  <2> HIDE DEF a
  <2>2. ASSUME NEW ev \in Fixtures, Write(a, ev) PROVE SnapshotTypeOK'
    BY <2>1, <2>2, Written
  <2>3. CASE WriteFails(a)
    <3>1. run' \in Runs
      BY <1>0, <2>3, FailShape DEF WriteFails
    <3>2. dir' \in [AgentIds -> Fixtures \cup {NoFixture, Torn}]
      BY <2>1, <2>3, DirShape DEF WriteFails
    <3>. QED
      BY <2>1, <2>3, <3>1, <3>2 DEF WriteFails
  <2>4. CASE Skip
    BY <2>1, <2>4, Skipped DEF Skip
  <2>. QED
    BY <1>9, <2>2, <2>3, <2>4, Captured DEF a
<1>10. CASE Miss
  BY <1>10, Skipped DEF Miss, Skip
<1>11. CASE Finish
  <2>1. CASE Fail("nothing")
    BY <1>0, <1>11, <2>1, FailShape DEF Finish
  <2>2. CASE run' = [run EXCEPT !.phase = "ok"]
    <3>1. run' \in Runs
      BY <1>0, <2>2 DEF Runs
    <3>. QED
      BY <1>11, <3>1 DEF Finish
  <2>. QED
    BY <1>11, <2>1, <2>2 DEF Finish
<1>12. CASE UNCHANGED vars
  BY <1>12 DEF vars
<1>. QED
  BY <1>1, <1>2, <1>3, <1>4, <1>5, <1>6, <1>7, <1>8, <1>9, <1>10, <1>11, <1>12
  DEF Next, RunStep

(***************************************************************************)
(* The fixtures while the walk is not done.                                *)
(***************************************************************************)

\* Start and Crash, spelled out.
LEMMA Started ==
  ASSUME SnapshotTypeOK, Start
  PROVE  /\ ~Running
         /\ run'.phase = "page" /\ run'.error = "none" /\ run'.todo = <<>>
         /\ \E limit \in Limits : walk' = NewWalk(limit)
         /\ walk'.next = 1 /\ walk'.collected = <<>> /\ walk'.limit \in Nat
         /\ summary'.captured = 0 /\ summary'.errors = 0
         /\ past'.before = dir /\ past'.listed = Matches(catalog, Providers)
         /\ past'.moved = {} /\ past'.strays = 0 /\ past'.answered = {}
         /\ UNCHANGED <<catalog, imports, dir>>
<1>1. run'.phase = "page" /\ run'.error = "none" /\ run'.todo = <<>>
  BY NewShapes DEF Start
<1>2. PICK limit \in Limits : walk' = NewWalk(limit)
  BY DEF Start
<1>3. walk'.next = 1 /\ walk'.collected = <<>> /\ walk'.limit \in Nat
  BY <1>2, SnapshotConstants DEF NewWalk
<1>. QED
  BY <1>1, <1>2, <1>3 DEF Start, NoSummary, NewPast

\* A crash leaves no run.
LEMMA Crashed ==
  ASSUME Crash
  PROVE  run'.phase = "idle" /\ run'.error = "none" /\ walk'.collected = <<>>
BY DEF Crash, IdleRun, NewWalk

\* SparedInv holds throughout (Run asks the search before it empties the directory).
LEMMA SparedStep ==
  ASSUME SnapshotTypeOK, SparedInv, [Next]_vars
  PROVE  SparedInv'
<1> USE DEF SparedInv, Running
<1>0. run \in Runs
  BY DEF SnapshotTypeOK
<1>1. ASSUME NEW a \in AgentIds, NEW row \in Rows, Import(a, row) PROVE SparedInv'
  BY <1>1, Imported
<1>2. CASE Start
  BY <1>2, Started
<1>3. CASE Crash
  BY <1>3, Crashed
<1>4. CASE FetchPage
  <2>1. /\ run.phase = "page" /\ run'.error = run.error
        /\ past'.before = past.before /\ dir' = dir
    BY <1>4, Fetched DEF FetchPage
  <2>. QED
    BY <2>1
<1>5. CASE FetchFails
  BY <1>0, <1>5, FailShape DEF FetchFails
<1>6. CASE Ceiling
  BY <1>0, <1>6, FailShape DEF Ceiling
<1>7. CASE PrepareOutDir
  <2>1. run'.phase = "enrich" /\ run'.error = run.error /\ run.phase = "prepare"
    BY <1>0, <1>7 DEF PrepareOutDir, Runs
  <2>. QED
    BY <2>1
<1>8. CASE PrepareFails
  BY <1>0, <1>8, FailShape DEF PrepareFails
<1>9. CASE Capture
  <2> DEFINE a == Head(run.todo).agentId
  <2>1. run.todo # <<>> /\ a \in AgentIds /\ run.phase = "enrich"
    BY <1>9, Captured
  <2> HIDE DEF a
  <2>2. ASSUME NEW ev \in Fixtures, Write(a, ev) PROVE SparedInv'
    BY <2>1, <2>2, Written
  <2>3. CASE WriteFails(a)
    BY <1>0, <2>3, FailShape DEF WriteFails
  <2>4. CASE Skip
    BY <2>1, <2>4, Skipped
  <2>. QED
    BY <1>9, <2>2, <2>3, <2>4, Captured DEF a
<1>10. CASE Miss
  <2>1. run.todo # <<>> /\ Skip /\ run.phase = "enrich"
    BY <1>10 DEF Miss
  <2>. QED
    BY <2>1, Skipped
<1>11. CASE Finish
  <2>1. CASE Fail("nothing")
    BY <1>0, <1>11, <2>1, FailShape DEF Finish
  <2>2. CASE run' = [run EXCEPT !.phase = "ok"]
    <3>1. run'.phase = "ok" /\ run'.error = run.error /\ run.phase = "enrich"
      BY <1>0, <1>11, <2>2 DEF Finish, Runs
    <3>. QED
      BY <3>1
  <2>. QED
    BY <1>11, <2>1, <2>2 DEF Finish
<1>12. CASE UNCHANGED vars
  BY <1>12 DEF vars
<1>. QED
  BY <1>1, <1>2, <1>3, <1>4, <1>5, <1>6, <1>7, <1>8, <1>9, <1>10, <1>11, <1>12
  DEF Next, RunStep

(***************************************************************************)
(* The files of a run.                                                     *)
(***************************************************************************)

\* Nothing is counted before the walk is done, and then all of it is to do.
LEMMA FreshStep ==
  ASSUME SnapshotTypeOK, FreshInv, [Next]_vars
  PROVE  FreshInv'
<1> USE DEF FreshInv
<1>0. run \in Runs
  BY DEF SnapshotTypeOK
<1>1. ASSUME NEW a \in AgentIds, NEW row \in Rows, Import(a, row) PROVE FreshInv'
  BY <1>1, Imported
<1>2. CASE Start
  BY <1>2, Started
<1>3. CASE Crash
  BY <1>3, Crashed
<1>4. CASE FetchPage
  <2>1. /\ run.phase = "page" /\ summary' = summary
        /\ past'.answered = past.answered
        /\ run'.phase = "prepare" => run'.todo = walk'.collected
    BY <1>4, Fetched DEF FetchPage
  <2>. QED
    BY <2>1
<1>5. CASE FetchFails
  BY <1>0, <1>5, FailShape DEF FetchFails
<1>6. CASE Ceiling
  BY <1>0, <1>6, FailShape DEF Ceiling
<1>7. CASE PrepareOutDir
  BY <1>0, <1>7 DEF PrepareOutDir, Runs
<1>8. CASE PrepareFails
  BY <1>0, <1>8, FailShape DEF PrepareFails
<1>9. CASE Capture
  <2> DEFINE a == Head(run.todo).agentId
  <2>1. run.todo # <<>> /\ a \in AgentIds /\ run.phase = "enrich"
    BY <1>9, Captured
  <2> HIDE DEF a
  <2>2. ASSUME NEW ev \in Fixtures, Write(a, ev) PROVE FreshInv'
    BY <2>1, <2>2, Written
  <2>3. CASE WriteFails(a)
    BY <1>0, <2>3, FailShape DEF WriteFails
  <2>4. CASE Skip
    BY <2>1, <2>4, Skipped
  <2>. QED
    BY <1>9, <2>2, <2>3, <2>4, Captured DEF a
<1>10. CASE Miss
  <2>1. run.todo # <<>> /\ Skip /\ run.phase = "enrich"
    BY <1>10 DEF Miss
  <2>. QED
    BY <2>1, Skipped
<1>11. CASE Finish
  <2>1. run'.phase = "ok" \/ run'.phase = "failed"
    BY <1>0, <1>11, FailShape DEF Finish, Runs
  <2>. QED
    BY <2>1
<1>12. CASE UNCHANGED vars
  BY <1>12 DEF vars
<1>. QED
  BY <1>1, <1>2, <1>3, <1>4, <1>5, <1>6, <1>7, <1>8, <1>9, <1>10, <1>11, <1>12
  DEF Next, RunStep

\* The files of an unchanged directory.
LEMMA SameFiles ==
  ASSUME dir' = dir
  PROVE  Files' = Files /\ Loads' = Loads
BY DEF Files, Loads

\* Writing a valid event adds one file, and the directory still loads.
LEMMA OneMoreFile ==
  ASSUME SnapshotTypeOK, NEW a \in AgentIds, NEW ev \in Fixtures,
         dir' = [dir EXCEPT ![a] = ev], Valid(ev), Loads
  PROVE  /\ Files' = Files \cup {a} /\ Loads'
         /\ Cardinality(Files) \in Nat
         /\ Cardinality(Files') <= Cardinality(Files) + 1
<1>1. ev # NoFixture /\ ev # Torn
  BY SnapshotConstants
<1>2. dir'[a] = ev /\ \A b \in AgentIds \ {a} : dir'[b] = dir[b]
  BY DEF SnapshotTypeOK
<1>3. Files' = Files \cup {a}
  BY <1>1, <1>2 DEF Files
<1>4. Loads'
  BY <1>1, <1>2, <1>3 DEF Loads, Files
<1>5. IsFiniteSet(Files)
  BY FS_Subset, SearchConstants DEF Files
<1>6. Cardinality(Files \cup {a}) = IF a \in Files THEN Cardinality(Files) ELSE Cardinality(Files) + 1
  BY <1>5, FS_AddElement
<1>7. Cardinality(Files) \in Nat
  BY <1>5, FS_CardinalityType
<1>. QED
  BY <1>3, <1>4, <1>6, <1>7

\* An agent passed over is counted as an error, and leaves no file.
LEMMA SkipStep ==
  ASSUME SnapshotTypeOK, FixturesInv, run.phase = "enrich", run.todo # <<>>,
         Skip, UNCHANGED walk
  PROVE  FixturesInv'
<1>1. /\ run'.phase = "enrich" /\ run'.todo = Tail(run.todo)
      /\ summary'.captured = summary.captured /\ summary'.errors = summary.errors + 1
      /\ UNCHANGED <<dir, past, walk>>
  BY Skipped DEF Skip
<1>2. Files' = Files /\ Loads' = Loads /\ Collected' = Collected
        /\ Ids(run.todo)' = Ids(Tail(run.todo))
  BY <1>1, SameFiles DEF Collected, Ids
<1>3. /\ Ids(Tail(run.todo)) \subseteq Ids(run.todo)
      /\ Len(Tail(run.todo)) = Len(run.todo) - 1 /\ Len(run.todo) \in Nat
  BY TodoSeq
<1>4. /\ Loads /\ Files = past.answered /\ Files \subseteq Collected
      /\ Ids(run.todo) \subseteq Collected
      /\ Files = {} => summary.captured = 0
      /\ Cardinality(Files) <= summary.captured
      /\ summary.captured + summary.errors + Len(run.todo) = Len(walk.collected)
  BY DEF FixturesInv
<1>5. summary.captured \in Nat /\ summary.errors \in Nat
  BY DEF SnapshotTypeOK, Summaries
<1>6. summary'.captured + summary'.errors + Len(run'.todo) = Len(walk'.collected)
  BY <1>1, <1>3, <1>4, <1>5
<1>7. Cardinality(Files)' <= summary'.captured /\ (Files = {})' => summary'.captured = 0
  BY <1>1, <1>2, <1>4
<1>8. Loads' /\ Files' = past'.answered /\ Files' \subseteq Collected'
        /\ Ids(run.todo)' \subseteq Collected'
  BY <1>1, <1>2, <1>3, <1>4
<1>. QED
  BY <1>1, <1>2, <1>4, <1>6, <1>7, <1>8 DEF FixturesInv

\* While fixtures are written, the files are the answered badges.
LEMMA FixturesStep ==
  ASSUME SnapshotTypeOK, FreshInv, FixturesInv, [Next]_vars
  PROVE  FixturesInv'
<1>0. run \in Runs /\ summary.captured \in Nat /\ summary.errors \in Nat
        /\ Len(walk.collected) \in Nat /\ Len(run.todo) \in Nat
  BY DEF SnapshotTypeOK, Summaries, Walks, Runs
<1>1. ASSUME NEW a \in AgentIds, NEW row \in Rows, Import(a, row) PROVE FixturesInv'
  <2>1. /\ UNCHANGED <<run, walk, summary, dir>> /\ past'.answered = past.answered
    BY <1>1, Imported
  <2>. QED
    BY <2>1, SameFiles DEF FixturesInv, Collected
<1>2. CASE Start
  BY <1>2, Started DEF FixturesInv
<1>3. CASE Crash
  BY <1>3, Crashed DEF FixturesInv
<1>4. CASE FetchPage
  <2>1. run'.phase \in {"page", "prepare"}
    BY <1>4, Fetched
  <2>. QED
    BY <2>1 DEF FixturesInv
<1>5. CASE FetchFails
  BY <1>0, <1>5, FailShape DEF FetchFails, FixturesInv
<1>6. CASE Ceiling
  BY <1>0, <1>6, FailShape DEF Ceiling, FixturesInv
<1>7. CASE PrepareOutDir
  <2>1. /\ run'.phase = "enrich" /\ run'.todo = run.todo
        /\ UNCHANGED <<walk, summary, past>> /\ dir' = EmptyDir
    BY <1>0, <1>7 DEF PrepareOutDir, Runs
  <2>2. /\ run.todo = walk.collected /\ past.answered = {}
        /\ summary.captured = 0 /\ summary.errors = 0
    BY <1>7 DEF PrepareOutDir, FreshInv
  <2>3. Files' = {} /\ Loads'
    BY <2>1 DEF Files, Loads, EmptyDir
  <2>4. Cardinality(Files') = 0
    BY <2>3, FS_EmptySet
  <2>5. Ids(run.todo)' = Ids(walk.collected) /\ Collected' = Ids(walk.collected)
    BY <2>1, <2>2 DEF Ids, Collected
  <2>. QED
    BY <1>0, <2>1, <2>2, <2>3, <2>4, <2>5 DEF FixturesInv
<1>8. CASE PrepareFails
  BY <1>0, <1>8, FailShape DEF PrepareFails, FixturesInv
<1>9. CASE Capture
  <2> DEFINE a == Head(run.todo).agentId
  <2>1. /\ run.phase = "enrich" /\ run.todo # <<>> /\ a \in AgentIds
        /\ UNCHANGED <<catalog, imports, walk>>
    BY <1>9, Captured
  <2>2. /\ a \in Ids(run.todo) /\ Ids(Tail(run.todo)) \subseteq Ids(run.todo)
        /\ Len(Tail(run.todo)) = Len(run.todo) - 1
    BY <2>1, TodoSeq
  <2> HIDE DEF a
  <2>3. ASSUME NEW ev \in Fixtures, Valid(ev), Write(a, ev) PROVE FixturesInv'
    <3>1. /\ run'.phase = "enrich" /\ run'.todo = Tail(run.todo)
          /\ summary'.captured = summary.captured + 1 /\ summary'.errors = summary.errors
          /\ dir' = [dir EXCEPT ![a] = ev]
          /\ past'.answered = past.answered \cup {a}
      BY <2>1, <2>3, Written
    <3>2. /\ Files' = Files \cup {a} /\ Loads'
          /\ Cardinality(Files) \in Nat
          /\ Cardinality(Files') <= Cardinality(Files) + 1
      BY <2>1, <2>3, <3>1, OneMoreFile DEF FixturesInv
    <3>3. /\ Files = past.answered /\ Files \subseteq Collected
          /\ Ids(run.todo) \subseteq Collected
          /\ Cardinality(Files) <= summary.captured
          /\ summary.captured + summary.errors + Len(run.todo) = Len(walk.collected)
      BY <2>1 DEF FixturesInv
    <3>4. Collected' = Collected /\ Ids(run.todo)' = Ids(Tail(run.todo))
      BY <2>1, <3>1 DEF Collected, Ids
    <3>5. Cardinality(Files)' <= summary'.captured
      <4>1. Cardinality(Files') \in Nat
        BY <3>2, FS_AddElement, FS_CardinalityType, FS_Subset, SearchConstants DEF Files
      <4>. QED
        BY <1>0, <3>1, <3>2, <3>3, <4>1
    <3>6. summary'.captured + summary'.errors + Len(run'.todo) = Len(walk'.collected)
      BY <1>0, <2>1, <2>2, <3>1, <3>3
    <3>7. Files' # {} /\ Files' = past'.answered /\ Files' \subseteq Collected'
            /\ Ids(run.todo)' \subseteq Collected'
      BY <2>2, <3>1, <3>2, <3>3, <3>4
    <3>. QED
      BY <3>1, <3>2, <3>5, <3>6, <3>7 DEF FixturesInv
  <2>4. CASE WriteFails(a)
    BY <1>0, <2>4, FailShape DEF WriteFails, FixturesInv
  <2>5. CASE Skip
    BY <2>1, <2>5, SkipStep
  <2>. QED
    BY <1>9, <2>3, <2>4, <2>5, Captured DEF a
<1>10. CASE Miss
  BY <1>10, SkipStep DEF Miss
<1>11. CASE Finish
  <2>1. CASE Fail("nothing")
    BY <1>0, <2>1, FailShape DEF FixturesInv
  <2>2. CASE /\ walk.collected = <<>> \/ summary.captured # 0
             /\ run' = [run EXCEPT !.phase = "ok"]
    <3>1. /\ run.phase = "enrich" /\ run'.phase = "ok" /\ run'.todo = run.todo /\ run.todo = <<>>
          /\ UNCHANGED <<walk, summary, dir, past>>
      BY <1>0, <1>11, <2>2 DEF Finish, Runs
    <3>2. Files' = Files /\ Loads' = Loads /\ Collected' = Collected
            /\ Ids(run.todo)' = Ids(run.todo)
      BY <3>1, SameFiles DEF Collected, Ids
    <3>. QED
      BY <2>2, <3>1, <3>2 DEF FixturesInv
  <2>. QED
    BY <1>11, <2>1, <2>2 DEF Finish
<1>12. CASE UNCHANGED vars
  <2>1. /\ UNCHANGED <<run, walk, summary, dir>> /\ past'.answered = past.answered
    BY <1>12 DEF vars
  <2>2. /\ Files' = Files /\ Loads' = Loads /\ Collected' = Collected
        /\ Ids(run.todo)' = Ids(run.todo)
    BY <2>1, SameFiles DEF Collected, Ids
  <2>. QED
    BY <2>1, <2>2 DEF FixturesInv
<1>. QED
  BY <1>1, <1>2, <1>3, <1>4, <1>5, <1>6, <1>7, <1>8, <1>9, <1>10, <1>11, <1>12
  DEF Next, RunStep

(***************************************************************************)
(* The walk over a list that grows.                                        *)
(***************************************************************************)

\* An import that moves nobody only lengthens the list, and pushes its agents
\* back; in any case who is listed all along is listed after it.
LEMMA ImportPushesBack ==
  ASSUME SnapshotTypeOK, past.listed \subseteq Matches(catalog, Providers),
         NEW a \in AgentIds, NEW row \in Rows, Import(a, row)
  PROVE  /\ past'.listed \subseteq Matches(catalog', Providers)
         /\ past'.listed \subseteq past.listed
         /\ past'.moved = {} =>
              \A b \in Matches(catalog, Providers) :
                Rank(catalog, Providers, b) <= Rank(catalog', Providers, b)
<1> DEFINE old == catalog
           new == catalog'
<1>1. /\ old \in Catalogs /\ new \in Catalogs /\ new = [old EXCEPT ![a] = row]
      /\ row # NoRow
  BY Imported, SearchConstants DEF SnapshotTypeOK
<1>2. new[a] = row /\ \A b \in AgentIds \ {a} : new[b] = old[b]
  BY <1>1 DEF Catalogs
<1>3. past'.listed = IF Selected(row) THEN past.listed ELSE past.listed \ {a}
  BY Imported
<1>4. past'.moved = {} =>
        (a \in Matches(catalog, Providers) => Selected(row) /\ row.name = old[a].name)
  BY Imported
<1> HIDE DEF old, new
<1>5. \A b \in AgentIds \ {a} : b \in Matches(old, Providers) <=> b \in Matches(new, Providers)
  BY <1>2 DEF Matches
<1>6. Selected(row) => a \in Matches(new, Providers)
  BY <1>1, <1>2 DEF Matches, Selected
<1>7. Matches(old, Providers) \subseteq AgentIds
  BY DEF Matches
<1>8. past'.listed \subseteq Matches(new, Providers) /\ past'.listed \subseteq past.listed
  BY <1>3, <1>5, <1>6, <1>7 DEF old
<1>9. ASSUME past'.moved = {}, NEW b \in Matches(old, Providers)
      PROVE  Rank(old, Providers, b) <= Rank(new, Providers, b)
  <2>1. a \in Matches(old, Providers) => Selected(row) /\ row.name = old[a].name
    BY <1>4, <1>9 DEF old
  <2>2. Matches(old, Providers) \subseteq Matches(new, Providers)
    BY <1>5, <1>6, <1>7, <2>1
  <2>3. \A d \in Matches(old, Providers) : new[d].name = old[d].name
    BY <1>2, <1>7, <2>1
  <2>. QED
    BY <1>1, <2>2, <2>3, RankGrows
<1>. QED
  BY <1>8, <1>9 DEF old, new

\* A page read leaves nobody behind: who was ahead of the walk is on the page,
\* or ahead of the next one.
LEMMA FetchLeavesNobody ==
  ASSUME SnapshotTypeOK, FetchPage, walk.limit = 0, past'.strays = 0,
         NEW a \in Matches(catalog, Providers),
         a \in Collected \/ Rank(catalog, Providers, a) >= Offset(walk.next, PageSize)
  PROVE  \/ a \in Ids(walk'.collected)
         \/ walk'.next # 0 /\ Rank(catalog, Providers, a) >= Offset(walk'.next, PageSize)
<1> DEFINE answer == Answer(walk.next)
           found == walk.collected \o answer
           n == PageLength(Providers, walk.next, PageSize)
           items == Items(Providers, walk.next, PageSize)
           place == Rank(catalog, Providers, a)
           end == Offset(walk.next, PageSize) + clampSize(PageSize)
<1>1. /\ catalog \in Catalogs /\ walk.next \in Nat /\ PageSize \in Nat
      /\ walk.collected \in Seq(Found)
  BY SnapshotConstants DEF SnapshotTypeOK, Walks
<1>2. /\ found \in Seq(Found)
      /\ walk'.collected = Limited(found)
      /\ walk'.next = NextToken(Providers, walk.next, PageSize)
  BY Fetched
<1>3. walk'.collected = found
  BY <1>2 DEF Limited
<1>4. /\ answer \in Seq(Found) /\ Len(answer) = n /\ n \in Nat
      /\ \A i \in 1 .. n : answer[i].agentId = items[i]
  BY <1>1, AnswerSeq
<1> HIDE DEF answer
<1>5. Ids(walk.collected) \subseteq Ids(found) /\ Ids(answer) \subseteq Ids(found)
  BY <1>1, <1>4, IdsConcat
<1>6. a \in Collected => a \in Ids(found)
  BY <1>5 DEF Collected, Ids
<1>7. ASSUME place >= Offset(walk.next, PageSize), place < end
      PROVE  a \in Ids(found)
  <2>1. \E i \in 1 .. n : items[i] = a
    BY <1>1, <1>7, PageComplete
  <2>2. \E i \in 1 .. n : answer[i].agentId = a
    BY <1>4, <2>1
  <2>3. DOMAIN answer = 1 .. n
    BY <1>4
  <2>4. a \in Ids(answer)
    BY <2>2, <2>3 DEF Ids
  <2>. QED
    BY <1>5, <2>4
<1>8. ASSUME place >= end
      PROVE  walk'.next # 0 /\ place >= Offset(walk'.next, PageSize)
  <2>1. /\ walk'.next = 0 => Cardinality(Matches(catalog, Providers)) <= end
        /\ walk'.next # 0 => Offset(walk'.next, PageSize) <= end
        /\ walk'.next \in Nat
    BY <1>1, <1>2, NextPage
  <2>2. place \in Nat /\ place < Cardinality(Matches(catalog, Providers))
    BY <1>1, RankNat, RankBelow
  <2>3. Cardinality(Matches(catalog, Providers)) \in Nat
    BY <1>1, ListLength
  <2>4. end \in Nat
    <3>1. Offset(walk.next, PageSize) \in Nat /\ clampSize(PageSize) \in 1 .. MaxSize
      BY <1>1, PagesNat
    <3>. QED
      BY <3>1, SearchConstants
  <2>5. walk'.next # 0 => Offset(walk'.next, PageSize) \in Nat
    BY <1>1, <2>1, PagesNat
  <2> HIDE DEF place, end
  <2>6. walk'.next # 0
    BY <1>8, <2>1, <2>2, <2>3, <2>4
  <2>. QED
    BY <1>8, <2>1, <2>2, <2>4, <2>5, <2>6
<1>9. place \in Nat /\ end \in Nat
  <2>1. Offset(walk.next, PageSize) \in Nat /\ clampSize(PageSize) \in 1 .. MaxSize
    BY <1>1, PagesNat
  <2>2. place \in Nat
    BY <1>1, RankNat
  <2>. QED
    BY <2>1, <2>2, SearchConstants
<1> HIDE DEF place, end
<1>10. place < end \/ place >= end
  BY <1>9
<1>. QED
  BY <1>3, <1>6, <1>7, <1>8, <1>10 DEF place

\* The rest of the run leaves the walk and the list alone.
LEMMA WalkOver ==
  ASSUME SnapshotTypeOK,
         FetchFails \/ Ceiling \/ PrepareOutDir \/ PrepareFails \/ Capture \/ Miss \/ Finish
  PROVE  /\ UNCHANGED <<catalog, imports, walk>>
         /\ past'.listed = past.listed /\ past'.moved = past.moved
         /\ past'.strays = past.strays
         /\ run.phase # "idle" /\ run'.phase # "idle" /\ run'.phase # "page"
         /\ run'.phase \in {"prepare", "enrich", "ok"} => run.phase \in {"prepare", "enrich", "ok"}
<1>0. run \in Runs
  BY DEF SnapshotTypeOK
<1>1. CASE FetchFails
  BY <1>0, <1>1, FailShape DEF FetchFails
<1>2. CASE Ceiling
  BY <1>0, <1>2, FailShape DEF Ceiling
<1>3. CASE PrepareOutDir
  BY <1>0, <1>3 DEF PrepareOutDir, Runs
<1>4. CASE PrepareFails
  BY <1>0, <1>4, FailShape DEF PrepareFails
<1>5. CASE Capture
  <2> DEFINE a == Head(run.todo).agentId
  <2>1. /\ run.todo # <<>> /\ a \in AgentIds /\ run.phase = "enrich"
        /\ UNCHANGED <<catalog, imports, walk>>
    BY <1>5, Captured
  <2> DEFINE Goal == /\ past'.listed = past.listed /\ past'.moved = past.moved
                     /\ past'.strays = past.strays
                     /\ run'.phase \in {"enrich", "failed"}
  <2> HIDE DEF a
  <2>2. ASSUME NEW ev \in Fixtures, Write(a, ev) PROVE Goal
    BY <2>1, <2>2, Written
  <2>3. ASSUME WriteFails(a) PROVE Goal
    <3>1. run'.phase = "failed"
      BY <1>0, <2>3, FailShape DEF WriteFails
    <3>2. past' = past
      BY <2>3 DEF WriteFails
    <3>. QED
      BY <3>1, <3>2
  <2>4. ASSUME Skip PROVE Goal
    BY <2>1, <2>4, Skipped DEF Skip
  <2> HIDE DEF Goal
  <2>5. Goal
    BY <1>5, <2>2, <2>3, <2>4, Captured DEF a
  <2>. QED
    BY <2>1, <2>5 DEF Goal
<1>6. CASE Miss
  <2>1. run'.phase = run.phase /\ run.phase = "enrich" /\ past' = past
    BY <1>6, Skipped DEF Miss, Skip
  <2>. QED
    BY <1>6, <2>1 DEF Miss
<1>7. CASE Finish
  <2>1. run.phase = "enrich" /\ run'.phase \in {"ok", "failed"}
    BY <1>0, <1>7, FailShape DEF Finish, Runs
  <2>. QED
    BY <1>7, <2>1 DEF Finish
<1>. QED
  BY <1>1, <1>2, <1>3, <1>4, <1>5, <1>6, <1>7

\* The walk leaves nobody behind who was on the list all along.
LEMMA AheadStep ==
  ASSUME SnapshotTypeOK, AheadInv, [Next]_vars
  PROVE  AheadInv'
<1> USE DEF AheadInv, WalkSkipsNobody, Walked, Undisturbed
<1>1. ASSUME NEW a \in AgentIds, NEW row \in Rows, Import(a, row) PROVE AheadInv'
  <2>1. /\ past'.listed \subseteq Matches(catalog', Providers)
        /\ past'.listed \subseteq past.listed
        /\ past'.moved = {} =>
             \A b \in Matches(catalog, Providers) :
               Rank(catalog, Providers, b) <= Rank(catalog', Providers, b)
    BY <1>1, ImportPushesBack
  <2>2. /\ UNCHANGED <<run, walk>> /\ past'.strays = past.strays
        /\ past'.moved = {} => past.moved = {}
    BY <1>1, Imported
  <2>3. Collected' = Collected
    BY <2>2 DEF Collected
  <2>4. catalog \in Catalogs /\ catalog' \in Catalogs
    BY <1>1, Imported DEF SnapshotTypeOK
  <2>5. Offset(walk.next, PageSize) \in Nat
    BY PagesNat, SnapshotConstants DEF SnapshotTypeOK, Walks
  <2>6. ASSUME run'.phase = "page", walk'.limit = 0, Undisturbed',
               NEW b \in past'.listed \ Collected'
        PROVE  Rank(catalog', Providers, b) >= Offset(walk'.next, PageSize)
    <3>1. b \in Matches(catalog, Providers) /\ b \in past.listed \ Collected
      BY <2>1, <2>3
    <3>2. Rank(catalog, Providers, b) >= Offset(walk.next, PageSize)
      BY <2>2, <2>6, <3>1
    <3>3. Rank(catalog, Providers, b) <= Rank(catalog', Providers, b)
      BY <2>1, <2>6, <3>1
    <3>4. Rank(catalog, Providers, b) \in Nat /\ Rank(catalog', Providers, b) \in Nat
      BY <2>4, RankNat
    <3>. QED
      BY <2>2, <2>5, <3>2, <3>3, <3>4
  <2>7. WalkSkipsNobody'
    BY <2>1, <2>2, <2>3
  <2>. QED
    BY <2>1, <2>6, <2>7
<1>2. CASE Start
  <2>1. /\ run'.phase = "page" /\ walk'.next = 1 /\ walk'.collected = <<>>
        /\ past'.listed = Matches(catalog, Providers) /\ catalog' = catalog
    BY <1>2, Started
  <2>2. Offset(1, PageSize) = 0
    <3>1. effectivePage(1) = 1
      BY SearchConstants DEF effectivePage
    <3>2. clampSize(PageSize) \in 1 .. MaxSize /\ MaxSize \in Nat
      <4>1. PageSize \in Nat /\ 1 \in Nat /\ MaxSize \in Nat
        BY SnapshotConstants, SearchConstants
      <4>. QED
        BY <4>1, PagesNat
    <3>. QED
      BY <3>1, <3>2 DEF Offset
  <2>3. \A b \in past'.listed : Rank(catalog', Providers, b) >= Offset(walk'.next, PageSize)
    <3>1. \A b : Rank(catalog, Providers, b) \in Nat
      BY RankNat DEF SnapshotTypeOK
    <3>. QED
      BY <2>1, <2>2, <3>1
  <2>. QED
    BY <2>1, <2>3
<1>3. CASE Crash
  <2>1. run'.phase = "idle" /\ past' = past /\ catalog' = catalog
    BY <1>3, Crashed DEF Crash
  <2>. QED
    BY <2>1
<1>4. CASE FetchPage
  <2>1. /\ run.phase = "page" /\ run'.phase \in {"page", "prepare"}
        /\ walk'.limit = walk.limit /\ past'.listed = past.listed
        /\ past'.moved = past.moved
        /\ past'.strays = 0 => past.strays = 0
        /\ walk'.next = 0 => run'.phase = "prepare"
        /\ run'.phase = "prepare" /\ walk'.limit = 0 => walk'.next = 0
    <3> DEFINE found == walk.collected \o Answer(walk.next)
    <3>1. /\ run.phase = "page"
          /\ walk'.limit = walk.limit /\ past'.listed = past.listed
          /\ past'.moved = past.moved
          /\ past'.strays = 0 => past.strays = 0
          /\ run'.phase = IF LimitReached(found) \/ walk'.next = 0 THEN "prepare" ELSE "page"
      BY <1>4, Fetched
    <3>2. walk.limit = 0 => ~LimitReached(found)
      BY DEF LimitReached
    <3> HIDE DEF found
    <3>. QED
      BY <3>1, <3>2
  <2>2. catalog' = catalog
    BY <1>4 DEF FetchPage
  <2>3. ASSUME walk'.limit = 0, Undisturbed', NEW b \in past'.listed
        PROVE  \/ b \in Ids(walk'.collected)
               \/ walk'.next # 0 /\ Rank(catalog, Providers, b) >= Offset(walk'.next, PageSize)
    <3>1. b \in Matches(catalog, Providers) /\ walk.limit = 0 /\ Undisturbed
      BY <2>1, <2>3
    <3>2. b \in Collected \/ Rank(catalog, Providers, b) >= Offset(walk.next, PageSize)
      BY <2>1, <2>3, <3>1
    <3>. QED
      BY <1>4, <2>3, <3>1, <3>2, FetchLeavesNobody
  <2>4. Collected' = Ids(walk'.collected)
    BY DEF Collected, Ids
  <2>. QED
    BY <2>1, <2>2, <2>3, <2>4
<1>5. CASE FetchFails \/ Ceiling \/ PrepareOutDir \/ PrepareFails \/ Capture \/ Miss \/ Finish
  <2>1. Collected' = Collected
    BY <1>5, WalkOver DEF Collected
  <2>. QED
    BY <1>5, <2>1, WalkOver
<1>6. CASE UNCHANGED vars
  <2>1. Collected' = Collected /\ UNCHANGED <<catalog, walk, run, past>>
    BY <1>6 DEF vars, Collected
  <2>. QED
    BY <2>1
<1>. QED
  BY <1>1, <1>2, <1>3, <1>4, <1>5, <1>6 DEF Next, RunStep

(***************************************************************************)
(* The walk over a quiet list.                                             *)
(***************************************************************************)

\* Where the pages of a list all have numbers, a next link is the place after
\* this page, which is full; without one the page is the rest of the list.
LEMMA NextPlace ==
  ASSUME catalog \in Catalogs, NEW providers, NEW page \in Nat, NEW size \in Nat,
         Cardinality(Matches(catalog, providers)) <= MaxPage * clampSize(size),
         Offset(page, size) <= Cardinality(Matches(catalog, providers))
  PROVE  LET next == NextToken(providers, page, size)
             n    == PageLength(providers, page, size)
             N    == Cardinality(Matches(catalog, providers))
         IN  /\ next = 0 => Offset(page, size) + n = N
             /\ next # 0 => /\ Offset(next, size) = Offset(page, size) + n
                            /\ Offset(page, size) + n < N
<1> DEFINE p == effectivePage(page)
           c == clampSize(size)
           N == Cardinality(Matches(catalog, providers))
           start == Offset(page, size)
           next == NextToken(providers, page, size)
           n == PageLength(providers, page, size)
<1>1. N \in Nat
  BY ListLength
<1>2. p \in 1 .. MaxPage /\ c \in 1 .. MaxSize /\ start \in Nat
  BY PagesNat
<1>3. MaxPage \in Nat /\ MaxSize \in Nat
  BY SearchConstants
<1>4. p \in Nat \ {0} /\ p <= MaxPage /\ c \in Nat \ {0}
  BY <1>2, <1>3
<1>5. next = IF N > start + c THEN p + 1 ELSE 0
  BY DEF NextToken, HasNext
<1>6. n = IF N - start < 0 THEN 0 ELSE IF N - start > c THEN c ELSE N - start
  BY DEF PageLength
<1>7. start = (p - 1) * c
  BY DEF Offset
<1>8. p * c = (p - 1) * c + c
  BY <1>4
<1>9. ASSUME N > start + c
      PROVE  Offset(p + 1, size) = start + c
  <2>1. p # MaxPage
    <3>1. ASSUME p = MaxPage PROVE FALSE
      <4>1. N <= p * c
        BY <3>1
      <4>2. p * c = start + c
        BY <1>7, <1>8
      <4> HIDE DEF p, c, N, start
      <4>3. N <= start + c
        BY <4>1, <4>2
      <4>. QED
        BY <1>1, <1>2, <1>4, <1>9, <4>3
    <3>. QED
      BY <3>1
  <2>2. p + 1 \in Nat /\ ~(p + 1 < 1) /\ ~(p + 1 > MaxPage) /\ p + 1 - 1 = p
    BY <1>3, <1>4, <2>1
  <2>3. effectivePage(p + 1) = p + 1
    BY <2>2 DEF effectivePage
  <2>4. PICK q : q = effectivePage(p + 1)
    OBVIOUS
  <2>5. Offset(p + 1, size) = (q - 1) * c
    BY <2>4 DEF Offset
  <2>6. q - 1 = p
    <3>1. q = p + 1
      BY <2>3, <2>4
    <3> HIDE DEF p
    <3>. QED
      BY <1>4, <3>1
  <2> HIDE DEF p, c, N, start
  <2>7. Offset(p + 1, size) = p * c
    BY <2>5, <2>6
  <2>. QED
    BY <1>7, <1>8, <2>7
<1> HIDE DEF p, c, N, start, next, n
<1>10. start <= N
  BY DEF start, N
<1>11. CASE N > start + c
  <2>1. n = c /\ next = p + 1
    BY <1>1, <1>2, <1>4, <1>5, <1>6, <1>11
  <2>2. next # 0
    BY <1>4, <2>1
  <2>3. Offset(next, size) = start + n /\ start + n < N
    BY <1>1, <1>2, <1>4, <1>9, <1>11, <2>1
  <2>. QED
    BY <2>2, <2>3 DEF next, n, N, start
<1>12. CASE ~(N > start + c)
  <2>1. next = 0 /\ start + n = N
    BY <1>1, <1>2, <1>4, <1>5, <1>6, <1>10, <1>12
  <2>. QED
    BY <2>1 DEF next, n, N, start
<1>. QED
  BY <1>11, <1>12

\* A page read on a quiet list appends the agents of the next places.
LEMMA FetchQuiet ==
  ASSUME SnapshotTypeOK, FetchPage, past'.strays = 0,
         Cardinality(Matches(catalog, Providers)) <= MaxPage * clampSize(PageSize),
         \A k \in DOMAIN walk.collected :
           Rank(catalog, Providers, walk.collected[k].agentId) = k - 1,
         Len(walk.collected) = Offset(walk.next, PageSize),
         Len(walk.collected) <= Cardinality(Matches(catalog, Providers)),
         walk.limit > 0 => Len(walk.collected) < walk.limit
  PROVE  LET N == Cardinality(Matches(catalog, Providers))
             l == Len(walk'.collected)
         IN  /\ \A k \in DOMAIN walk'.collected :
                  Rank(catalog, Providers, walk'.collected[k].agentId) = k - 1
             /\ run'.phase = "page" =>
                  /\ walk'.next # 0 /\ l = Offset(walk'.next, PageSize) /\ l <= N
                  /\ walk.limit > 0 => l < walk.limit
             /\ run'.phase = "prepare" =>
                  l = IF walk.limit > 0 /\ walk.limit < N THEN walk.limit ELSE N
<1> DEFINE N == Cardinality(Matches(catalog, Providers))
           start == Offset(walk.next, PageSize)
           answer == Answer(walk.next)
           found == walk.collected \o answer
           n == PageLength(Providers, walk.next, PageSize)
<1>1. /\ catalog \in Catalogs /\ walk.next \in Nat /\ PageSize \in Nat
      /\ walk.collected \in Seq(Found) /\ walk.limit \in Nat
  BY SnapshotConstants DEF SnapshotTypeOK, Walks
<1>2. N \in Nat /\ start \in Nat /\ Len(walk.collected) = start
  BY <1>1, ListLength, PagesNat
<1>3. /\ answer \in Seq(Found) /\ Len(answer) = n /\ n \in Nat
      /\ \A i \in 1 .. n : Rank(catalog, Providers, answer[i].agentId) = start + i - 1
  BY <1>1, AnswerSeq
<1>4. /\ walk'.next = 0 => start + n = N
      /\ walk'.next # 0 => Offset(walk'.next, PageSize) = start + n /\ start + n < N
  <2>1. walk'.next = NextToken(Providers, walk.next, PageSize)
    BY Fetched
  <2>2. Offset(walk.next, PageSize) <= Cardinality(Matches(catalog, Providers))
    BY <1>2
  <2>. QED
    BY <1>1, <2>1, <2>2, NextPlace
<1>5. /\ walk'.collected = Limited(found)
      /\ run'.phase = IF LimitReached(found) \/ walk'.next = 0 THEN "prepare" ELSE "page"
  BY Fetched
<1> HIDE DEF answer
<1>6. /\ found \in Seq(Found)
      /\ Len(found) = Len(walk.collected) + Len(answer)
      /\ \A k \in 1 .. Len(walk.collected) : found[k] = walk.collected[k]
      /\ \A k \in 1 .. Len(answer) : found[Len(walk.collected) + k] = answer[k]
  BY <1>1, <1>3, IdsConcat
<1>7. /\ found \in Seq(Found) /\ Len(found) = start + n
      /\ \A k \in 1 .. start : found[k] = walk.collected[k]
      /\ \A k \in 1 .. n : found[start + k] = answer[k]
  BY <1>2, <1>3, <1>6
<1> HIDE DEF N, start, found, n
<1>8. \A k \in 1 .. start + n : Rank(catalog, Providers, found[k].agentId) = k - 1
  <2> SUFFICES ASSUME NEW k \in 1 .. start + n
               PROVE  Rank(catalog, Providers, found[k].agentId) = k - 1
    OBVIOUS
  <2>1. CASE k <= start
    <3>1. k \in 1 .. start /\ k \in DOMAIN walk.collected
      BY <1>1, <1>2, <2>1
    <3>. QED
      BY <1>7, <3>1
  <2>2. CASE k > start
    <3>1. PICK i \in 1 .. n : k = start + i
      <4>1. k - start \in 1 .. n /\ k = start + (k - start)
        BY <1>2, <1>3, <2>2
      <4>. QED
        BY <4>1
    <3>2. found[k] = answer[i]
      BY <1>7, <3>1
    <3>. QED
      BY <1>2, <1>3, <3>1, <3>2
  <2>. QED
    BY <1>2, <1>3, <2>1, <2>2
<1>9. /\ Limited(found) \in Seq(Found)
      /\ Len(Limited(found)) = IF walk.limit > 0 /\ start + n > walk.limit
                               THEN walk.limit ELSE start + n
      /\ \A k \in 1 .. Len(Limited(found)) : Limited(found)[k] = found[k]
  BY <1>7, LimitedSeq
<1>10. \A k \in DOMAIN walk'.collected :
         Rank(catalog, Providers, walk'.collected[k].agentId) = k - 1
  <2>1. DOMAIN Limited(found) \subseteq 1 .. start + n
    BY <1>1, <1>2, <1>3, <1>9
  <2>2. DOMAIN Limited(found) = 1 .. Len(Limited(found))
    BY <1>9
  <2>. QED
    BY <1>5, <1>8, <1>9, <2>1, <2>2
<1>11. LimitReached(found) <=> walk.limit > 0 /\ start + n >= walk.limit
  BY <1>7 DEF LimitReached
<1>12. ASSUME run'.phase = "page"
       PROVE  /\ walk'.next # 0 /\ Len(walk'.collected) = Offset(walk'.next, PageSize)
              /\ Len(walk'.collected) <= N
              /\ walk.limit > 0 => Len(walk'.collected) < walk.limit
  <2>1. walk'.next # 0 /\ ~(walk.limit > 0 /\ start + n >= walk.limit)
    BY <1>5, <1>11, <1>12
  <2>2. Len(walk'.collected) = start + n
    BY <1>1, <1>2, <1>3, <1>5, <1>9, <2>1
  <2>. QED
    BY <1>1, <1>2, <1>3, <1>4, <2>1, <2>2
<1>13. ASSUME run'.phase = "prepare"
       PROVE  Len(walk'.collected) = IF walk.limit > 0 /\ walk.limit < N THEN walk.limit ELSE N
  <2>1. walk'.next = 0 \/ (walk.limit > 0 /\ start + n >= walk.limit)
    BY <1>5, <1>11, <1>13
  <2>2. start + n <= N /\ (walk'.next = 0 => start + n = N)
    BY <1>2, <1>3, <1>4
  <2>3. Len(walk'.collected) = IF walk.limit > 0 /\ start + n > walk.limit
                               THEN walk.limit ELSE start + n
    BY <1>5, <1>9
  <2>. QED
    BY <1>1, <1>2, <1>3, <2>1, <2>2, <2>3
<1>. QED
  BY <1>10, <1>12, <1>13 DEF N

\* A walk over a quiet list has read the places before the page it is at.
LEMMA QuietStep ==
  ASSUME SnapshotTypeOK, QuietInv, [Next]_vars
  PROVE  QuietInv'
<1> USE DEF QuietInv, QuietWalkIsTheList, Walked, Undisturbed
<1>1. ASSUME NEW a \in AgentIds, NEW row \in Rows, Import(a, row) PROVE QuietInv'
  <2>1. imports' = imports + 1 /\ imports \in Nat
    <3>1. imports' = imports + 1
      BY <1>1 DEF Import
    <3>2. imports \in 0 .. MaxImports
      BY DEF SnapshotTypeOK
    <3>. QED
      BY <3>1, <3>2
  <2>. QED
    BY <2>1
<1>2. CASE Start
  <2>1. /\ run'.phase = "page" /\ walk'.next = 1 /\ walk'.collected = <<>>
        /\ walk'.limit \in Nat
        /\ past'.listed = Matches(catalog, Providers) /\ catalog' = catalog
    BY <1>2, Started
  <2>2. Offset(1, PageSize) = 0
    <3>1. effectivePage(1) = 1
      BY SearchConstants DEF effectivePage
    <3>2. clampSize(PageSize) \in 1 .. MaxSize /\ MaxSize \in Nat
      <4>1. PageSize \in Nat /\ 1 \in Nat /\ MaxSize \in Nat
        BY SnapshotConstants, SearchConstants
      <4>. QED
        BY <4>1, PagesNat
    <3>. QED
      BY <3>1, <3>2 DEF Offset
  <2>3. Len(walk'.collected) = 0 /\ \A k \in DOMAIN walk'.collected : FALSE
    BY <2>1
  <2>4. Cardinality(Matches(catalog, Providers)) \in Nat
    BY ListLength DEF SnapshotTypeOK
  <2>. QED
    BY <2>1, <2>2, <2>3, <2>4
<1>3. CASE Crash
  <2>1. run'.phase = "idle"
    BY <1>3, Crashed
  <2>. QED
    BY <2>1
<1>4. CASE FetchPage
  <2>1. /\ run.phase = "page" /\ run'.phase \in {"page", "prepare"}
        /\ walk'.limit = walk.limit /\ past'.listed = past.listed
        /\ past'.moved = past.moved
        /\ past'.strays = 0 => past.strays = 0
    BY <1>4, Fetched
  <2>2. catalog' = catalog /\ imports' = imports
    BY <1>4 DEF FetchPage
  <2>3. ASSUME imports = 0, Undisturbed',
               Cardinality(Matches(catalog, Providers)) <= MaxPage * clampSize(PageSize)
        PROVE  LET N == Cardinality(Matches(catalog, Providers))
                   l == Len(walk'.collected)
               IN  /\ \A k \in DOMAIN walk'.collected :
                        Rank(catalog, Providers, walk'.collected[k].agentId) = k - 1
                   /\ run'.phase = "page" =>
                        /\ walk'.next # 0 /\ l = Offset(walk'.next, PageSize) /\ l <= N
                        /\ walk.limit > 0 => l < walk.limit
                   /\ run'.phase = "prepare" =>
                        l = IF walk.limit > 0 /\ walk.limit < N THEN walk.limit ELSE N
    <3>1. /\ past'.strays = 0 /\ past.listed = Matches(catalog, Providers)
          /\ \A k \in DOMAIN walk.collected :
               Rank(catalog, Providers, walk.collected[k].agentId) = k - 1
          /\ Len(walk.collected) = Offset(walk.next, PageSize)
          /\ Len(walk.collected) <= Cardinality(Matches(catalog, Providers))
          /\ walk.limit > 0 => Len(walk.collected) < walk.limit
      BY <2>1, <2>3
    <3>. QED
      BY <1>4, <2>3, <3>1, FetchQuiet
  <2>4. imports = 0 => past.listed = Matches(catalog, Providers)
    BY <2>1
  <2>. QED
    BY <2>1, <2>2, <2>3, <2>4
<1>5. CASE FetchFails \/ Ceiling \/ PrepareOutDir \/ PrepareFails \/ Capture \/ Miss \/ Finish
  BY <1>5, WalkOver
<1>6. CASE UNCHANGED vars
  BY <1>6 DEF vars
<1>. QED
  BY <1>1, <1>2, <1>3, <1>4, <1>5, <1>6 DEF Next, RunStep

(***************************************************************************)
(* The theorems.                                                           *)
(***************************************************************************)

\* Initially there is no run.
LEMMA SnapshotInit ==
  ASSUME Init
  PROVE  SnapshotInv
<1>1. run.phase = "idle" /\ run.error = "none" /\ past.listed = {}
  BY DEF Init, IdleRun, NewPast
<1>2. SnapshotTypeOK
  <2>1. EmptyDir \in [AgentIds -> Fixtures \cup {NoFixture, Torn}]
    BY DEF EmptyDir
  <2>2. {} \in SUBSET AgentIds /\ 0 \in Nat /\ 0 \in 0 .. MaxImports
    BY SnapshotConstants
  <2>. QED
    BY <2>1, <2>2, NewShapes DEF Init, SnapshotTypeOK
<1>. QED
  BY <1>1, <1>2
  DEF SnapshotInv, SparedInv, FreshInv, FixturesInv, AheadInv, QuietInv,
      WalkSkipsNobody, Walked, Running

\* Every step keeps the invariant.
LEMMA SnapshotStep ==
  ASSUME SnapshotInv, [Next]_vars
  PROVE  SnapshotInv'
BY TypeStep, SparedStep, FreshStep, FixturesStep, AheadStep, QuietStep DEF SnapshotInv

\* The inductive invariant holds.
THEOREM SnapshotInvariant == Spec => []SnapshotInv
<1>1. Init => SnapshotInv
  BY SnapshotInit
<1>2. SnapshotInv /\ [Next]_vars => SnapshotInv'
  BY SnapshotStep
<1>. QED
  BY <1>1, <1>2, PTL DEF Spec

\* The run, its walk and its directory keep their shapes, whatever agents are
\* registered, whatever links the search hands out and wherever the process dies.
THEOREM SnapshotTypesHold == Spec => []SnapshotTypeOK
<1>1. SnapshotInv => SnapshotTypeOK
  BY DEF SnapshotInv
<1>. QED
  BY <1>1, SnapshotInvariant, PTL

\* SearchAgents passes over nobody who was on the list all along, while agents
\* only join it.
THEOREM SkipsNobody == Spec => []WalkSkipsNobody
<1>1. SnapshotInv => WalkSkipsNobody
  BY DEF SnapshotInv, AheadInv
<1>. QED
  BY <1>1, SnapshotInvariant, PTL

\* The walk of SearchAgents over a quiet list is the list.
THEOREM QuietWalk == Spec => []QuietWalkIsTheList
<1>1. SnapshotInv => QuietWalkIsTheList
  <2>1. Walked => run.phase # "idle"
    BY DEF Walked
  <2>. QED
    BY <2>1 DEF SnapshotInv, QuietInv, QuietWalkIsTheList
<1>. QED
  BY <1>1, SnapshotInvariant, PTL

\* Run leaves the directory alone when the search fails.
THEOREM SparesFixtures == Spec => []SearchTroubleSparesFixtures
<1>1. SnapshotInv => SearchTroubleSparesFixtures
  BY DEF SnapshotInv, SparedInv, SearchTroubleSparesFixtures
<1>. QED
  BY <1>1, SnapshotInvariant, PTL

\* A green Run leaves a directory that LoadDir accepts, the files being those of
\* the badges that came, and every agent is accounted for.
THEOREM GreenLoads == Spec => []GreenSnapshotLoads
<1>1. SnapshotInv => GreenSnapshotLoads
  <2> SUFFICES ASSUME SnapshotInv, run.phase = "ok" PROVE GreenSnapshotLoads
    BY DEF GreenSnapshotLoads
  <2>1. /\ Loads /\ Files = past.answered /\ Files \subseteq Collected
        /\ Files = {} => summary.captured = 0
        /\ Cardinality(Files) <= summary.captured
        /\ summary.captured + summary.errors + Len(run.todo) = Len(walk.collected)
        /\ run.todo = <<>>
        /\ walk.collected = <<>> \/ summary.captured # 0
    BY DEF SnapshotInv, FixturesInv
  <2>2. summary.captured + summary.errors = Len(walk.collected)
    <3>1. summary.captured \in Nat /\ summary.errors \in Nat
      BY DEF SnapshotInv, SnapshotTypeOK, Summaries
    <3>2. Len(run.todo) = 0
      BY <2>1
    <3>. QED
      BY <2>1, <3>1, <3>2
  <2>. QED
    BY <2>1, <2>2 DEF GreenSnapshotLoads
<1>. QED
  BY <1>1, SnapshotInvariant, PTL

(***************************************************************************)
(* The end of a run: a measure of the work that is left.                   *)
(***************************************************************************)

\* A page costs its request and a step for each of its agents.
PageCost == clampSize(PageSize) + 1

RunBound == MaxPagesWalk * PageCost + 3

\* The steps a run may still take at most.
WorkLeft ==
  CASE run.phase = "page" ->
         (MaxPagesWalk - walk.pages) * PageCost + Len(walk.collected) + 3
    [] run.phase = "prepare" -> Len(run.todo) + 2
    [] run.phase = "enrich" -> Len(run.todo) + 1
    [] OTHER -> 0

\* The walk counts its pages (maxPagesWalk).
PagesCounted == run.phase = "page" => walk.pages <= MaxPagesWalk

\* What is left is a number of steps within the bound, and none only of a run
\* that is over.
WorkIsBounded == WorkLeft \in 0 .. RunBound /\ (Running => WorkLeft > 0)

\* Every step of the run lowers what is left, and nothing but a new run raises
\* it: no import that lengthens the list, no link that leads back.
WorkShrinks ==
  [][/\ RunStep => WorkLeft' < WorkLeft
     /\ ~Start => WorkLeft' <= WorkLeft]_vars

\* A page that is paid for leaves the others their cost.
LEMMA PagePaid ==
  /\ PageCost \in Nat /\ PageCost = clampSize(PageSize) + 1 /\ clampSize(PageSize) \in Nat
  /\ \A n \in Nat : n * PageCost \in Nat /\ (n + 1) * PageCost = n * PageCost + PageCost
<1>1. clampSize(PageSize) \in Nat /\ PageCost \in Nat
  <2>1. clampSize(PageSize) \in Nat
    BY SnapshotConstants, SearchConstants DEF clampSize
  <2>. QED
    BY <2>1 DEF PageCost
<1>2. \A c, n \in Nat : n * c \in Nat /\ (n + 1) * c = n * c + c
  BY SMT
<1>. QED
  BY <1>1, <1>2 DEF PageCost

\* A page adds at most its size to what is collected (SearchAgents).
LEMMA PageAdds ==
  ASSUME SnapshotTypeOK, FetchPage
  PROVE  /\ Len(walk'.collected) \in Nat /\ Len(walk.collected) \in Nat
         /\ Len(walk'.collected) <= Len(walk.collected) + clampSize(PageSize)
         /\ walk'.pages = walk.pages + 1
<1>. DEFINE found == walk.collected \o Answer(walk.next)
            n     == PageLength(Providers, walk.next, PageSize)
<1>1. /\ walk \in Walks /\ walk.next \in Nat /\ walk.collected \in Seq(Found)
      /\ walk.limit \in Nat /\ catalog \in Catalogs /\ PageSize \in Nat
  BY SnapshotConstants DEF SnapshotTypeOK, Walks
<1>2. Answer(walk.next) \in Seq(Found) /\ Len(Answer(walk.next)) = n
  BY <1>1, AnswerSeq
<1>3. n \in 0 .. clampSize(PageSize)
  <2>1. /\ Cardinality(Matches(catalog, Providers)) \in Nat
        /\ Offset(walk.next, PageSize) \in Nat /\ clampSize(PageSize) \in Nat
    BY <1>1, PagesNat, ListLength, PagePaid
  <2>. QED
    BY <2>1 DEF PageLength
<1>4. found \in Seq(Found) /\ Len(found) = Len(walk.collected) + n
  <2>. DEFINE more == Answer(walk.next)
              rows == walk.collected
  <2>1. more \in Seq(Found) /\ rows \in Seq(Found) /\ Len(more) = n
    BY <1>1, <1>2
  <2>. HIDE DEF more, rows, n
  <2>2. rows \o more \in Seq(Found) /\ Len(rows \o more) = Len(rows) + n
    BY <2>1
  <2>. QED
    BY <2>2 DEF more, rows
<1>5. walk'.collected = Limited(found)
  BY Fetched
<1>6. /\ Len(Limited(found)) = IF walk.limit > 0 /\ Len(found) > walk.limit
                               THEN walk.limit ELSE Len(found)
  BY <1>4, LimitedSeq
<1>7. walk'.pages = walk.pages + 1
  BY <1>1 DEF FetchPage, Walks
<1>8. Len(walk.collected) \in Nat
  BY <1>1
<1>9. clampSize(PageSize) \in Nat
  BY PagePaid
<1>. HIDE DEF found, n
<1>10. /\ Len(Limited(found)) \in Nat /\ Len(Limited(found)) <= Len(found)
       /\ Len(found) <= Len(walk.collected) + clampSize(PageSize)
  BY <1>1, <1>3, <1>4, <1>6, <1>8, <1>9
<1>. QED
  BY <1>3, <1>4, <1>5, <1>7, <1>8, <1>9, <1>10

\* The walk counts its pages (SearchAgents).
LEMMA PagesStep ==
  SnapshotTypeOK /\ PagesCounted /\ [Next]_vars => PagesCounted'
<1>. SUFFICES ASSUME SnapshotTypeOK, PagesCounted, [Next]_vars PROVE PagesCounted'
  OBVIOUS
<1>. USE DEF PagesCounted
<1>0. run \in Runs /\ walk \in Walks /\ walk.pages \in Nat /\ MaxPagesWalk \in Nat \ {0}
  BY SnapshotConstants DEF SnapshotTypeOK, Walks
<1>1. ASSUME NEW a \in AgentIds, NEW row \in Rows, Import(a, row)
      PROVE  PagesCounted'
  BY <1>1 DEF Import
<1>2. CASE Start
  BY <1>0, <1>2 DEF Start, NewWalk
<1>3. CASE Crash
  BY <1>3 DEF Crash, IdleRun
<1>4. CASE FetchPage
  <2>1. walk'.pages = walk.pages + 1 /\ walk.pages < MaxPagesWalk
    BY <1>4, PageAdds DEF FetchPage
  <2>. QED
    BY <1>0, <2>1
<1>5. CASE FetchFails \/ Ceiling \/ PrepareFails
  BY <1>0, <1>5, FailShape DEF FetchFails, Ceiling, PrepareFails
<1>6. CASE PrepareOutDir \/ Finish
  BY <1>0, <1>6, FailShape DEF PrepareOutDir, Finish, Runs
<1>7. CASE Capture
  <2>1. run.phase = "enrich" /\ (run'.phase = "enrich" \/ run'.phase = "failed")
    <3>1. CASE WriteFails(Head(run.todo).agentId)
      BY <1>0, <1>7, <3>1, FailShape DEF WriteFails, Capture
    <3>2. CASE Skip
      BY <1>7, <3>2, Skipped DEF Capture
    <3>3. CASE \E ev \in Fixtures : Valid(ev) /\ Write(Head(run.todo).agentId, ev)
      BY <1>7, <3>3, Captured, Written
    <3>. QED
      BY <1>7, <3>1, <3>2, <3>3, Captured
  <2>. QED
    BY <2>1
<1>8. CASE Miss
  BY <1>8, Skipped DEF Miss
<1>9. CASE UNCHANGED vars
  BY <1>9 DEF vars
<1>. QED
  BY <1>1, <1>2, <1>3, <1>4, <1>5, <1>6, <1>7, <1>8, <1>9 DEF Next, RunStep

\* What the measure rests on, in the state before and after a step.
WorkFacts ==
  /\ run \in Runs /\ Len(run.todo) \in Nat /\ Len(walk.collected) \in Nat
  /\ WorkLeft \in Nat
  /\ ~Running => WorkLeft = 0
  /\ Running => WorkLeft > 0

\* The shapes make the measure a number, positive exactly while the run goes on
\* (Running).
LEMMA WorkMeasured == SnapshotTypeOK /\ PagesCounted => WorkFacts
<1>. SUFFICES ASSUME SnapshotTypeOK, PagesCounted PROVE WorkFacts
  OBVIOUS
<1>1. /\ run \in Runs /\ walk.pages \in Nat
      /\ run.todo \in Seq(Found) /\ walk.collected \in Seq(Found)
      /\ run.phase \in {"idle", "page", "prepare", "enrich", "ok", "failed"}
  BY DEF SnapshotTypeOK, Runs, Walks
<1>2. Len(run.todo) \in Nat /\ Len(walk.collected) \in Nat
  BY <1>1
<1>3. run.phase = "page" => (MaxPagesWalk - walk.pages) * PageCost \in Nat
  <2>1. run.phase = "page" => MaxPagesWalk - walk.pages \in Nat
    BY <1>1, SnapshotConstants DEF PagesCounted
  <2>. QED
    BY <2>1, PagePaid
<1>4. WorkLeft \in Nat /\ (~Running => WorkLeft = 0) /\ (Running => WorkLeft > 0)
  <2>. DEFINE paid == (MaxPagesWalk - walk.pages) * PageCost
              todo == Len(run.todo)
              rows == Len(walk.collected)
  <2>1. WorkLeft = CASE run.phase = "page" -> paid + rows + 3
                     [] run.phase = "prepare" -> todo + 2
                     [] run.phase = "enrich" -> todo + 1
                     [] OTHER -> 0
    BY DEF WorkLeft
  <2>. HIDE DEF paid, todo, rows, WorkLeft
  <2>2. todo \in Nat /\ rows \in Nat /\ (run.phase = "page" => paid \in Nat)
    BY <1>2, <1>3 DEF paid, todo, rows
  <2>. QED
    BY <1>1, <2>1, <2>2 DEF Running
<1>. QED
  BY <1>1, <1>2, <1>4 DEF WorkFacts

\* What a page costs is more than it adds.
LEMMA CostIsMore ==
  \A paid, size, rows, more \in Nat :
    more <= rows + size => /\ paid + more + 3 < paid + (size + 1) + rows + 3
                           /\ more + 2 < paid + (size + 1) + rows + 3
OBVIOUS

\* A page is paid for by those not asked for any more; the run that has its
\* agents has a step for each.
LEMMA FetchShrinks ==
  ASSUME SnapshotTypeOK, PagesCounted, WorkFacts, WorkFacts', FetchPage
  PROVE  WorkLeft' < WorkLeft
<1>. DEFINE found == walk.collected \o Answer(walk.next)
            left  == MaxPagesWalk - (walk.pages + 1)
            size  == clampSize(PageSize)
<1>1. /\ run.phase = "page" /\ walk.pages < MaxPagesWalk
      /\ walk.pages \in Nat /\ MaxPagesWalk \in Nat
      /\ size \in Nat /\ PageCost = size + 1
  BY PagePaid, SnapshotConstants DEF FetchPage, SnapshotTypeOK, Walks
<1>2. left \in Nat /\ MaxPagesWalk - walk.pages = left + 1
  BY <1>1
<1>3. left * PageCost \in Nat /\ (MaxPagesWalk - walk.pages) * PageCost = left * PageCost + PageCost
  BY <1>2, PagePaid
<1>4. /\ Len(walk'.collected) \in Nat /\ Len(walk.collected) \in Nat
      /\ Len(walk'.collected) <= Len(walk.collected) + size
      /\ walk'.pages = walk.pages + 1
  BY PageAdds
<1>5. /\ run'.phase \in {"page", "prepare"}
      /\ run'.phase = "prepare" => run'.todo = walk'.collected
  BY Fetched
<1>6. WorkLeft = (MaxPagesWalk - walk.pages) * PageCost + Len(walk.collected) + 3
  BY <1>1 DEF WorkLeft
<1>7. CASE run'.phase = "page"
  <2>1. WorkLeft' = left * PageCost + Len(walk'.collected) + 3
    BY <1>4, <1>7 DEF WorkLeft, PageCost
  <2>. DEFINE paid == left * PageCost
  <2>2. paid \in Nat /\ WorkLeft = paid + PageCost + Len(walk.collected) + 3
    BY <1>3, <1>6
  <2>3. WorkLeft' = paid + Len(walk'.collected) + 3
    BY <2>1
  <2>. DEFINE rows == Len(walk.collected)
              more == Len(walk'.collected)
  <2>4. /\ WorkLeft = paid + PageCost + rows + 3 /\ WorkLeft' = paid + more + 3
        /\ rows \in Nat /\ more \in Nat /\ more <= rows + size
    BY <1>4, <2>2, <2>3
  <2>. HIDE DEF left, size, paid, rows, more
  <2>. QED
    BY <1>1, <2>2, <2>4, CostIsMore
<1>8. CASE run'.phase = "prepare"
  <2>1. WorkLeft' = Len(walk'.collected) + 2
    BY <1>5, <1>8 DEF WorkLeft
  <2>. DEFINE paid == left * PageCost
  <2>2. paid \in Nat /\ WorkLeft = paid + PageCost + Len(walk.collected) + 3
    BY <1>3, <1>6
  <2>. DEFINE rows == Len(walk.collected)
              more == Len(walk'.collected)
  <2>4. /\ WorkLeft = paid + PageCost + rows + 3 /\ WorkLeft' = more + 2
        /\ rows \in Nat /\ more \in Nat /\ more <= rows + size
    BY <1>4, <2>1, <2>2
  <2>. HIDE DEF left, size, paid, rows, more
  <2>. QED
    BY <1>1, <2>2, <2>4, CostIsMore
<1>. QED
  BY <1>5, <1>7, <1>8

\* Every step of the run lowers what is left (Run, SearchAgents).
LEMMA RunShrinks ==
  ASSUME SnapshotTypeOK, PagesCounted, WorkFacts, WorkFacts', RunStep
  PROVE  WorkLeft' < WorkLeft
<1>0. run \in Runs
  BY DEF WorkFacts
<1>1. ASSUME run'.phase \in {"failed", "ok"}, Running
      PROVE  WorkLeft' < WorkLeft
  BY <1>1 DEF WorkFacts, Running
<1>2. CASE FetchFails \/ Ceiling \/ PrepareFails
  BY <1>0, <1>1, <1>2, FailShape DEF FetchFails, Ceiling, PrepareFails, Running
<1>3. CASE Finish
  BY <1>0, <1>1, <1>3, FailShape DEF Finish, Running, Runs
<1>4. CASE PrepareOutDir
  <2>1. run.phase = "prepare" /\ run'.phase = "enrich" /\ run'.todo = run.todo
    BY <1>0, <1>4 DEF PrepareOutDir, Runs
  <2>2. WorkLeft = Len(run.todo) + 2 /\ WorkLeft' = Len(run.todo) + 1
    BY <2>1 DEF WorkLeft
  <2>. QED
    BY <2>2 DEF WorkFacts
<1>5. ASSUME run.phase = "enrich", run'.phase = "enrich",
             run.todo # <<>>, run'.todo = Tail(run.todo)
      PROVE  WorkLeft' < WorkLeft
  <2>1. WorkLeft = Len(run.todo) + 1 /\ WorkLeft' = Len(Tail(run.todo)) + 1
    BY <1>5 DEF WorkLeft
  <2>2. Len(run.todo) \in Nat /\ Len(Tail(run.todo)) = Len(run.todo) - 1
    BY <1>5, TodoSeq
  <2>. QED
    BY <2>1, <2>2
<1>6. CASE Capture
  <2>1. CASE WriteFails(Head(run.todo).agentId)
    BY <1>0, <1>1, <1>6, <2>1, FailShape DEF WriteFails, Capture, Running
  <2>2. CASE Skip
    BY <1>5, <1>6, <2>2, Skipped DEF Capture
  <2>3. CASE \E ev \in Fixtures : Valid(ev) /\ Write(Head(run.todo).agentId, ev)
    BY <1>5, <1>6, <2>3, Captured, Written
  <2>. QED
    BY <1>6, <2>1, <2>2, <2>3, Captured
<1>7. CASE Miss
  BY <1>5, <1>7, Skipped DEF Miss
<1>. QED
  BY <1>2, <1>3, <1>4, <1>6, <1>7, FetchShrinks DEF RunStep

\* Nothing but a new run raises what is left.
LEMMA ShrinkStep ==
  ASSUME SnapshotTypeOK, PagesCounted, WorkFacts, WorkFacts', [Next]_vars
  PROVE  /\ RunStep => WorkLeft' < WorkLeft
         /\ ~Start => WorkLeft' <= WorkLeft
<1>0. WorkLeft \in Nat /\ WorkLeft' \in Nat
  BY DEF WorkFacts
<1>1. RunStep => WorkLeft' < WorkLeft
  BY RunShrinks
<1>2. UNCHANGED <<run, walk>> => WorkLeft' = WorkLeft
  BY DEF WorkLeft, PageCost
<1>3. (\E a \in AgentIds, row \in Rows : Import(a, row)) => WorkLeft' = WorkLeft
  BY <1>2 DEF Import
<1>4. Crash => WorkLeft' <= WorkLeft
  BY DEF Crash, IdleRun, WorkFacts, Running
<1>. QED
  BY <1>0, <1>1, <1>2, <1>3, <1>4 DEF Next, vars

\* The work left is bounded by the bound of a new run.
BoundKept == WorkLeft <= RunBound

\* A run starts with all its work ahead of it.
LEMMA StartsBounded == Start => WorkLeft' = RunBound
<1>. SUFFICES ASSUME Start PROVE WorkLeft' = RunBound
  OBVIOUS
<1>1. run'.phase = "page" /\ walk'.pages = 0 /\ walk'.collected = <<>>
  BY DEF Start, IdleRun, NewWalk
<1>2. MaxPagesWalk - 0 = MaxPagesWalk /\ MaxPagesWalk \in Nat
  BY SnapshotConstants
<1>3. Len(walk'.collected) = 0
  BY <1>1
<1>4. MaxPagesWalk * PageCost + 0 + 3 = MaxPagesWalk * PageCost + 3
  <2>1. MaxPagesWalk * PageCost \in Nat
    BY <1>2, PagePaid
  <2>. QED
    BY <2>1
<1>5. WorkLeft' = (MaxPagesWalk - walk'.pages) * PageCost + Len(walk'.collected) + 3
  BY <1>1 DEF WorkLeft, PageCost
<1>. QED
  BY <1>1, <1>2, <1>3, <1>4, <1>5 DEF RunBound

\* A run takes at most MaxPagesWalk pages, and one step for each agent on them
\* and each of its stages, whatever links the search hands out and however long
\* the list grows (maxPagesWalk, SearchAgents, Run).
THEOREM RunIsBounded == Spec => []WorkIsBounded /\ WorkShrinks
<1>. DEFINE Step == (RunStep => WorkLeft' < WorkLeft) /\ (~Start => WorkLeft' <= WorkLeft)
<1>1. Init => PagesCounted
  BY DEF Init, IdleRun, PagesCounted
<1>2. Spec => []PagesCounted
  BY <1>1, PagesStep, SnapshotTypesHold, PTL DEF Spec
<1>3. Spec => []WorkFacts
  BY <1>2, WorkMeasured, SnapshotTypesHold, PTL
<1>4. SnapshotTypeOK /\ PagesCounted /\ WorkFacts /\ WorkFacts' /\ [Next]_vars => [Step]_vars
  BY ShrinkStep
<1>5. Spec => [][Step]_vars
  BY <1>2, <1>3, <1>4, SnapshotTypesHold, PTL DEF Spec
<1>6. RunBound \in Nat
  <2>1. MaxPagesWalk * PageCost \in Nat
    BY PagePaid, SnapshotConstants
  <2>. QED
    BY <2>1 DEF RunBound
<1>7. Init => BoundKept
  <2>1. Init => WorkLeft = 0
    BY DEF Init, IdleRun, WorkLeft
  <2>. QED
    BY <1>6, <2>1 DEF BoundKept
<1>8. BoundKept /\ WorkFacts /\ WorkFacts' /\ [Next]_vars /\ [Step]_vars => BoundKept'
  <2>. SUFFICES ASSUME BoundKept, WorkFacts, WorkFacts', [Next]_vars, [Step]_vars
                PROVE  BoundKept'
    OBVIOUS
  <2>1. RunBound' = RunBound
    BY DEF RunBound, PageCost
  <2>2. WorkLeft \in Nat /\ WorkLeft' \in Nat
    BY DEF WorkFacts
  <2>3. CASE Start
    BY <1>6, <2>1, <2>3, StartsBounded DEF BoundKept
  <2>4. CASE ~Start /\ Step
    BY <1>6, <2>1, <2>2, <2>4 DEF BoundKept
  <2>5. CASE UNCHANGED vars
    <3>1. WorkLeft' = WorkLeft
      BY <2>5 DEF vars, WorkLeft, PageCost
    <3>. QED
      BY <2>1, <3>1 DEF BoundKept
  <2>. QED
    BY <2>3, <2>4, <2>5
<1>9. WorkFacts /\ BoundKept => WorkIsBounded
  BY <1>6 DEF WorkFacts, BoundKept, WorkIsBounded
<1>. QED
  BY <1>3, <1>5, <1>7, <1>8, <1>9, PTL DEF Spec, WorkShrinks

(***************************************************************************)
(* The snapshot implements what its readers are promised.                  *)
(***************************************************************************)

LEMMA StageOf ==
  ASSUME SnapshotTypeOK
  PROVE  /\ run.phase = "page" <=> Stage = "reading"
         /\ run.phase = "prepare" <=> Stage = "clearing"
         /\ run.phase = "enrich" <=> Stage = "writing"
         /\ run.phase = "ok" <=> Stage = "green"
         /\ run.phase \in {"idle", "failed"} <=> Stage = "idle"
  BY DEF SnapshotTypeOK, Runs, Stage

\* The promise's words are the directory's.
LEMMA SameWords ==
  /\ Promise!Files = Files /\ Promise!EmptyDir = EmptyDir /\ Promise!Fixtures = Fixtures
  /\ \A gone : Promise!Without(gone) = Without(gone)
  /\ \A ev : Promise!Valid(ev) = Valid(ev)
<1>1. Promise!StatusTexts = StatusTexts /\ Promise!Times = Times
  BY DEF Promise!StatusTexts, Promise!Statuses, StatusTexts, Statuses, Promise!Times, Times
<1>2. Promise!Fixtures = Fixtures
  BY <1>1 DEF Promise!Fixtures, Fixtures
<1>3. Promise!Files = Files /\ Promise!EmptyDir = EmptyDir
  BY DEF Promise!Files, Files, Promise!EmptyDir, EmptyDir
<1>4. \A gone : Promise!Without(gone) = Without(gone)
  BY DEF Promise!Without, Without
<1>5. \A ev : Promise!Valid(ev) = Valid(ev)
  BY DEF Promise!Valid, Valid, Promise!Statuses, Statuses
<1>. QED
  BY <1>2, <1>3, <1>4, <1>5

\* A badge taken in is a file written, a run ended, or nothing.
LEMMA CaptureWrites ==
  ASSUME SnapshotTypeOK, Capture \/ Miss PROVE [Promise!Next]_(Promise!promiseVars)
<1>1. /\ run.phase = "enrich" /\ run.todo # <<>> /\ Head(run.todo).agentId \in AgentIds
      /\ Stage = "writing" /\ dir \in [AgentIds -> Fixtures \cup {NoFixture, Torn}]
  BY TodoSeq, StageOf DEF Capture, Miss, SnapshotTypeOK
<1>2. CASE Skip
  <2>1. run'.phase = "enrich" /\ dir' = dir
    BY <1>1, <1>2, Skipped DEF Skip
  <2>2. Stage' = Stage
    BY <1>1, <2>1 DEF Stage
  <2>. QED
    BY <2>1, <2>2 DEF Promise!promiseVars
<1>3. ASSUME NEW ev \in Fixtures, Valid(ev), Write(Head(run.todo).agentId, ev)
      PROVE  [Promise!Next]_(Promise!promiseVars)
  <2>. DEFINE a == Head(run.todo).agentId
  <2>1. run'.phase = "enrich" /\ dir' = [dir EXCEPT ![a] = ev]
    BY <1>1, <1>3, Written
  <2>. HIDE DEF a
  <2>2. Stage' = Stage
    BY <1>1, <2>1 DEF Stage
  <2>3. a \in AgentIds /\ dir'[a] = ev
    BY <1>1, <2>1 DEF a
  <2>. QED
    BY <1>1, <1>3, <2>1, <2>2, <2>3, SameWords DEF Promise!WriteFile, Promise!Next
<1>4. CASE WriteFails(Head(run.todo).agentId)
  <2>. DEFINE a == Head(run.todo).agentId
  <2>1. PICK left \in {dir[a], Torn} : dir' = [dir EXCEPT ![a] = left]
    BY <1>4 DEF WriteFails
  <2>2. run'.phase = "failed"
    BY <1>4, FailShape DEF WriteFails, SnapshotTypeOK
  <2>. HIDE DEF a
  <2>3. Stage' = "idle"
    BY <2>2 DEF Stage
  <2>4. dir' = dir \/ dir' = [dir EXCEPT ![a] = Torn]
    BY <1>1, <2>1
  <2>5. a \in AgentIds
    BY <1>1 DEF a
  <2>. QED
    BY <1>1, <2>3, <2>4, <2>5 DEF Promise!WriteFails, Promise!Next
<1>. QED
  BY <1>2, <1>3, <1>4, Captured DEF Miss

LEMMA CrashKeepsPromise ==
  ASSUME SnapshotTypeOK, Crash PROVE [Promise!Next]_(Promise!promiseVars)
<1>1. Stage' = "idle"
  BY Crashed DEF Stage
<1>2. CASE UNCHANGED dir
  <2>1. Stage \in {"reading", "clearing", "writing"}
    BY StageOf DEF Crash, Running
  <2>2. Without({}) = dir /\ {} \subseteq Files
    BY DEF Without, SnapshotTypeOK
  <2>. QED
    BY <1>1, <1>2, <2>1, <2>2, SameWords
    DEF Promise!Read, Promise!ClearFails, Promise!WriteFails, Promise!Next
<1>3. CASE run.phase = "prepare" /\ \E gone \in SUBSET Files : dir' = Without(gone)
  BY <1>1, <1>3, StageOf, SameWords DEF Promise!ClearFails, Promise!Next
<1>4. CASE /\ run.phase = "enrich" /\ run.todo # <<>>
           /\ dir' = [dir EXCEPT ![Head(run.todo).agentId] = Torn]
  <2>1. Head(run.todo).agentId \in AgentIds /\ Stage = "writing"
    BY <1>4, TodoSeq, StageOf
  <2>. QED
    BY <1>1, <1>4, <2>1 DEF Promise!WriteFails, Promise!Next
<1>. QED
  BY <1>2, <1>3, <1>4 DEF Crash

\* Every step of the snapshot is one of the promise or none.
LEMMA StepKeepsPromise ==
  ASSUME SnapshotTypeOK, [Next]_vars
  PROVE  [Promise!Next]_(Promise!promiseVars)
<1>0. run \in Runs
  BY DEF SnapshotTypeOK
<1>1. CASE run' = run /\ dir' = dir
  <2>1. Stage' = Stage
    BY <1>1 DEF Stage
  <2>. QED
    BY <1>1, <2>1 DEF Promise!promiseVars
<1>2. CASE Start
  <2>1. Stage \in {"idle", "green"} /\ run'.phase = "page" /\ dir' = dir
    BY <1>0, <1>2, StageOf, Started DEF Running, Runs
  <2>2. Stage' = "reading"
    BY <2>1 DEF Stage
  <2>. QED
    BY <2>1, <2>2 DEF Promise!Begin, Promise!Next
<1>3. CASE Crash
  BY <1>3, CrashKeepsPromise
<1>4. CASE FetchPage
  <2>1. run.phase = "page" /\ run'.phase \in {"page", "prepare"}
    BY <1>4, Fetched
  <2>2. dir' = dir /\ Stage = "reading"
    BY <1>4, <2>1, StageOf DEF FetchPage
  <2>3. Stage' \in {"reading", "clearing"}
    BY <2>1 DEF Stage
  <2>. QED
    BY <2>2, <2>3 DEF Promise!Read, Promise!Next, Promise!promiseVars
<1>5. CASE FetchFails \/ Ceiling
  <2>1. dir' = dir /\ Stage = "reading" /\ run'.phase = "failed"
    BY <1>0, <1>5, StageOf, FailShape DEF FetchFails, Ceiling
  <2>2. Stage' = "idle"
    BY <2>1 DEF Stage
  <2>. QED
    BY <2>1, <2>2 DEF Promise!Read, Promise!Next
<1>6. CASE PrepareOutDir
  <2>1. dir' = EmptyDir /\ Stage = "clearing" /\ run'.phase = "enrich"
    BY <1>0, <1>6, StageOf DEF PrepareOutDir, Runs
  <2>2. Stage' = "writing"
    BY <2>1 DEF Stage
  <2>. QED
    BY <2>1, <2>2, SameWords DEF Promise!Clear, Promise!Next
<1>7. CASE PrepareFails
  <2>1. (\E gone \in SUBSET Files : dir' = Without(gone)) /\ Stage = "clearing"
        /\ run'.phase = "failed"
    BY <1>0, <1>7, StageOf, FailShape DEF PrepareFails
  <2>2. Stage' = "idle"
    BY <2>1 DEF Stage
  <2>. QED
    BY <2>1, <2>2, SameWords DEF Promise!ClearFails, Promise!Next
<1>8. CASE Capture \/ Miss
  BY <1>8, CaptureWrites
<1>9. CASE Finish
  <2>1. dir' = dir /\ Stage = "writing"
    BY <1>9, StageOf DEF Finish
  <2>2. run'.phase \in {"failed", "ok"}
    BY <1>0, <1>9, FailShape DEF Finish, Runs
  <2>3. Stage' \in {"idle", "green"}
    BY <2>2 DEF Stage
  <2>. QED
    BY <2>1, <2>3 DEF Promise!WriteFails, Promise!Finish, Promise!Next
<1>10. (\E a \in AgentIds, row \in Rows : Import(a, row)) \/ UNCHANGED vars =>
         run' = run /\ dir' = dir
  BY DEF Import, vars
<1>. QED
  BY <1>1, <1>2, <1>3, <1>4, <1>5, <1>6, <1>7, <1>8, <1>9, <1>10 DEF Next, RunStep

\* The promise keeps damage to one file: files are torn only while a set is
\* written, and no set is begun before the last one is gone.
LEMMA DamageStep ==
  ASSUME Promise!DamageIsOneFile, [Promise!Next]_(Promise!promiseVars),
         dir \in [AgentIds -> Fixtures \cup {NoFixture, Torn}],
         dir' \in [AgentIds -> Fixtures \cup {NoFixture, Torn}]
  PROVE  Promise!DamageIsOneFile'
<1>. DEFINE OneTorn(d) == \A a, b \in AgentIds : d[a] = Torn /\ d[b] = Torn => a = b
            Whole(d) == \A a \in AgentIds : d[a] \notin {NoFixture, Torn} => Valid(d[a])
            NoneTorn(d) == \A a \in AgentIds : d[a] # Torn
<1>1. Promise!DamageIsOneFile <=>
        Whole(dir) /\ OneTorn(dir) /\ (Stage \in {"writing", "green"} => NoneTorn(dir))
  BY SameWords, SnapshotConstants DEF Promise!DamageIsOneFile, Promise!Loads, Files
<1>2. Promise!DamageIsOneFile' <=>
        Whole(dir') /\ OneTorn(dir') /\ (Stage' \in {"writing", "green"} => NoneTorn(dir'))
  BY SameWords, SnapshotConstants DEF Promise!DamageIsOneFile, Promise!Loads, Promise!Files
<1>3. CASE dir' = dir /\ (Stage' \in {"writing", "green"} => Stage \in {"writing", "green"})
  BY <1>1, <1>2, <1>3
<1>4. CASE dir' = EmptyDir
  <2>1. \A a \in AgentIds : dir'[a] = NoFixture
    BY <1>4 DEF EmptyDir
  <2>. QED
    BY <1>2, <2>1, SnapshotConstants
<1>5. CASE (\E gone \in SUBSET Files : dir' = Without(gone)) /\ Stage' = "idle"
  <2>1. \A a \in AgentIds : dir'[a] \in {NoFixture, dir[a]}
    BY <1>5 DEF Without
  <2>. QED
    BY <1>1, <1>2, <1>5, <2>1, SnapshotConstants
<1>6. CASE Promise!WriteFile
  <2>1. PICK a \in AgentIds :
          dir' = [dir EXCEPT ![a] = dir'[a]] /\ dir'[a] \in Fixtures /\ Valid(dir'[a])
    BY <1>6, SameWords DEF Promise!WriteFile
  <2>2. /\ Stage = "writing" /\ Stage' = "writing" /\ dir'[a] # Torn
        /\ \A b \in AgentIds : b # a => dir'[b] = dir[b]
    BY <1>6, <2>1, SnapshotConstants DEF Promise!WriteFile
  <2>. QED
    BY <1>1, <1>2, <2>1, <2>2
<1>7. CASE Promise!WriteFails /\ dir' # dir
  <2>1. PICK a \in AgentIds : dir' = [dir EXCEPT ![a] = Torn]
    BY <1>7 DEF Promise!WriteFails
  <2>2. /\ Stage = "writing" /\ Stage' = "idle" /\ dir'[a] = Torn
        /\ \A b \in AgentIds : b # a => dir'[b] = dir[b]
    BY <1>7, <2>1 DEF Promise!WriteFails
  <2>. QED
    BY <1>1, <1>2, <2>1, <2>2
<1>. HIDE DEF OneTorn, Whole, NoneTorn
<1>. QED
  BY <1>3, <1>4, <1>5, <1>6, <1>7, SameWords
  DEF Promise!Next, Promise!Begin, Promise!Read, Promise!Clear, Promise!ClearFails,
      Promise!WriteFails, Promise!Finish, Promise!promiseVars

\* The snapshot implements CapturePromise, whatever the search and the log do and
\* wherever the process dies: the old set is untouched until the walk has ended
\* and gone before the new one is begun (Run, prepareOutDir, writeFixture).
THEOREM KeepsCapturePromise == Spec => ImplementsPromise
<1>1. Init => Promise!Init
  BY SameWords DEF Init, IdleRun, Stage, Promise!Init
<1>. QED
  BY <1>1, StepKeepsPromise, SnapshotTypesHold, PTL DEF Spec, ImplementsPromise, Promise!Spec

\* So that here too one torn file at most is in the way of the producers that
\* load the directory, after any number of failed and dead runs.
THEOREM DamageTheorem == Spec => []Promise!DamageIsOneFile
<1>1. Init => Promise!DamageIsOneFile
  <2>. SUFFICES ASSUME Init PROVE Promise!DamageIsOneFile
    OBVIOUS
  <2>1. Files = {} /\ Stage = "idle"
    BY DEF Init, EmptyDir, Files, IdleRun, Stage
  <2>. QED
    BY <2>1, SameWords DEF Promise!DamageIsOneFile
<1>2. SnapshotTypeOK /\ SnapshotTypeOK' /\ Promise!DamageIsOneFile /\ [Next]_vars
        => Promise!DamageIsOneFile'
  BY StepKeepsPromise, DamageStep DEF SnapshotTypeOK
<1>. QED
  BY <1>1, <1>2, SnapshotTypesHold, PTL DEF Spec
=============================================================================
