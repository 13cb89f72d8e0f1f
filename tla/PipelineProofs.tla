----------------------------- MODULE PipelineProofs -----------------------------
(***************************************************************************)
(* Proofs about modules Library and Pipeline, for every library, every set  *)
(* of pages and of updates and every size of a page: what an update changes *)
(* it announces, and as long as a replica shows what the database no longer *)
(* holds the row that says so is still on its way.                          *)
(***************************************************************************)
EXTENDS Pipeline, FiniteSetTheorems, FunctionTheorems, NaturalsInduction,
        WellFoundedInduction, TLAPS

-------------------------------------------------------------------------------
(* Numbers. *)

LEMMA LeastExists ==
    ASSUME NEW S \in SUBSET Nat, S # {}
    PROVE  \E n \in S : \A m \in S : n <= m
<1> DEFINE R == OpToRel(<, Nat)
<1>1. IsWellFoundedOn(R, Nat)
  BY NatLessThanWellFounded
<1>2. PICK n \in S : \A m \in S : ~(<<m, n>> \in R)
  <2> HIDE DEF R
  <2> QED BY <1>1, WFMin
<1>3. \A m, k \in Nat : m < k => <<m, k>> \in R
  BY DEF OpToRel
<1> HIDE DEF R
<1>4. ASSUME NEW m \in S PROVE n <= m
  <2>1. m \in Nat /\ n \in Nat
    OBVIOUS
  <2>2. ~(m < n)
    BY <1>2, <1>3, <2>1
  <2> QED BY <2>1, <2>2
<1> QED BY <1>4

USE LibraryAssumption, PipelineAssumption

-------------------------------------------------------------------------------
(* Ranks and pages of a list. *)

LEMMA RankType ==
    ASSUME NEW S \in SUBSET Books, NEW b
    PROVE  Rank(S, b) \in Nat /\ IsFiniteSet({ x \in S : x <= b })
BY FS_Subset, FS_CardinalityType DEF Rank

\* Ranks grow along a set.
LEMMA RankGrows ==
    ASSUME NEW S \in SUBSET Books, NEW x \in S, NEW y \in S, x < y
    PROVE  Rank(S, x) < Rank(S, y)
<1> DEFINE X == { z \in S : z <= x }
           Y == { z \in S : z <= y }
<1>1. X \in SUBSET Y /\ y \in Y \ X
  <2>1. S \subseteq Nat
    OBVIOUS
  <2>2. \A z \in S : z <= x => z <= y
    BY <2>1
  <2>3. y <= y /\ ~(y <= x)
    BY <2>1
  <2> QED BY <2>2, <2>3
<1>2. IsFiniteSet(Y)
  BY RankType
<1> HIDE DEF X, Y
<1>3. IsFiniteSet(X) /\ Cardinality(X) <= Cardinality(Y) /\ (Cardinality(Y) = Cardinality(X) => Y = X)
  BY <1>1, <1>2, FS_Subset
<1>4. Cardinality(X) \in Nat /\ Cardinality(Y) \in Nat
  BY <1>2, <1>3, FS_CardinalityType
<1>5. Cardinality(X) < Cardinality(Y)
  BY <1>1, <1>3, <1>4
<1> QED BY <1>5 DEF Rank, X, Y

LEMMA RankPositive ==
    ASSUME NEW S \in SUBSET Books, NEW x \in S
    PROVE  Rank(S, x) >= 1
<1> DEFINE X == { z \in S : z <= x }
<1>1. x \in X
  <2>1. x \in Nat
    OBVIOUS
  <2> QED BY <2>1
<1>2. Rank(S, x) # 0
  <2>1. IsFiniteSet(X)
    BY RankType
  <2>2. Rank(S, x) = Cardinality(X)
    BY DEF Rank
  <2> HIDE DEF X
  <2>3. Cardinality(X) = 0 => X = {}
    BY <2>1, FS_EmptySet, Zenon
  <2> QED BY <1>1, <2>2, <2>3
<1>3. Rank(S, x) \in Nat
  BY RankType
<1> QED BY <1>2, <1>3

\* A page of a list holds no more than a page.
LEMMA SliceFits ==
    ASSUME NEW S \in SUBSET Books, NEW n \in Nat \ {0}
    PROVE  IsFiniteSet(Slice(S, n)) /\ Cardinality(Slice(S, n)) <= PageSize
<1> DEFINE low == (n - 1) * PageSize
           T == (low + 1)..(low + PageSize)
           rank == [b \in Slice(S, n) |-> Rank(S, b)]
<1>1. low \in Nat /\ n * PageSize = low + PageSize
  <2>1. n - 1 \in Nat /\ n \in Nat /\ PageSize \in Nat
    OBVIOUS
  <2>2. \A i, j \in Nat : i * j \in Nat /\ (i + 1) * j = i * j + j
    OBVIOUS
  <2>3. n = (n - 1) + 1
    BY <2>1
  <2> QED BY <2>1, <2>2, <2>3
<1>2. Slice(S, n) \subseteq S
  BY DEF Slice
<1>3. \A b \in Slice(S, n) : low < Rank(S, b) /\ Rank(S, b) <= low + PageSize
  BY <1>1 DEF Slice
<1> HIDE DEF low
<1>4. ASSUME NEW b \in Slice(S, n) PROVE Rank(S, b) \in T
  <2>1. Rank(S, b) \in Nat
    BY RankType
  <2> QED BY <1>1, <1>3, <2>1
<1>5. \A x, y \in Slice(S, n) : Rank(S, x) = Rank(S, y) => x = y
  <2> SUFFICES ASSUME NEW x \in Slice(S, n), NEW y \in Slice(S, n),
                      Rank(S, x) = Rank(S, y), x # y
               PROVE  FALSE
    OBVIOUS
  <2>1. x \in Nat /\ y \in Nat /\ x \in S /\ y \in S
    BY <1>2
  <2>2. Rank(S, x) \in Nat /\ Rank(S, y) \in Nat
    BY RankType
  <2>3. x < y \/ y < x
    BY <2>1
  <2> QED BY <2>1, <2>2, <2>3, RankGrows
<1>6. rank \in Injection(Slice(S, n), T)
  BY <1>4, <1>5 DEF Injection, IsInjective
<1>7. IsFiniteSet(T) /\ Cardinality(T) = PageSize
  <2>1. low + 1 \in Int /\ low + PageSize \in Int /\ ~(low + 1 > low + PageSize)
        /\ (low + PageSize) - (low + 1) + 1 = PageSize
    BY <1>1
  <2> QED BY <2>1, FS_Interval
<1> HIDE DEF T, rank
<1> QED BY <1>6, <1>7, FS_Injection

\* The first page takes the least ranks.
LEMMA FirstPage ==
    ASSUME NEW S \in SUBSET Books, NEW x \in S
    PROVE  x \in Slice(S, 1) <=> Rank(S, x) <= PageSize
<1>1. (1 - 1) * PageSize = 0 /\ 1 * PageSize = PageSize
  OBVIOUS
<1>2. Rank(S, x) \in Nat /\ Rank(S, x) >= 1
  BY RankType, RankPositive
<1> QED BY <1>1, <1>2 DEF Slice

\* No more than a page of the set, with the whole first page among it, is that page.
LEMMA FirstPageFills ==
    ASSUME NEW T \in SUBSET Books, NEW D \in SUBSET T,
           IsFiniteSet(D), Cardinality(D) <= PageSize, Slice(T, 1) \subseteq D
    PROVE  D = Slice(T, 1)
<1> SUFFICES ASSUME NEW x \in D, x \notin Slice(T, 1) PROVE FALSE
  OBVIOUS
<1> DEFINE Beyond == T \ Slice(T, 1)
<1>1. Beyond \in SUBSET Nat /\ x \in Beyond
  OBVIOUS
<1>2. PICK m \in Beyond : \A y \in Beyond : m <= y
  <2> HIDE DEF Beyond
  <2> QED BY <1>1, LeastExists
<1> DEFINE B == { y \in T : y < m }
<1>3. m \in T /\ m \in Nat /\ m <= x /\ x \in Nat /\ x \in T
  BY <1>1, <1>2
<1>4. B \subseteq Slice(T, 1)
  <2> SUFFICES ASSUME NEW y \in T, y < m, y \in Beyond PROVE FALSE
    OBVIOUS
  <2>1. y \in Nat /\ m <= y
    BY <1>1, <1>2
  <2> QED BY <1>3, <2>1
<1>5. { y \in T : y <= m } = B \cup {m} /\ m \notin B /\ x \notin B
  <2>1. T \subseteq Nat
    OBVIOUS
  <2>2. \A y \in T : y <= m <=> (y < m \/ y = m)
    BY <1>3, <2>1
  <2>3. ~(m < m) /\ ~(x < m)
    BY <1>3
  <2> QED BY <1>3, <2>2, <2>3
<1>6. Rank(T, m) > PageSize
  <2>1. Rank(T, m) \in Nat /\ ~(Rank(T, m) <= PageSize)
    BY <1>2, <1>3, RankType, FirstPage
  <2> QED BY <2>1
<1>7. IsFiniteSet(B) /\ Rank(T, m) = Cardinality(B) + 1
  <2>1. B \in SUBSET D /\ Rank(T, m) = Cardinality(B \cup {m}) /\ m \notin B
    BY <1>4, <1>5 DEF Rank
  <2> HIDE DEF B
  <2>2. IsFiniteSet(B)
    BY <2>1, FS_Subset
  <2>3. Cardinality(B \cup {m}) = Cardinality(B) + 1
    BY <2>1, <2>2, FS_AddElement
  <2> QED BY <2>1, <2>2, <2>3
<1>8. Cardinality(B) + 1 <= Cardinality(D)
  <2>1. B \cup {x} \in SUBSET D /\ x \notin B /\ IsFiniteSet(B)
    BY <1>4, <1>5, <1>7
  <2> HIDE DEF B
  <2>2. Cardinality(B \cup {x}) = Cardinality(B) + 1
    BY <2>1, FS_AddElement
  <2>3. Cardinality(B \cup {x}) <= Cardinality(D)
    BY <2>1, FS_Subset
  <2> QED BY <2>2, <2>3
<1>9. Cardinality(B) \in Nat /\ Cardinality(D) \in Nat
  BY <1>7, FS_CardinalityType
<1> QED BY <1>6, <1>7, <1>8, <1>9

-------------------------------------------------------------------------------
(* Tags of a page of books. *)

LEMMA TwoTags ==
    ASSUME NEW x, NEW y, NEW S \in SUBSET {x, y}
    PROVE  IsFiniteSet(S) /\ Cardinality(S) \in 0..2
<1> DEFINE X == {x}
           U == X \cup {y}
<1>1. IsFiniteSet(X) /\ Cardinality(X) = 1
  BY FS_Singleton
<1>2. S \in SUBSET U
  OBVIOUS
<1> HIDE DEF X
<1>3. IsFiniteSet(U) /\ Cardinality(U) = IF y \in X THEN Cardinality(X) ELSE Cardinality(X) + 1
  BY <1>1, FS_AddElement
<1> HIDE DEF U
<1>4. Cardinality(U) <= 2
  BY <1>1, <1>3
<1>5. IsFiniteSet(S) /\ Cardinality(S) <= Cardinality(U)
  BY <1>2, <1>3, FS_Subset
<1>6. Cardinality(S) \in Nat /\ Cardinality(U) \in Nat
  BY <1>3, <1>5, FS_CardinalityType
<1>7. Cardinality(S) \in 0..2
  BY <1>4, <1>5, <1>6
<1> QED BY <1>5, <1>7

\* No book on a page is left out of the page's tags.
LEMMA BooksFit ==
    ASSUME NEW S \in SUBSET Books, NEW n \in Nat \ {0}, NEW b \in Slice(S, n),
           NEW leading, Cardinality(leading) \in 0..2
    PROVE  b \in Fitting(leading, Slice(S, n))
<1> DEFINE ids == Slice(S, n)
           upto == { x \in ids : x <= b }
<1>1. IsFiniteSet(ids) /\ Cardinality(ids) <= PageSize
  BY SliceFits
<1>2. upto \in SUBSET ids
  OBVIOUS
<1>3. Rank(ids, b) = Cardinality(upto)
  BY DEF Rank
<1> HIDE DEF ids, upto
<1>4. Cardinality(upto) <= Cardinality(ids) /\ IsFiniteSet(upto)
  BY <1>1, <1>2, FS_Subset
<1>5. Cardinality(upto) \in Nat /\ Cardinality(ids) \in Nat
  BY <1>1, <1>4, FS_CardinalityType
<1>6. Cardinality(leading) + Rank(ids, b) <= MaxResponseTags
  BY <1>1, <1>3, <1>4, <1>5
<1> QED BY <1>6 DEF Fitting, ids

LEMMA ShownAreTagged ==
    ASSUME NEW d \in Data, NEW page \in ListPages \cup SearchPages, NEW b \in Shown(d, page)
    PROVE  BookTag(b) \in TagsOf(Content(d, page), page)
<1> DEFINE leading == RouteTags(page) \cup LeadingTags(Content(d, page), page)
<1>1. DOMAIN Content(d, page) = Shown(d, page)
  BY DEF Content
<1>2. page[1] \in {"list", "search"}
  BY DEF ListPages, SearchPages, List, Search
<1>3. Cardinality(leading) \in 0..2
  <2>1. leading \in SUBSET { ListBooks, GenreTag(page[2]) }
    BY <1>2 DEF RouteTags, LeadingTags
  <2> QED BY <2>1, TwoTags
<1>4. PICK S \in SUBSET Books, n \in Nat \ {0} : Shown(d, page) = Slice(S, n)
  <2>1. CASE page \in ListPages
    <3>1. page[1] = "list" /\ page[3] \in Nat \ {0}
      BY <2>1 DEF ListPages, List
    <3>2. Shown(d, page) = Slice(InGenre(d, page[2]), page[3])
      BY <3>1 DEF Shown
    <3>3. InGenre(d, page[2]) \in SUBSET Books
      BY DEF InGenre
    <3> QED BY <3>1, <3>2, <3>3
  <2>2. CASE page \in SearchPages
    <3>1. page[1] = "search"
      BY <2>2 DEF SearchPages, Search
    <3>2. Shown(d, page) = Slice(Titled(d, page[2]), 1)
      BY <3>1 DEF Shown
    <3>3. Titled(d, page[2]) \in SUBSET Books
      BY DEF Titled
    <3> QED BY <3>2, <3>3
  <2> QED BY <2>1, <2>2
<1> HIDE DEF leading
<1>5. b \in Fitting(leading, Shown(d, page))
  BY <1>3, <1>4, BooksFit
<1> QED BY <1>1, <1>2, <1>5 DEF TagsOf, leading

-------------------------------------------------------------------------------
(* An update. *)

LEMMA PatchedType ==
    ASSUME NEW row \in Row, NEW patch \in Patch
    PROVE  Patched(row, patch) \in Row /\ Patched(row, patch).version = row.version + 1
<1>1. Coalesce(patch.genre, row.genre) \in Genres \cup {NoGenre}
  <2>1. patch.genre = {} \/ \E g \in Genres : patch.genre = {g}
    BY DEF Patch, Optional
  <2>2. row.genre \in Genres \cup {NoGenre}
    BY DEF Row
  <2> QED BY <2>1, <2>2 DEF Coalesce
<1>2. Coalesce(patch.title, row.title) \in SUBSET Words
  <2>1. patch.title = {} \/ \E t \in SUBSET Words : patch.title = {t}
    BY DEF Patch, Optional
  <2>2. row.title \in SUBSET Words
    BY DEF Row
  <2>3. CASE patch.title = {}
    BY <2>2, <2>3 DEF Coalesce
  <2>4. ASSUME NEW t \in SUBSET Words, patch.title = {t} PROVE Coalesce(patch.title, row.title) = t
    BY <2>4 DEF Coalesce
  <2> QED BY <2>1, <2>3, <2>4
<1>3. row.version + 1 \in Nat
  BY DEF Row
<1> QED BY <1>1, <1>2, <1>3 DEF Patched, Row

Announcement == [tag : Tags, version : Nat]

\* The database and the outbox have their types.
DataInv == db \in Data /\ rows \in Seq(Announcement)

-------------------------------------------------------------------------------
(* A page as it was and as it is. *)

\* What differs between a database and a later one, these announcements say.
Told(d, e, said) ==
    /\ \A b \in Books : e[b] # d[b] =>
         \E row \in said : row.tag = BookTag(b) /\ row.version > d[b].version
    /\ \A b \in Books : e[b].genre # d[b].genre =>
         \E row \in said : row.tag = ListBooks /\ row.version = 0

\* One of them drops what was made of the page, or the page misses a book.
Dropped(d, e, said, page) ==
    \/ page \in SearchPages /\ ~(Shown(e, page) \subseteq Shown(d, page))
    \/ \E row \in said :
          /\ row.tag \in TagsOf(Content(d, page), page)
          /\ \/ row.version = 0
             \/ Version(Content(d, page), page) = 0
             \/ Version(Content(d, page), page) <= row.version

\* A book that the page showed has changed.
LEMMA ShownChanged ==
    ASSUME NEW d \in Data, NEW e \in Data, NEW said \in SUBSET Announcement, Told(d, e, said),
           NEW page \in ListPages \cup SearchPages,
           NEW b \in Books, b \in Shown(d, page), e[b] # d[b]
    PROVE  Dropped(d, e, said, page)
<1>1. PICK row \in said : row.tag = BookTag(b)
  BY DEF Told
<1>2. BookTag(b) \in TagsOf(Content(d, page), page)
  BY ShownAreTagged
<1>3. Version(Content(d, page), page) = 0
  BY DEF ListPages, SearchPages, List, Search, Version
<1> QED BY <1>1, <1>2, <1>3 DEF Dropped

\* A card, or a page that no update changes.
LEMMA CardDropped ==
    ASSUME NEW d \in Data, NEW e \in Data, NEW said \in SUBSET Announcement, Told(d, e, said),
           NEW page \in Pages \ (ListPages \cup SearchPages),
           Content(d, page) # Content(e, page)
    PROVE  Dropped(d, e, said, page)
<1>1. page[1] = "card"
  <2>1. page[1] \in {"card", "authors", "genre", "genres"}
    BY DEF Pages, Card, AuthorsPage, GenrePage, GenresPage
  <2>2. CASE page[1] # "card"
    <3>1. \A x : Shown(x, page) = {}
      BY <2>1, <2>2 DEF Shown
    <3> QED BY <3>1 DEF Content
  <2> QED BY <2>2
<1> DEFINE b == page[2]
<1>2. b \in Books
  BY <1>1 DEF Pages, Card, AuthorsPage, GenrePage, GenresPage
<1>3. \A x : Shown(x, page) = {b}
  BY <1>1 DEF Shown
<1>4. Content(d, page)[b] = d[b] /\ e[b] # d[b]
  BY <1>3 DEF Content
<1>5. PICK row \in said : row.tag = BookTag(b) /\ row.version > d[b].version
  BY <1>2, <1>4 DEF Told
<1>6. BookTag(b) \in TagsOf(Content(d, page), page)
  BY <1>1 DEF TagsOf, RouteTags
<1>7. Version(Content(d, page), page) <= row.version
  <2>1. d[b].version \in Nat /\ row.version \in Nat
    BY <1>2 DEF Data, Row, Announcement
  <2> QED BY <1>1, <1>4, <1>5, <2>1 DEF Version
<1> QED BY <1>5, <1>6, <1>7 DEF Dropped

\* A page of a list: either its books stay the same, or the lists are announced.
LEMMA ListDropped ==
    ASSUME NEW d \in Data, NEW e \in Data, NEW said \in SUBSET Announcement, Told(d, e, said),
           NEW page \in ListPages, Content(d, page) # Content(e, page)
    PROVE  Dropped(d, e, said, page)
<1>1. page[1] = "list"
  BY DEF ListPages, List
<1>2. CASE \E b \in Books : e[b].genre # d[b].genre
  <2>1. PICK row \in said : row.tag = ListBooks /\ row.version = 0
    BY <1>2 DEF Told
  <2>2. ListBooks \in TagsOf(Content(d, page), page)
    BY <1>1 DEF TagsOf, RouteTags
  <2> QED BY <2>1, <2>2 DEF Dropped
<1>3. CASE \A b \in Books : e[b].genre = d[b].genre
  <2>1. InGenre(d, page[2]) = InGenre(e, page[2])
    BY <1>3 DEF InGenre
  <2>2. Shown(d, page) = Shown(e, page) /\ Shown(d, page) \subseteq Books
    BY <1>1, <2>1 DEF Shown, Slice, InGenre
  <2>3. PICK b \in Shown(d, page) : e[b] # d[b]
    BY <2>2 DEF Content
  <2> QED BY <1>1, <2>2, <2>3, ShownChanged
<1> QED BY <1>2, <1>3

\* A search: it showed the book, or shows one that it did not show before.
LEMMA SearchDropped ==
    ASSUME NEW d \in Data, NEW e \in Data, NEW said \in SUBSET Announcement, Told(d, e, said),
           NEW page \in SearchPages, Content(d, page) # Content(e, page)
    PROVE  Dropped(d, e, said, page)
<1>1. page[1] = "search"
  BY DEF SearchPages, Search
<1> DEFINE S == Titled(d, page[2])
           T == Titled(e, page[2])
           D == Shown(d, page)
<1>2. /\ D = Slice(S, 1) /\ Shown(e, page) = Slice(T, 1)
      /\ S \in SUBSET Books /\ T \in SUBSET Books /\ D \subseteq S
  BY <1>1 DEF Shown, Titled, Slice
<1>3. CASE \E b \in D : e[b] # d[b]
  BY <1>1, <1>2, <1>3, ShownChanged
<1>4. CASE \A b \in D : e[b] = d[b]
  <2> SUFFICES ASSUME Shown(e, page) \subseteq D PROVE FALSE
    BY DEF Dropped
  <2>1. D \in SUBSET T
    BY <1>2, <1>4 DEF Titled
  <2>2. IsFiniteSet(D) /\ Cardinality(D) <= PageSize
    BY <1>2, SliceFits
  <2>3. D = Shown(e, page)
    <3> HIDE DEF D, T
    <3> QED BY <1>2, <2>1, <2>2, FirstPageFills
  <2> QED BY <1>4, <2>3 DEF Content
<1> QED BY <1>3, <1>4

\* A page that would show something else now: an announcement drops it, or it is a
\* search that a book has entered.
LEMMA ChangedIsDropped ==
    ASSUME NEW d \in Data, NEW e \in Data, NEW said \in SUBSET Announcement, Told(d, e, said),
           NEW page \in Pages, Content(d, page) # Content(e, page)
    PROVE  Dropped(d, e, said, page)
<1>1. CASE page \in ListPages
  BY <1>1, ListDropped
<1>2. CASE page \in SearchPages
  BY <1>2, SearchDropped
<1>3. CASE page \notin ListPages \cup SearchPages
  BY <1>3, CardDropped
<1> QED BY <1>1, <1>2, <1>3

-------------------------------------------------------------------------------
(* An update and what was told before. *)

\* The rows after the n-th.
RowsSince(n) == { rows[id] : id \in (n + 1)..Len(rows) }

LEMMA RowType ==
    ASSUME DataInv, NEW id \in 1..Len(rows)
    PROVE  rows[id].tag \in Tags /\ rows[id].version \in Nat
<1>1. rows[id] \in Announcement
  BY DEF DataInv
<1> QED BY <1>1 DEF Announcement

LEMMA RowsSinceType ==
    ASSUME DataInv, NEW n \in Nat
    PROVE  RowsSince(n) \in SUBSET Announcement
<1>1. \A id \in (n + 1)..Len(rows) : id \in 1..Len(rows)
  BY DEF DataInv
<1>2. \A id \in 1..Len(rows) : rows[id] \in Announcement
  BY DEF DataInv
<1> QED BY <1>1, <1>2 DEF RowsSince

\* An update raises the version of its book and says so, and that the lists have
\* changed when the book moves to another genre.
LEMMA PutRows ==
    ASSUME DataInv, NEW b \in Books, NEW patch \in Patch, Put(b, patch)
    PROVE  /\ DataInv'
           /\ db' = [db EXCEPT ![b] = Patched(db[b], patch)]
           /\ db'[b].version = db[b].version + 1
           /\ Len(rows) < Len(rows')
           /\ \A id \in 1..Len(rows) : rows'[id] = rows[id]
           /\ rows'[Len(rows) + 1] = [tag |-> BookTag(b), version |-> db'[b].version]
           /\ \A id \in (Len(rows) + 2)..Len(rows') : rows'[id] = [tag |-> ListBooks, version |-> 0]
           /\ db'[b].genre # db[b].genre => Len(rows) + 2 \in 1..Len(rows')
           /\ UNCHANGED <<queue, answer, content, replica>>
<1> DEFINE new == Announcements(db, b, patch)
           first == [tag |-> BookTag(b), version |-> db'[b].version]
           second == [tag |-> ListBooks, version |-> 0]
<1>1. db' = [db EXCEPT ![b] = Patched(db[b], patch)] /\ rows' = rows \o new
      /\ UNCHANGED <<queue, answer, content, replica>>
  BY DEF Put, Updated
<1>2. db \in [Books -> Row] /\ db[b] \in Row /\ rows \in Seq(Announcement)
  BY DEF DataInv, Data
<1>3. Patched(db[b], patch) \in Row /\ Patched(db[b], patch).version = db[b].version + 1
  BY <1>2, PatchedType
<1>4. db'[b] = Patched(db[b], patch) /\ db' \in Data
  BY <1>1, <1>2, <1>3 DEF Data
<1>5. first \in Announcement /\ second \in Announcement
  <2>1. db'[b].version \in Nat
    BY <1>3, <1>4 DEF Row
  <2>2. BookTag(b) \in Tags /\ ListBooks \in Tags
    BY DEF Tags
  <2> QED BY <2>1, <2>2 DEF Announcement
<1>6. \/ new = <<first>> /\ db'[b].genre = db[b].genre
      \/ new = <<first, second>>
  BY <1>4 DEF Announcements
<1> HIDE DEF new, first, second
<1>7. CASE new = <<first>> /\ db'[b].genre = db[b].genre
  BY <1>1, <1>2, <1>3, <1>4, <1>5, <1>7 DEF DataInv, first, second
<1>8. CASE new = <<first, second>>
  <2>1. Len(rows') = Len(rows) + 2 /\ rows' \in Seq(Announcement)
    BY <1>1, <1>2, <1>5, <1>8
  <2>2. /\ \A id \in 1..Len(rows) : rows'[id] = rows[id]
        /\ rows'[Len(rows) + 1] = first
        /\ rows'[Len(rows) + 2] = second
    BY <1>1, <1>2, <1>5, <1>8
  <2>3. \A id \in (Len(rows) + 2)..Len(rows') : id = Len(rows) + 2
    BY <1>2, <2>1
  <2> QED BY <1>1, <1>2, <1>3, <1>4, <2>1, <2>2, <2>3 DEF DataInv, first, second
<1> QED BY <1>6, <1>7, <1>8

\* What was told of an earlier database is told of the updated one.
LEMMA ToldPut ==
    ASSUME DataInv, NEW b \in Books, NEW patch \in Patch, Put(b, patch),
           NEW d \in Data, NEW n \in 0..Len(rows), Told(d, db, RowsSince(n))
    PROVE  Told(d, db', RowsSince(n)')
<1>1. /\ Len(rows) \in Nat /\ Len(rows') \in Nat /\ Len(rows) < Len(rows')
      /\ \A id \in 1..Len(rows) : rows'[id] = rows[id]
      /\ rows'[Len(rows) + 1] = [tag |-> BookTag(b), version |-> db'[b].version]
      /\ db'[b].genre # db[b].genre => /\ Len(rows) + 2 \in 1..Len(rows')
                                       /\ rows'[Len(rows) + 2] = [tag |-> ListBooks, version |-> 0]
      /\ db'[b].version = db[b].version + 1
      /\ \A x \in Books : x # b => db'[x] = db[x]
      /\ db[b].version \in Nat
  <2>1. DataInv'
    BY PutRows
  <2>2. Len(rows) \in Nat /\ Len(rows') \in Nat /\ db \in [Books -> Row] /\ db[b].version \in Nat
    BY <2>1 DEF DataInv, Data, Row
  <2>3. Len(rows) + 2 \in 1..Len(rows') => Len(rows) + 2 \in (Len(rows) + 2)..Len(rows')
    BY <2>2
  <2> QED BY <2>2, <2>3, PutRows
<1>2. RowsSince(n) \subseteq RowsSince(n)'
  <2>1. ASSUME NEW id \in (n + 1)..Len(rows)
        PROVE  id \in (n + 1)..Len(rows') /\ rows'[id] = rows[id]
    BY <1>1
  <2> QED BY <2>1 DEF RowsSince
<1>3. rows'[Len(rows) + 1] \in RowsSince(n)'
  <2>1. Len(rows) + 1 \in (n + 1)..Len(rows')
    BY <1>1
  <2> QED BY <2>1 DEF RowsSince
<1>4. db'[b].genre # db[b].genre => rows'[Len(rows) + 2] \in RowsSince(n)'
  <2>1. Len(rows) + 2 \in 1..Len(rows') => Len(rows) + 2 \in (n + 1)..Len(rows')
    BY <1>1
  <2> QED BY <1>1, <2>1 DEF RowsSince
<1> DEFINE said == RowsSince(n)
           later == RowsSince(n)'
<1> HIDE DEF said, later
<1>5. ASSUME NEW x \in Books, db'[x] # d[x]
      PROVE  \E row \in later : row.tag = BookTag(x) /\ row.version > d[x].version
  <2>1. CASE db[x] # d[x]
    BY <1>2, <2>1 DEF Told, later, said
  <2>2. CASE db[x] = d[x]
    BY <1>1, <1>3, <1>5, <2>2 DEF later
  <2> QED BY <2>1, <2>2
<1>6. ASSUME NEW x \in Books, db'[x].genre # d[x].genre
      PROVE  \E row \in later : row.tag = ListBooks /\ row.version = 0
  <2>1. CASE db[x].genre # d[x].genre
    BY <1>2, <2>1 DEF Told, later, said
  <2>2. CASE db[x].genre = d[x].genre
    <3>1. x = b
      BY <1>1, <1>6, <2>2
    <3>2. rows'[Len(rows) + 2] \in later /\ rows'[Len(rows) + 2] = [tag |-> ListBooks, version |-> 0]
      BY <1>1, <1>4, <1>6, <2>2, <3>1 DEF later
    <3> QED BY <3>2
  <2> QED BY <2>1, <2>2
<1> QED BY <1>5, <1>6 DEF Told, later

-------------------------------------------------------------------------------
(* The replica is the one of module Invalidation, and what InvalidationProofs *)
(* proves about that holds of it, the restart aside.                          *)

Purging == INSTANCE InvalidationProofs WITH
    Retention  <- 0,
    PruneSize  <- 0,
    MaxTime    <- 0,
    Keys       <- CachedPages,
    EventIds   <- RowIds,
    Runners    <- {consumer},
    Inbox      <- { [id |-> id, tags |-> <<t>>, keys |-> <<>>, version |-> v] :
                      id \in RowIds, t \in Tags, v \in Nat },
    Responses  <- [version : Nat, tags : SUBSET Tags],
    ShardCount <- 1,
    ShardOf    <- [page \in CachedPages |-> 1]

\* The events that may come out of the queue.
RowEvents == { [id |-> id, tags |-> <<t>>, keys |-> <<>>, version |-> v] :
                 id \in RowIds, t \in Tags, v \in Nat }

\* What module Invalidation assumes of its constants.
ReplicaAssumption ==
    /\ Tags \cap CachedPages = {}
    /\ RowEvents \subseteq Purging!Event
    /\ [version : Nat, tags : SUBSET Tags] \subseteq [version : Nat, tags : SUBSET Tags]
    /\ 1 \in Nat \ {0}
    /\ [page \in CachedPages |-> 1] \in [CachedPages -> 1..1]
    /\ 0 \in Nat
    /\ None \notin Purging!Entry
    /\ None \notin Purging!Item
    /\ None \notin Purging!Token
    /\ None \notin RowEvents

LEMMA TagsAreNoPages == Tags \cap Pages = {}
<1> SUFFICES ASSUME NEW t \in Tags, NEW page \in Pages, t = page PROVE FALSE
  OBVIOUS
<1>1. t[1] \in {"book:", "genre:", "author:", "list:books", "list:genres"}
  <2>1. CASE t \in {ListBooks, ListGenres}
    BY <2>1 DEF ListBooks, ListGenres
  <2>2. CASE t \notin {ListBooks, ListGenres}
    BY <2>2 DEF Tags, BookTag, GenreTag, AuthorTag
  <2> QED BY <2>1, <2>2
<1>2. page[1] \in {"card", "authors", "list", "search", "genre", "genres"}
  <2>1. CASE page \in ListPages
    BY <2>1 DEF ListPages, List
  <2>2. CASE page \in SearchPages
    BY <2>2 DEF SearchPages, Search
  <2>3. CASE page \notin ListPages \cup SearchPages
    BY <2>3 DEF Pages, Card, AuthorsPage, GenrePage, GenresPage
  <2> QED BY <2>1, <2>2, <2>3
<1> QED BY <1>1, <1>2

LEMMA RowEventType ==
    ASSUME NEW e \in RowEvents
    PROVE  /\ e \in Purging!Event /\ e \in Replica!Event
           /\ e.keys = <<>> /\ e.version \in Nat /\ e.id \in RowIds
           /\ \E t \in Tags : e.tags = <<t>>
<1>1. PICK id \in RowIds, t \in Tags, v \in Nat :
        e = [id |-> id, tags |-> <<t>>, keys |-> <<>>, version |-> v]
  BY DEF RowEvents
<1>2. <<t>> \in Seq(Tags) /\ <<t>> # <<>> /\ <<>> \in Seq(CachedPages)
  OBVIOUS
<1> QED BY <1>1, <1>2 DEF Purging!Event, Replica!Event

LEMMA ReplicaAssumed == ReplicaAssumption
<1>1. Tags \cap CachedPages = {}
  BY TagsAreNoPages
<1>2. RowEvents \subseteq Purging!Event /\ None \notin RowEvents
  BY RowEventType, NoneIsNoData
<1>3. /\ None \notin Purging!Entry
      /\ None \notin Purging!Item
      /\ None \notin Purging!Token
  BY NoneIsNoData DEF Replica!Entry, Replica!Item, Replica!Token,
                      Purging!Entry, Purging!Item, Purging!Token
<1>4. [page \in CachedPages |-> 1] \in [CachedPages -> 1..1]
  OBVIOUS
<1> QED BY <1>1, <1>2, <1>3, <1>4 DEF ReplicaAssumption

LEMMA OneConsumer == Purging!SingleConsumer
<1>1. \A e \in RowEvents : \E t \in Tags : e.tags = <<t>> /\ e.keys = <<>>
  BY RowEventType
<1> QED BY <1>1 DEF Purging!SingleConsumer, RowEvents

ReplicaInv == Purging!IInv /\ Purging!OrderInv

LEMMA ReplicaNext ==
    ASSUME ReplicaInv, [Purging!Next]_Purging!vars
    PROVE  ReplicaInv'
<1>1. Purging!IInv'
  BY ReplicaAssumed, Purging!StepIInv DEF ReplicaInv, ReplicaAssumption, RowEvents
<1>2. Purging!ControlInv /\ Purging!ControlInv'
  BY <1>1 DEF ReplicaInv, Purging!IInv
<1>3. Purging!OrderInv'
  BY <1>2, ReplicaAssumed, OneConsumer, Purging!OrderStep
     DEF ReplicaInv, ReplicaAssumption, RowEvents
<1> QED BY <1>1, <1>3 DEF ReplicaInv

LEMMA ReplicaHonours == ReplicaInv => EveryPurgeHonoured
<1> SUFFICES ASSUME ReplicaInv PROVE EveryPurgeHonoured
  OBVIOUS
<1>1. Purging!EveryPurgeHonoured
  BY ReplicaAssumed, OneConsumer, Purging!OrderHonours DEF ReplicaInv, ReplicaAssumption, RowEvents
<1> QED BY <1>1 DEF EveryPurgeHonoured, Replica!EveryPurgeHonoured, Purging!EveryPurgeHonoured,
                    Replica!Outdated, Purging!Outdated, Replica!InProgress, Purging!InProgress,
                    Replica!PurgePC, Purging!PurgePC

-------------------------------------------------------------------------------
(* A step of the replica is a step of module Invalidation. *)

LEMMA SameFetch ==
    ASSUME NEW f \in Fetchers
    PROVE  /\ \A page \in CachedPages : Replica!Begin(f, page) => Purging!Begin(f, page)
           /\ Replica!GiveUp(f) => Purging!GiveUp(f)
           /\ \A resp : Replica!Store(f, resp) => Purging!Store(f, resp)
<1>1. ASSUME NEW page \in CachedPages, Replica!Begin(f, page) PROVE Purging!Begin(f, page)
  BY <1>1 DEF Replica!Begin, Purging!Begin, Replica!tracker, Purging!tracker, Replica!broker, Purging!broker
<1>2. ASSUME Replica!GiveUp(f) PROVE Purging!GiveUp(f)
  BY <1>2 DEF Replica!GiveUp, Purging!GiveUp, Replica!tracker, Purging!tracker, Replica!broker, Purging!broker
<1>3. ASSUME NEW resp, Replica!Store(f, resp) PROVE Purging!Store(f, resp)
  BY <1>3 DEF Replica!Store, Purging!Store, Replica!tracker, Purging!tracker, Replica!broker, Purging!broker,
              Replica!Invalidated, Purging!Invalidated, Replica!Overrules, Purging!Overrules
<1> QED BY <1>1, <1>2, <1>3

LEMMA SameEvict ==
    ASSUME NEW page \in CachedPages, Replica!Evict(page)
    PROVE  Purging!Evict(page)
BY DEF Replica!Evict, Purging!Evict, Replica!tracker, Purging!tracker, Replica!broker, Purging!broker

LEMMA SameDeliver ==
    ASSUME NEW e, Replica!Deliver(consumer, e)
    PROVE  Purging!Deliver(consumer, e)
BY DEF Replica!Deliver, Purging!Deliver, Replica!tracker, Purging!tracker, Replica!broker, Purging!broker,
       Replica!Superseded, Purging!Superseded, Replica!Idle, Purging!Idle

LEMMA SameInvalidate ==
    ASSUME NEW target, NEW version, Replica!Invalidate(target, version)
    PROVE  Purging!Invalidate(target, version)
<1>1. \A entries : Replica!Pruned(entries) = Purging!Pruned(entries)
  <2>1. \A S : Replica!Cardinality(S) = Purging!Cardinality(S)
    BY DEF Replica!Cardinality, Purging!Cardinality
  <2> QED BY <2>1 DEF Replica!Pruned, Purging!Pruned, Replica!Targets, Purging!Targets
<1>2. Replica!NewEntry(target, version) = Purging!NewEntry(target, version)
  BY Zenon DEF Replica!NewEntry, Purging!NewEntry
<1> QED BY <1>1, <1>2, Zenon DEF Replica!Invalidate, Purging!Invalidate

LEMMA SameRunnerStep ==
    ASSUME Replica!RunnerStep(consumer)
    PROVE  Purging!RunnerStep(consumer)
<1> USE DEF Replica!tracker, Purging!tracker, Replica!broker, Purging!broker
<1>1. ASSUME Replica!InvalidateTag(consumer) PROVE Purging!InvalidateTag(consumer)
  BY <1>1, SameInvalidate DEF Replica!InvalidateTag, Purging!InvalidateTag
<1>2. ASSUME Replica!ScanShard(consumer) PROVE Purging!ScanShard(consumer)
  BY <1>2 DEF Replica!ScanShard, Purging!ScanShard, Replica!TaggedIn, Purging!TaggedIn
<1>3. ASSUME NEW k \in CachedPages, Replica!LookupKey(consumer, k) PROVE Purging!LookupKey(consumer, k)
  BY <1>3 DEF Replica!LookupKey, Purging!LookupKey
<1>4. ASSUME Replica!DeleteKey(consumer) PROVE Purging!DeleteKey(consumer)
  BY <1>4 DEF Replica!DeleteKey, Purging!DeleteKey
<1>5. ASSUME Replica!TagDone(consumer) PROVE Purging!TagDone(consumer)
  BY <1>5 DEF Replica!TagDone, Purging!TagDone
<1>6. ASSUME Replica!InvalidateKey(consumer) PROVE Purging!InvalidateKey(consumer)
  BY <1>6, SameInvalidate DEF Replica!InvalidateKey, Purging!InvalidateKey
<1>7. ASSUME Replica!DeleteTarget(consumer) PROVE Purging!DeleteTarget(consumer)
  BY <1>7 DEF Replica!DeleteTarget, Purging!DeleteTarget
<1>8. ASSUME Replica!Commit(consumer) PROVE Purging!Commit(consumer)
  BY <1>8 DEF Replica!Commit, Purging!Commit, Replica!CommitVersion, Purging!CommitVersion,
              Replica!Idle, Purging!Idle
<1> QED BY <1>1, <1>2, <1>3, <1>4, <1>5, <1>6, <1>7, <1>8 DEF Replica!RunnerStep, Purging!RunnerStep

LEMMA SameInit == Replica!Init => Purging!Init
BY DEF Replica!Init, Purging!Init, Replica!Targets, Purging!Targets, Replica!Idle, Purging!Idle,
       Replica!NoVersions, Purging!NoVersions

LEMMA InitReplica == Init => ReplicaInv
<1> SUFFICES ASSUME Init PROVE ReplicaInv
  OBVIOUS
<1>1. Purging!Init
  BY SameInit DEF Init
<1>2. Purging!IInv
  BY <1>1, ReplicaAssumed, Purging!InitIInv DEF ReplicaAssumption, RowEvents
<1>3. Purging!OrderInv
  BY <1>1 DEF Purging!Init, Purging!OrderInv, Purging!EventOK, Purging!Versioned, Purging!Idle
<1> QED BY <1>2, <1>3 DEF ReplicaInv

-------------------------------------------------------------------------------
(* The consumer at work on a row. *)

\* Where the consumer's goroutine is in HandleEvent.
Handler == run[consumer]
Working == {"scan", "purge", "delete"}

\* The rows of a book carry ever greater versions, up to the book's own, and what
\* the replica knows is of rows that exist.
RowsInv ==
    /\ DataInv
    /\ \A id \in DOMAIN rows, b \in Books :
         rows[id].tag = BookTag(b) => rows[id].version <= db[b].version
    /\ \A i, j \in DOMAIN rows :
         i < j /\ rows[i].tag = rows[j].tag /\ rows[j].version > 0 => rows[i].version < rows[j].version
    /\ \A b \in Books : maxVersion[BookTag(b)] <= db[b].version
    /\ processed \subseteq DOMAIN rows
    /\ lost \subseteq DOMAIN rows
    /\ ~bound => lost = {}

\* The consumer has the event of a row and all of its tag to do, or none.
HandlerInv ==
    Handler.pc # "idle" =>
        /\ bound
        /\ Handler.event.id \in DOMAIN rows \ lost
        /\ Handler.event = EventOf(Handler.event.id)
        /\ Handler.tags \in {Handler.event.tags, <<>>}
        /\ Handler.keys = <<>>

LEMMA ReplicaTypes ==
    ASSUME ReplicaInv
    PROVE  /\ seq \in Nat /\ now \in Nat
           /\ cache \in [CachedPages -> Purging!Item \cup {None}]
           /\ fetch \in [Fetchers -> Purging!Token \cup {None}]
           /\ run \in [{consumer} -> Purging!RunState]
           /\ processed \subseteq RowIds
           /\ maxVersion \in [Tags -> Nat]
           /\ purges \in Seq(Purging!Purge) /\ Len(purges) = seq
           /\ Purging!RunOK(Handler, seq, purges)
           /\ \A f \in Fetchers : fetch[f] # None => fetch[f].seq <= seq
BY DEF ReplicaInv, Purging!IInv, Purging!ControlInv, Purging!TypeOK, Purging!RunInv, Purging!TrackInv,
       Purging!FetchInv, Handler

\* What is at hand.
LEMMA AtHand ==
    ASSUME ReplicaInv, RowsInv, HandlerInv, Handler.pc # "idle"
    PROVE  LET id == Handler.event.id
           IN  /\ id \in DOMAIN rows \ lost
               /\ Handler.event.version = rows[id].version
               /\ Handler.event.tags = <<rows[id].tag>>
               /\ Handler.tags # <<>> => Head(Handler.tags) = rows[id].tag /\ Tail(Handler.tags) = <<>>
               /\ Handler.keys = <<>>
               /\ Handler.pc # "deleteTarget"
               /\ Handler.pc \in Working =>
                     /\ Handler.tags # <<>>
                     /\ Handler.cur \in 1..seq
                     /\ purges[Handler.cur].target = rows[id].tag
                     /\ purges[Handler.cur].version = rows[id].version
<1> DEFINE id == Handler.event.id
<1>1. id \in DOMAIN rows \ lost /\ Handler.event = EventOf(id) /\ Handler.keys = <<>>
      /\ Handler.tags \in {Handler.event.tags, <<>>}
  BY DEF HandlerInv
<1>2. Handler.event.version = rows[id].version /\ Handler.event.tags = <<rows[id].tag>>
  BY <1>1 DEF EventOf
<1>3. Handler.tags # <<>> => Head(Handler.tags) = rows[id].tag /\ Tail(Handler.tags) = <<>>
  <2>1. \A x : Head(<<x>>) = x /\ Tail(<<x>>) = <<>>
    OBVIOUS
  <2> HIDE DEF id
  <2>2. Handler.tags # <<>> => Handler.tags = <<rows[id].tag>>
    BY <1>1, <1>2
  <2> QED BY <2>1, <2>2
<1>4. Purging!RunOK(Handler, seq, purges)
  BY ReplicaTypes
<1> HIDE DEF id
<1>5. Handler.pc # "deleteTarget"
  BY <1>1, <1>4 DEF Purging!RunOK
<1>6. Handler.pc \in Working =>
         /\ Handler.tags # <<>>
         /\ Handler.cur \in 1..seq
         /\ purges[Handler.cur].target = rows[id].tag
         /\ purges[Handler.cur].version = rows[id].version
  BY <1>2, <1>3, <1>4 DEF Purging!RunOK, Working
<1> QED BY <1>1, <1>2, <1>3, <1>5, <1>6 DEF id

\* The invalidation of the row's tag is recorded.
Records ==
    /\ Handler.pc = "next" /\ Handler.tags # <<>>
    /\ Handler'.pc = "scan" /\ Handler'.cur = seq + 1
    /\ Handler'.event = Handler.event /\ Handler'.tags = Handler.tags /\ Handler'.keys = Handler.keys
    /\ seq' = seq + 1
    /\ \A p \in 1..seq : purges'[p] = purges[p]
    /\ UNCHANGED <<processed, maxVersion>>

\* A shard is scanned, a key looked up or deleted.
Works ==
    /\ Handler.pc \in Working /\ Handler'.pc \in Working
    /\ Handler'.cur = Handler.cur
    /\ Handler'.event = Handler.event /\ Handler'.tags = Handler.tags /\ Handler'.keys = Handler.keys
    /\ UNCHANGED <<seq, purges, processed, maxVersion>>

\* The tag is done.
Finishes ==
    /\ Handler.pc \in Working /\ Handler'.pc = "next"
    /\ Handler'.cur = 0
    /\ Handler'.event = Handler.event /\ Handler'.tags = <<>> /\ Handler'.keys = Handler.keys
    /\ UNCHANGED <<seq, purges, processed, maxVersion>>

\* The row is remembered as handled.
Commits ==
    /\ Handler.pc = "next" /\ Handler.tags = <<>>
    /\ Handler'.pc = "idle" /\ Handler'.cur = 0
    /\ processed' = processed \cup {Handler.event.id}
    /\ maxVersion' = Replica!CommitVersion(maxVersion, Handler.event)
    /\ UNCHANGED <<seq, purges>>

LEMMA HandleKinds ==
    ASSUME ReplicaInv, RowsInv, HandlerInv, Handle
    PROVE  /\ UNCHANGED <<upstream, queue, answer, now, fetch>>
           /\ \A page \in CachedPages : cache'[page] \in {cache[page], None}
           /\ Handler.pc # "idle"
           /\ Records \/ Works \/ Finishes \/ Commits
<1>1. /\ run \in [{consumer} -> Purging!RunState] /\ Handler \in Purging!RunState
      /\ seq \in Nat /\ cache \in [CachedPages -> Purging!Item \cup {None}]
      /\ purges \in Seq(Purging!Purge) /\ Len(purges) = seq
  BY ReplicaTypes DEF Handler
<1>2. UNCHANGED <<upstream, queue, answer>> /\ Replica!RunnerStep(consumer)
  BY DEF Handle
<1> USE DEF Replica!tracker, Replica!broker, Handler
<1>3. ASSUME Replica!InvalidateTag(consumer) PROVE Records /\ UNCHANGED <<now, fetch, cache>>
  <2>1. Handler.pc = "next" /\ Handler.tags # <<>>
    BY <1>3 DEF Replica!InvalidateTag
  <2>2. /\ Handler'.pc = "scan" /\ Handler'.cur = seq + 1
        /\ Handler'.event = Handler.event /\ Handler'.tags = Handler.tags /\ Handler'.keys = Handler.keys
    BY <1>1, <1>3 DEF Replica!InvalidateTag, Purging!RunState
  <2>3. seq' = seq + 1 /\ \E p : purges' = Append(purges, p)
    BY <1>3 DEF Replica!InvalidateTag, Replica!Invalidate
  <2>4. \A p \in 1..seq : purges'[p] = purges[p]
    BY <1>1, <2>3
  <2> QED BY <1>3, <2>1, <2>2, <2>3, <2>4 DEF Replica!InvalidateTag, Records
<1>4. ASSUME Replica!ScanShard(consumer) PROVE Works /\ UNCHANGED <<now, fetch, cache>>
  BY <1>1, <1>4 DEF Replica!ScanShard, Purging!RunState, Works, Working
<1>5. ASSUME NEW k \in CachedPages, Replica!LookupKey(consumer, k)
      PROVE  Works /\ UNCHANGED <<now, fetch, cache>>
  <2>1. Handler.pc = "purge" /\ UNCHANGED <<now, seq, purges, fetch, cache, processed, maxVersion>>
    BY <1>5 DEF Replica!LookupKey
  <2>2. \/ run' = [run EXCEPT ![consumer].pc = "delete", ![consumer].key = k]
        \/ run' = [run EXCEPT ![consumer].found = @ \ {k}]
    BY <1>5 DEF Replica!LookupKey
  <2>3. CASE run' = [run EXCEPT ![consumer].pc = "delete", ![consumer].key = k]
    BY <1>1, <2>1, <2>3 DEF Purging!RunState, Works, Working
  <2>4. CASE run' = [run EXCEPT ![consumer].found = @ \ {k}]
    BY <1>1, <2>1, <2>4 DEF Purging!RunState, Works, Working
  <2> QED BY <2>2, <2>3, <2>4
<1>6. ASSUME Replica!DeleteKey(consumer)
      PROVE  Works /\ UNCHANGED <<now, fetch>> /\ \A page \in CachedPages : cache'[page] \in {cache[page], None}
  BY <1>1, <1>6 DEF Replica!DeleteKey, Purging!RunState, Works, Working
<1>7. ASSUME Replica!TagDone(consumer) PROVE Finishes /\ UNCHANGED <<now, fetch, cache>>
  <2>1. Handler.pc = "purge"
    BY <1>7 DEF Replica!TagDone
  <2>2. Tail(Handler.tags) = <<>>
    BY <2>1, AtHand DEF Working
  <2> QED BY <1>1, <1>7, <2>1, <2>2 DEF Replica!TagDone, Purging!RunState, Finishes, Working
<1>8. ASSUME Replica!Commit(consumer) PROVE Commits /\ UNCHANGED <<now, fetch, cache>>
  BY <1>1, <1>8 DEF Replica!Commit, Replica!Idle, Purging!RunState, Commits
<1>9. ~Replica!InvalidateKey(consumer) /\ ~Replica!DeleteTarget(consumer)
  BY AtHand DEF Replica!InvalidateKey, Replica!DeleteTarget
<1> QED
  <2> SUFFICES /\ UNCHANGED <<now, fetch>>
               /\ \A page \in CachedPages : cache'[page] \in {cache[page], None}
               /\ Handler.pc # "idle"
               /\ Records \/ Works \/ Finishes \/ Commits
    BY <1>2
  <2>1. UNCHANGED <<now, fetch>> /\ (Records \/ Works \/ Finishes \/ Commits)
    BY <1>2, <1>3, <1>4, <1>5, <1>6, <1>7, <1>8, <1>9 DEF Replica!RunnerStep
  <2>2. \A page \in CachedPages : cache'[page] \in {cache[page], None}
    BY <1>2, <1>3, <1>4, <1>5, <1>6, <1>7, <1>8, <1>9 DEF Replica!RunnerStep
  <2>3. Handler.pc # "idle"
    BY <2>1 DEF Records, Works, Finishes, Commits, Working
  <2> QED BY <2>1, <2>2, <2>3

-------------------------------------------------------------------------------
(* What becomes of a row. *)

\* An invalidation recorded since the token, and applied, outdates what the row
\* outdates.
Purged(id, token) ==
    \E p \in 1..seq :
        /\ token < p
        /\ p # Handler.cur
        /\ purges[p].target = rows[id].tag
        /\ \/ purges[p].version = 0
           \/ rows[id].version > 0 /\ rows[id].version <= purges[p].version

\* The consumer, if it has the row, has still to record it or has done so since
\* the token.
ToApply(id, token) ==
    Handler.pc # "idle" /\ Handler.event.id = id =>
        \/ Handler.pc = "next" /\ Handler.tags # <<>>
        \/ Handler.pc \in Working /\ token < Handler.cur

Settled(id, token) == id \in lost \/ Purged(id, token) \/ (Pending(id) /\ ToApply(id, token))

LEMMA PendingIs ==
    ASSUME NEW id
    PROVE  /\ Pending(id) <=>
                /\ id \notin processed \cup lost
                /\ rows[id].version > 0 => ~(rows[id].version <= maxVersion[rows[id].tag])
           /\ Pending(id)' <=>
                /\ id \notin processed' \cup lost'
                /\ rows'[id].version > 0 => ~(rows'[id].version <= maxVersion'[rows'[id].tag])
<1>1. \A x, i : i \in DOMAIN <<x>> <=> i = 1
  OBVIOUS
<1>2. \A x : <<x>> # <<>> /\ <<x>>[1] = x
  OBVIOUS
<1> QED BY <1>1, <1>2 DEF Pending, Replica!Superseded, EventOf

\* Of a row that was there before, nothing that counts has changed.
LEMMA SettledFrame ==
    ASSUME NEW id \in DOMAIN rows, NEW token, Settled(id, token),
           rows'[id] = rows[id],
           lost = lost' \/ lost = {},
           UNCHANGED <<seq, purges, processed, maxVersion, run>>
    PROVE  Settled(id, token)'
<1>1. Purged(id, token) => Purged(id, token)'
  BY DEF Purged, Handler
<1>2. id \in lost => id \in lost'
  OBVIOUS
<1>3. Pending(id) => id \in lost' \/ Pending(id)'
  BY PendingIs
<1>4. ToApply(id, token) => ToApply(id, token)'
  BY DEF ToApply, Handler
<1> QED BY <1>1, <1>2, <1>3, <1>4 DEF Settled

LEMMA SettledDeliver ==
    ASSUME ReplicaInv, NEW next \in DOMAIN rows, Deliver(next),
           NEW id \in DOMAIN rows, NEW token, Settled(id, token)
    PROVE  Settled(id, token)'
<1>1. /\ UNCHANGED <<rows, lost, seq, purges, processed, maxVersion>>
      /\ Handler.pc = "idle"
      /\ run' = [run EXCEPT ![consumer] = [Replica!Idle EXCEPT !.pc = "next", !.event = EventOf(next),
                                              !.tags = EventOf(next).tags, !.keys = EventOf(next).keys]]
  BY DEF Deliver, Replica!Deliver, Replica!tracker, Replica!broker, upstream, queue, Handler
<1>2. /\ Handler'.pc = "next" /\ Handler'.cur = 0 /\ Handler'.event = EventOf(next)
      /\ Handler'.tags = <<rows[next].tag>>
  BY <1>1, ReplicaTypes DEF Handler, Replica!Idle, EventOf
<1>3. Purged(id, token) => Purged(id, token)'
  BY <1>1, <1>2 DEF Purged
<1>4. Pending(id) => Pending(id)' /\ ToApply(id, token)'
  BY <1>1, <1>2, PendingIs DEF ToApply
<1> QED BY <1>1, <1>3, <1>4 DEF Settled

\* Every row since the n-th stays settled when the consumer takes a step.
LEMMA SettledHandle ==
    ASSUME ReplicaInv, ReplicaInv', RowsInv, HandlerInv, Handle,
           NEW n \in Nat, NEW token \in 0..seq,
           \A id \in (n + 1)..Len(rows) : Settled(id, token),
           NEW id \in (n + 1)..Len(rows)
    PROVE  Settled(id, token)'
<1>1. /\ UNCHANGED <<upstream, queue>>
      /\ Handler.pc # "idle"
      /\ Records \/ Works \/ Finishes \/ Commits
  BY HandleKinds
<1>2. /\ rows' = rows /\ lost' = lost
      /\ id \in DOMAIN rows
      /\ Settled(id, token)
      /\ seq \in Nat
  <2>1. rows \in Seq(Announcement) /\ seq \in Nat
    BY ReplicaTypes DEF RowsInv, DataInv
  <2> QED BY <1>1, <2>1 DEF upstream, queue
<1>3. CASE id \in lost
  BY <1>2, <1>3 DEF Settled
<1>4. CASE Records
  <2>1. Purged(id, token) => Purged(id, token)'
    BY <1>2, <1>4 DEF Purged, Records
  <2>2. Pending(id) => Pending(id)' /\ ToApply(id, token)'
    <3>1. Pending(id) => Pending(id)'
      BY <1>2, <1>4, PendingIs DEF Records
    <3>2. ToApply(id, token)'
      BY <1>2, <1>4 DEF Records, ToApply, Working
    <3> QED BY <3>1, <3>2
  <2> QED BY <1>2, <2>1, <2>2 DEF Settled
<1>5. CASE Works
  <2>1. Purged(id, token) => Purged(id, token)'
    BY <1>2, <1>5 DEF Purged, Works
  <2>2. Pending(id) /\ ToApply(id, token) => Pending(id)' /\ ToApply(id, token)'
    <3>1. Pending(id) => Pending(id)'
      BY <1>2, <1>5, PendingIs DEF Works
    <3>2. ToApply(id, token) => ToApply(id, token)'
      BY <1>2, <1>5 DEF Works, ToApply, Working
    <3> QED BY <3>1, <3>2
  <2> QED BY <1>2, <2>1, <2>2 DEF Settled
<1>6. CASE Finishes
  <2>1. Purged(id, token) => Purged(id, token)'
    BY <1>2, <1>6 DEF Purged, Finishes
  <2>2. Pending(id) => Pending(id)'
    BY <1>2, <1>6, PendingIs DEF Finishes
  <2>3. Handler'.event = Handler.event
    BY <1>6 DEF Finishes
  <2>4. CASE Handler.event.id # id
    <3>1. ToApply(id, token)'
      BY <2>3, <2>4 DEF ToApply
    <3> QED BY <1>2, <2>1, <2>2, <3>1 DEF Settled
  <2>5. CASE Handler.event.id = id /\ Pending(id) /\ ToApply(id, token)
    <3>1. Handler.pc \in Working /\ token < Handler.cur
      BY <1>1, <1>6, <2>5 DEF ToApply, Finishes, Working
    <3>2. /\ Handler.cur \in 1..seq
          /\ purges[Handler.cur].target = rows[id].tag
          /\ purges[Handler.cur].version = rows[id].version
      BY <1>1, <2>5, <3>1, AtHand
    <3>3. rows[id].version \in Nat
      BY <1>2, RowType DEF RowsInv, DataInv
    <3>4. Handler'.cur = 0 /\ UNCHANGED <<seq, purges>>
      BY <1>6 DEF Finishes
    <3>5. Handler.cur # 0
      BY <3>2
    <3>6. Purged(id, token)'
      BY <1>2, <3>1, <3>2, <3>3, <3>4, <3>5 DEF Purged
    <3> QED BY <3>6 DEF Settled
  <2> QED BY <1>2, <1>3, <2>1, <2>4, <2>5 DEF Settled
<1>7. CASE Commits
  <2> DEFINE done == Handler.event.id
  <2>1. /\ Handler.pc = "next" /\ Handler.tags = <<>>
        /\ Handler'.pc = "idle" /\ Handler'.cur = 0
        /\ processed' = processed \cup {done}
        /\ maxVersion' = Replica!CommitVersion(maxVersion, Handler.event)
        /\ UNCHANGED <<seq, purges>>
    BY <1>7 DEF Commits
  <2>2. /\ done \in DOMAIN rows \ lost
        /\ Handler.event.version = rows[done].version
        /\ Handler.event.tags = <<rows[done].tag>>
    BY <1>1, AtHand
  <2> HIDE DEF done
  <2>3. \A i, t : Purged(i, t) => Purged(i, t)'
    BY <1>2, <2>1 DEF Purged
  <2>4. ToApply(id, token)'
    BY <2>1 DEF ToApply
  <2>5. CASE done = id
    <3>1. ~ToApply(id, token)
      BY <2>1, <2>5 DEF ToApply, done, Working
    <3> QED BY <1>2, <1>3, <2>3, <3>1 DEF Settled
  <2>6. CASE done # id /\ Pending(id) /\ ~Pending(id)'
    <3>1. /\ rows[id].tag \in Tags /\ rows[id].version \in Nat
          /\ rows[done].tag \in Tags /\ rows[done].version \in Nat
          /\ maxVersion \in [Tags -> Nat]
      <4>1. \A i \in DOMAIN rows : i \in 1..Len(rows)
        BY DEF RowsInv, DataInv
      <4> QED BY <1>2, <2>2, <4>1, RowType, ReplicaTypes DEF RowsInv
    <3>2. /\ rows[id].version > 0 /\ id \notin processed \cup lost
          /\ ~(rows[id].version <= maxVersion[rows[id].tag])
          /\ rows[id].version <= maxVersion'[rows[id].tag]
      BY <1>2, <2>1, <2>6, PendingIs
    <3>3. rows[id].tag = rows[done].tag /\ maxVersion'[rows[id].tag] = rows[done].version
      <4>1. \A i : i \in DOMAIN <<rows[done].tag>> => <<rows[done].tag>>[i] = rows[done].tag
        OBVIOUS
      <4> QED BY <2>1, <2>2, <3>1, <3>2, <4>1 DEF Replica!CommitVersion
    <3>4. id < done
      <4>1. id \in Nat /\ done \in Nat
        BY <1>2, <2>2 DEF RowsInv, DataInv
      <4>2. ~(done < id)
        BY <1>2, <2>2, <3>1, <3>2, <3>3 DEF RowsInv
      <4> QED BY <2>6, <4>1, <4>2
    <3>5. done \in (n + 1)..Len(rows)
      BY <2>2, <3>4 DEF RowsInv, DataInv
    <3>6. Purged(done, token)
      <4>1. Settled(done, token) /\ ~ToApply(done, token)
        BY <2>1, <3>5 DEF ToApply, done, Working
      <4> QED BY <2>2, <4>1 DEF Settled
    <3>7. Purged(id, token)
      <4>1. PICK p \in 1..seq : /\ token < p /\ p # Handler.cur
                                /\ purges[p].target = rows[done].tag
                                /\ \/ purges[p].version = 0
                                   \/ rows[done].version <= purges[p].version
        BY <3>6 DEF Purged
      <4>2. purges[p].version \in Nat
        <5>1. purges[p] \in Purging!Purge
          BY ReplicaTypes
        <5> QED BY <5>1 DEF Purging!Purge
      <4>3. purges[p].version = 0 \/ rows[id].version <= purges[p].version
        BY <3>1, <3>2, <3>3, <4>1, <4>2
      <4> QED BY <3>2, <3>3, <4>1, <4>3 DEF Purged
    <3> QED BY <2>3, <3>7 DEF Settled
  <2> QED BY <1>2, <1>3, <2>3, <2>4, <2>5, <2>6 DEF Settled
<1> QED BY <1>1, <1>4, <1>5, <1>6, <1>7

-------------------------------------------------------------------------------
(* What the replica holds was read from the database, and what has changed since *)
(* is on its way.                                                                *)

\* A page read from the database after the token was taken.
Witnessed(shown, page, token) ==
    \E d \in Data, n \in 0..Len(rows) :
        /\ Told(d, db, RowsSince(n))
        /\ shown = Content(d, page)
        /\ \A id \in (n + 1)..Len(rows) : Settled(id, token)

PageInv ==
    /\ DOMAIN content = CachedPages
    /\ \A page \in CachedPages : cache[page] # None =>
        /\ cache[page].token <= seq
        /\ cache[page].tags = TagsOf(content[page], page)
        /\ cache[page].version = Version(content[page], page)
        /\ Witnessed(content[page], page, cache[page].token)

AnswerInv ==
    /\ DOMAIN answer = Fetchers
    /\ \A f \in Fetchers : answer[f] # None =>
         fetch[f] # None /\ Witnessed(answer[f], fetch[f].key, fetch[f].seq)

PipelineInv == RowsInv /\ ReplicaInv /\ HandlerInv /\ PageInv /\ AnswerInv

\* A step that leaves the database alone.
LEMMA WitnessedFrame ==
    ASSUME NEW shown, NEW page, NEW token, Witnessed(shown, page, token),
           UNCHANGED upstream,
           \A n \in 0..Len(rows) :
              (\A id \in (n + 1)..Len(rows) : Settled(id, token)) =>
                 \A id \in (n + 1)..Len(rows) : Settled(id, token)'
    PROVE  Witnessed(shown, page, token)'
<1>1. PICK d \in Data, n \in 0..Len(rows) :
        /\ Told(d, db, RowsSince(n))
        /\ shown = Content(d, page)
        /\ \A id \in (n + 1)..Len(rows) : Settled(id, token)
  BY DEF Witnessed
<1>2. rows' = rows /\ db' = db /\ RowsSince(n)' = RowsSince(n)
  BY DEF upstream, RowsSince
<1>3. \A id \in (n + 1)..Len(rows) : Settled(id, token)'
  BY <1>1
<1> QED BY <1>1, <1>2, <1>3 DEF Witnessed

LEMMA WitnessedPut ==
    ASSUME RowsInv, ReplicaInv, HandlerInv, NEW b \in Books, NEW patch \in Patch, Put(b, patch),
           NEW shown, NEW page, NEW token, Witnessed(shown, page, token)
    PROVE  Witnessed(shown, page, token)'
<1>1. PICK d \in Data, n \in 0..Len(rows) :
        /\ Told(d, db, RowsSince(n))
        /\ shown = Content(d, page)
        /\ \A id \in (n + 1)..Len(rows) : Settled(id, token)
  BY DEF Witnessed
<1>2. DataInv
  BY DEF RowsInv
<1>3. Told(d, db', RowsSince(n)')
  BY <1>1, <1>2, ToldPut
<1>4. /\ Len(rows) \in Nat /\ Len(rows') \in Nat /\ Len(rows) < Len(rows')
      /\ DOMAIN rows = 1..Len(rows)
      /\ \A id \in 1..Len(rows) : rows'[id] = rows[id]
      /\ rows'[Len(rows) + 1] = [tag |-> BookTag(b), version |-> db'[b].version]
      /\ \A id \in (Len(rows) + 2)..Len(rows') : rows'[id] = [tag |-> ListBooks, version |-> 0]
      /\ db'[b].version = db[b].version + 1 /\ db[b].version \in Nat
      /\ UNCHANGED <<lost, seq, purges, processed, maxVersion, run>>
  <2>1. DataInv'
    BY <1>2, PutRows
  <2>2. /\ Len(rows) \in Nat /\ Len(rows') \in Nat /\ DOMAIN rows = 1..Len(rows)
        /\ db \in [Books -> Row] /\ db[b].version \in Nat
    BY <1>2, <2>1 DEF DataInv, Data, Row
  <2> QED BY <1>2, <2>2, PutRows DEF queue, replica
<1>5. ASSUME NEW id \in (n + 1)..Len(rows') PROVE Settled(id, token)'
  <2>1. CASE id \in 1..Len(rows)
    <3>1. id \in (n + 1)..Len(rows)
      BY <1>4, <2>1
    <3> QED BY <1>1, <1>4, <2>1, <3>1, SettledFrame
  <2>2. CASE id \notin 1..Len(rows)
    <3>1. id = Len(rows) + 1 \/ id \in (Len(rows) + 2)..Len(rows')
      BY <1>4, <2>2
    <3>2. id \notin processed' \cup lost'
      BY <1>4, <2>2 DEF RowsInv
    <3>3. rows'[id].version > 0 => ~(rows'[id].version <= maxVersion'[rows'[id].tag])
      <4>1. CASE id = Len(rows) + 1
        <5>1. maxVersion[BookTag(b)] <= db[b].version /\ maxVersion[BookTag(b)] \in Nat
          <6>1. BookTag(b) \in Tags
            BY DEF Tags
          <6> QED BY <6>1, ReplicaTypes DEF RowsInv
        <5> QED BY <1>4, <4>1, <5>1
      <4>2. CASE id \in (Len(rows) + 2)..Len(rows')
        BY <1>4, <4>2
      <4> QED BY <3>1, <4>1, <4>2
    <3>4. Pending(id)'
      BY <3>2, <3>3, PendingIs
    <3>5. ToApply(id, token)'
      BY <1>4, <2>2 DEF ToApply, Handler, HandlerInv
    <3> QED BY <3>4, <3>5 DEF Settled
  <2> QED BY <2>1, <2>2
<1>6. n \in 0..Len(rows')
  BY <1>4
<1> QED BY <1>1, <1>3, <1>5, <1>6 DEF Witnessed

\* Whatever happens but a restart, what was read since a token stays accounted for.
LEMMA WitnessedStep ==
    ASSUME RowsInv, ReplicaInv, HandlerInv, ReplicaInv', [Next]_vars, ~Restart,
           NEW shown, NEW page, NEW token \in 0..seq, Witnessed(shown, page, token)
    PROVE  Witnessed(shown, page, token)'
<1>0. DOMAIN rows = 1..Len(rows) /\ Len(rows) \in Nat
  BY DEF RowsInv, DataInv
<1>1. ASSUME NEW put \in Puts, Put(put.book, put.patch) PROVE Witnessed(shown, page, token)'
  <2>1. put.book \in Books /\ put.patch \in Patch
    OBVIOUS
  <2> QED BY <1>1, <2>1, WitnessedPut
<1>2. ASSUME UNCHANGED upstream, lost = lost' \/ lost = {},
             UNCHANGED <<seq, purges, processed, maxVersion, run>>
      PROVE  Witnessed(shown, page, token)'
  <2>1. ASSUME NEW n \in 0..Len(rows), NEW id \in (n + 1)..Len(rows), Settled(id, token)
        PROVE  Settled(id, token)'
    <3>1. id \in DOMAIN rows /\ rows'[id] = rows[id]
      BY <1>0, <1>2 DEF upstream
    <3> QED BY <1>2, <2>1, <3>1, SettledFrame
  <2> QED BY <1>2, <2>1, WitnessedFrame
<1>3. CASE Bind
  BY <1>2, <1>3 DEF Bind, RowsInv, replica
<1>4. ASSUME NEW f \in Fetchers, \/ \E k \in CachedPages : Begin(f, k)
                                 \/ Read(f)
                                 \/ Store(f)
                                 \/ GiveUp(f)
      PROVE  Witnessed(shown, page, token)'
  <2>1. UNCHANGED <<upstream, lost, seq, purges, processed, maxVersion, run>>
    <3>1. ASSUME NEW k \in CachedPages, Begin(f, k) PROVE <2>1!:
      BY <3>1 DEF Begin, Replica!Begin, Replica!tracker, Replica!broker, queue
    <3>2. CASE Read(f)
      BY <3>2 DEF Read, queue, replica
    <3>3. CASE Store(f)
      BY <3>3 DEF Store, Replica!Store, Replica!tracker, Replica!broker, queue
    <3>4. CASE GiveUp(f)
      BY <3>4 DEF GiveUp, Replica!GiveUp, Replica!tracker, Replica!broker, queue
    <3> QED BY <1>4, <3>1, <3>2, <3>3, <3>4
  <2> QED BY <1>2, <2>1
<1>5. ASSUME NEW k \in CachedPages, Evict(k) PROVE Witnessed(shown, page, token)'
  BY <1>2, <1>5 DEF Evict, Replica!Evict, Replica!tracker, Replica!broker, queue
<1>6. ASSUME NEW next \in RowIds, Deliver(next) PROVE Witnessed(shown, page, token)'
  <2>1. next \in DOMAIN rows /\ UNCHANGED upstream
    BY <1>6 DEF Deliver
  <2>2. ASSUME NEW n \in 0..Len(rows), NEW id \in (n + 1)..Len(rows), Settled(id, token)
        PROVE  Settled(id, token)'
    <3>1. id \in DOMAIN rows
      BY <1>0
    <3> QED BY <1>6, <2>1, <2>2, <3>1, SettledDeliver
  <2> QED BY <2>1, <2>2, WitnessedFrame
<1>7. CASE Handle
  <2>1. ASSUME NEW n \in 0..Len(rows), \A id \in (n + 1)..Len(rows) : Settled(id, token),
               NEW id \in (n + 1)..Len(rows)
        PROVE  Settled(id, token)'
    <3>1. n \in Nat
      OBVIOUS
    <3> QED BY <1>7, <2>1, <3>1, SettledHandle
  <2>2. UNCHANGED upstream
    BY <1>7 DEF Handle
  <2> QED BY <2>1, <2>2, WitnessedFrame
<1>8. CASE UNCHANGED vars
  BY <1>2, <1>8 DEF vars, queue, replica
<1> QED BY <1>1, <1>3, <1>4, <1>5, <1>6, <1>7, <1>8 DEF Next, Consume

-------------------------------------------------------------------------------
(* The replica, restart and all. *)

\* The tags and the version of a response have their types.
LEMMA ResponseType ==
    ASSUME NEW d \in Data, NEW page \in Pages
    PROVE  /\ TagsOf(Content(d, page), page) \in SUBSET Tags
           /\ Version(Content(d, page), page) \in Nat
<1> DEFINE shown == Content(d, page)
           leading == RouteTags(page) \cup LeadingTags(shown, page)
<1>1. \A b \in Books : BookTag(b) \in Tags
  BY DEF Tags
<1>2. \A g \in Genres : GenreTag(g) \in Tags
  BY DEF Tags
<1>3. \A a \in Authors : AuthorTag(a) \in Tags
  BY DEF Tags
<1>4. ListBooks \in Tags /\ ListGenres \in Tags
  BY DEF Tags
<1>5. /\ page[1] \in {"card", "authors"} => page[2] \in Books
      /\ page[1] = "genre" => page[2] \in Genres
      /\ page[1] \in {"card", "authors", "list", "search", "genre", "genres"}
  <2>1. CASE page \in ListPages
    BY <2>1 DEF ListPages, List
  <2>2. CASE page \in SearchPages
    BY <2>2 DEF SearchPages, Search
  <2>3. CASE page \notin ListPages \cup SearchPages
    BY <2>3 DEF Pages, Card, AuthorsPage, GenrePage, GenresPage
  <2> QED BY <2>1, <2>2, <2>3
<1>6. RouteTags(page) \subseteq Tags
  BY <1>1, <1>2, <1>4, <1>5 DEF RouteTags
<1>7. LeadingTags(shown, page) \subseteq Tags
  BY <1>1, <1>2, <1>4, <1>5, <1>6 DEF LeadingTags
<1>8. DOMAIN shown \subseteq Books
  BY <1>5 DEF Content, Shown, Slice, InGenre, Titled
<1>9. Version(shown, page) \in Nat
  <2>1. CASE page[1] = "card"
    <3>1. page[2] \in Books /\ Shown(d, page) = { page[2] }
      BY <1>5, <2>1 DEF Shown
    <3>2. shown[page[2]] = d[page[2]] /\ d[page[2]] \in Row
      BY <3>1 DEF Content, Data
    <3> QED BY <2>1, <3>2 DEF Version, Row
  <2>2. CASE page[1] # "card"
    BY <2>2 DEF Version
  <2> QED BY <2>1, <2>2
<1> HIDE DEF shown
<1>10. TagsOf(shown, page) \subseteq Tags
  <2> DEFINE books   == IF page[1] \in {"list", "search"} THEN DOMAIN shown ELSE {}
             authors == IF page[1] = "authors" THEN AuthorsOf[page[2]] ELSE {}
             genres  == IF page[1] = "genres" THEN Genres ELSE {}
  <2>1. books \subseteq Books /\ authors \subseteq Authors /\ genres \subseteq Genres
    BY <1>5, <1>8
  <2>2. leading \subseteq Tags
    BY <1>6, <1>7
  <2>3. TagsOf(shown, page) = leading \cup { BookTag(b) : b \in Fitting(leading, books) }
                                      \cup { AuthorTag(a) : a \in Fitting(leading, authors) }
                                      \cup { GenreTag(g) : g \in Fitting(leading, genres) }
    BY DEF TagsOf
  <2> HIDE DEF leading, books, authors, genres
  <2>4. /\ Fitting(leading, books) \subseteq Books
        /\ Fitting(leading, authors) \subseteq Authors
        /\ Fitting(leading, genres) \subseteq Genres
    BY <2>1 DEF Fitting
  <2> QED BY <1>1, <1>2, <1>3, <2>2, <2>3, <2>4
<1> QED BY <1>9, <1>10 DEF shown

\* A restart leaves nothing that could be out of date.
LEMMA RestartReplica ==
    ASSUME ReplicaInv, Restart
    PROVE  ReplicaInv'
<1>1. /\ seq' = 0 /\ purges' = <<>> /\ now' = now /\ now \in Nat
      /\ tracked' = [t \in Purging!Targets |-> None]
      /\ cache' = [page \in CachedPages |-> None]
      /\ fetch' = [f \in Fetchers |-> None]
      /\ run' = [r \in {consumer} |-> Purging!Idle]
      /\ processed' = processed /\ maxVersion' = maxVersion
      /\ processed \subseteq RowIds /\ maxVersion \in [Tags -> Nat]
  BY ReplicaTypes DEF Restart, Replica!Targets, Purging!Targets, Replica!Idle, Purging!Idle
<1>2. Purging!Idle \in Purging!RunState
  BY DEF Purging!Idle, Purging!RunState
<1>3. 1..seq' = {} /\ \A r \in {consumer} : run'[r].pc = "idle"
  BY <1>1 DEF Purging!Idle
<1>4. Purging!TypeOK'
  <2>1. <<>> \in Seq(Purging!Purge)
    OBVIOUS
  <2> QED BY <1>1, <1>2, <2>1 DEF Purging!TypeOK
<1>5. Purging!ControlInv'
  <2>1. Purging!RunInv'
    BY <1>3 DEF Purging!RunInv, Purging!RunOK
  <2> QED BY <1>1, <1>4, <2>1 DEF Purging!ControlInv
<1>6. Purging!TrackInv'
  BY <1>1, <1>3 DEF Purging!TrackInv, Purging!HistoryInv, Purging!TrackerInv, Purging!EntryInv, Purging!FetchInv
<1>7. Purging!PurgeInv'
  BY <1>3 DEF Purging!PurgeInv
<1>8. Purging!OrderInv'
  BY <1>3 DEF Purging!OrderInv, Purging!EventOK, Purging!Versioned
<1> QED BY <1>5, <1>6, <1>7, <1>8 DEF ReplicaInv, Purging!IInv

\* Every other step is one of module Invalidation.
LEMMA ReplicaSteps ==
    ASSUME RowsInv, ReplicaInv, AnswerInv, [Next]_vars, ~Restart
    PROVE  [Purging!Next]_Purging!vars
<1>1. ASSUME UNCHANGED replica PROVE UNCHANGED Purging!vars
  BY <1>1 DEF replica, Purging!vars
<1>2. ASSUME NEW put \in Puts, Put(put.book, put.patch) PROVE UNCHANGED Purging!vars
  BY <1>1, <1>2 DEF Put
<1>3. CASE Bind
  BY <1>1, <1>3 DEF Bind
<1>4. ASSUME NEW f \in Fetchers, NEW page \in CachedPages, Begin(f, page) PROVE Purging!Next
  BY <1>4, SameFetch DEF Begin, Purging!Next
<1>5. ASSUME NEW f \in Fetchers, Read(f) PROVE UNCHANGED Purging!vars
  BY <1>1, <1>5 DEF Read
<1>6. ASSUME NEW f \in Fetchers, Store(f) PROVE Purging!Next
  <2> DEFINE page == fetch[f].key
             resp == [version |-> Version(answer[f], page), tags |-> TagsOf(answer[f], page)]
  <2>1. answer[f] # None /\ Replica!Store(f, resp)
    BY <1>6 DEF Store
  <2>2. fetch[f] # None /\ \E d \in Data : answer[f] = Content(d, page)
    BY <2>1 DEF AnswerInv, Witnessed
  <2>3. page \in Pages
    BY <2>2, ReplicaTypes DEF Purging!Token
  <2>4. resp \in [version : Nat, tags : SUBSET Tags]
    BY <2>2, <2>3, ResponseType
  <2>5. Purging!Store(f, resp)
    <3> HIDE DEF resp
    <3> QED BY <2>1, SameFetch
  <2> HIDE DEF resp
  <2> QED BY <2>4, <2>5 DEF Purging!Next
<1>7. ASSUME NEW f \in Fetchers, GiveUp(f) PROVE Purging!Next
  BY <1>7, SameFetch DEF GiveUp, Purging!Next
<1>8. ASSUME NEW page \in CachedPages, Evict(page) PROVE Purging!Next
  BY <1>8, SameEvict DEF Evict, Purging!Next
<1>9. ASSUME NEW id \in RowIds, Deliver(id) PROVE Purging!Next
  <2>1. Purging!Deliver(consumer, EventOf(id))
    BY <1>9, SameDeliver DEF Deliver
  <2>2. EventOf(id) \in RowEvents
    <3>1. id \in 1..Len(rows)
      BY <1>9 DEF Deliver, RowsInv, DataInv
    <3>2. rows[id].tag \in Tags /\ rows[id].version \in Nat
      BY <3>1, RowType DEF RowsInv
    <3> QED BY <3>2 DEF EventOf, RowEvents
  <2> QED BY <2>1, <2>2 DEF Purging!Next, RowEvents
<1>10. CASE Handle
  BY <1>10, SameRunnerStep DEF Handle, Purging!Next
<1>11. CASE UNCHANGED vars
  BY <1>1, <1>11 DEF vars
<1> QED BY <1>2, <1>3, <1>4, <1>5, <1>6, <1>7, <1>8, <1>9, <1>10, <1>11 DEF Next, Consume

LEMMA StepReplica ==
    ASSUME RowsInv, ReplicaInv, AnswerInv, [Next]_vars
    PROVE  ReplicaInv'
<1>1. CASE Restart
  BY <1>1, RestartReplica
<1>2. CASE ~Restart
  BY <1>2, ReplicaSteps, ReplicaNext
<1> QED BY <1>1, <1>2

-------------------------------------------------------------------------------
(* Rows and the consumer. *)

LEMMA StepRows ==
    ASSUME RowsInv, ReplicaInv, HandlerInv, [Next]_vars
    PROVE  RowsInv'
<1>0. /\ DataInv /\ DOMAIN rows = 1..Len(rows) /\ Len(rows) \in Nat
      /\ maxVersion \in [Tags -> Nat]
      /\ \A b \in Books : BookTag(b) \in Tags /\ db[b].version \in Nat /\ BookTag(b) # ListBooks
      /\ \A b, c \in Books : BookTag(b) = BookTag(c) => b = c
  BY ReplicaTypes DEF RowsInv, DataInv, Data, Row, Tags, BookTag, ListBooks
<1>1. ASSUME NEW put \in Puts, Put(put.book, put.patch) PROVE RowsInv'
  <2> DEFINE b == put.book
             patch == put.patch
  <2>1. b \in Books /\ patch \in Patch /\ Put(b, patch)
    BY <1>1
  <2> HIDE DEF b, patch
  <2>2. /\ DataInv'
        /\ db'[b].version = db[b].version + 1
        /\ \A x \in Books : x # b => db'[x] = db[x]
        /\ Len(rows) < Len(rows')
        /\ \A id \in 1..Len(rows) : rows'[id] = rows[id]
        /\ rows'[Len(rows) + 1] = [tag |-> BookTag(b), version |-> db'[b].version]
        /\ \A id \in (Len(rows) + 2)..Len(rows') : rows'[id] = [tag |-> ListBooks, version |-> 0]
        /\ UNCHANGED <<bound, lost, processed, maxVersion>>
    <3>1. \A x \in Books : x # b => [db EXCEPT ![b] = Patched(db[b], patch)][x] = db[x]
      BY <1>0 DEF DataInv, Data
    <3> QED BY <1>0, <2>1, <3>1, PutRows DEF queue, replica
  <2>3. DOMAIN rows' = 1..Len(rows') /\ Len(rows') \in Nat
    BY <2>2 DEF DataInv
  <2>4. ASSUME NEW x \in Books
        PROVE  db[x].version <= db'[x].version /\ db'[x].version \in Nat
    <3>1. db[x].version \in Nat
      BY <1>0
    <3>2. CASE x = b
      BY <2>2, <3>1, <3>2
    <3>3. CASE x # b
      BY <2>2, <3>1, <3>3
    <3> QED BY <3>2, <3>3
  <2>5. ASSUME NEW id \in DOMAIN rows'
        PROVE  \/ id \in DOMAIN rows /\ rows'[id] = rows[id]
               \/ /\ id = Len(rows) + 1 /\ rows'[id].tag = BookTag(b)
                  /\ rows'[id].version = db[b].version + 1
               \/ id > Len(rows) /\ rows'[id].tag = ListBooks /\ rows'[id].version = 0
    <3>1. id \in 1..Len(rows) \/ id = Len(rows) + 1 \/ id \in (Len(rows) + 2)..Len(rows')
      BY <1>0, <2>3
    <3>2. CASE id \in 1..Len(rows)
      BY <1>0, <2>2, <3>2
    <3>3. CASE id = Len(rows) + 1
      BY <1>0, <2>2, <3>3
    <3>4. CASE id \in (Len(rows) + 2)..Len(rows')
      BY <1>0, <2>2, <3>4
    <3> QED BY <3>1, <3>2, <3>3, <3>4
  <2>6. ASSUME NEW id \in DOMAIN rows', NEW x \in Books, rows'[id].tag = BookTag(x)
        PROVE  rows'[id].version <= db'[x].version
    <3>1. CASE id \in DOMAIN rows /\ rows'[id] = rows[id]
      <4>1. rows[id].version <= db[x].version /\ rows[id].version \in Nat
        BY <1>0, <2>6, <3>1, RowType DEF RowsInv
      <4>2. /\ db[x].version \in Nat
            /\ db[x].version <= db'[x].version /\ db'[x].version \in Nat
        BY <1>0, <2>4
      <4> QED BY <3>1, <4>1, <4>2
    <3>2. CASE rows'[id].tag = BookTag(b) /\ rows'[id].version = db[b].version + 1
      <4>1. x = b
        BY <1>0, <2>1, <2>6, <3>2
      <4> QED BY <1>0, <2>1, <2>2, <3>2, <4>1
    <3>3. CASE rows'[id].tag = ListBooks
      BY <1>0, <2>6, <3>3
    <3> QED BY <2>5, <3>1, <3>2, <3>3
  <2>7. ASSUME NEW i \in DOMAIN rows', NEW j \in DOMAIN rows', i < j,
               rows'[i].tag = rows'[j].tag, rows'[j].version > 0
        PROVE  rows'[i].version < rows'[j].version
    <3>1. CASE j \in DOMAIN rows /\ rows'[j] = rows[j]
      <4>1. i \in DOMAIN rows /\ rows'[i] = rows[i]
        BY <1>0, <2>2, <2>3, <2>7, <3>1
      <4> QED BY <2>7, <3>1, <4>1 DEF RowsInv
    <3>2. CASE /\ j = Len(rows) + 1 /\ rows'[j].tag = BookTag(b)
               /\ rows'[j].version = db[b].version + 1
      <4>1. i \in DOMAIN rows /\ rows'[i] = rows[i]
        BY <1>0, <2>2, <2>3, <2>7, <3>2
      <4>2. rows[i].version <= db[b].version /\ rows[i].version \in Nat
        BY <1>0, <2>1, <2>7, <3>2, <4>1, RowType DEF RowsInv
      <4>3. db[b].version \in Nat
        BY <1>0, <2>1
      <4> QED BY <3>2, <4>1, <4>2, <4>3
    <3>3. CASE rows'[j].version = 0
      BY <2>7, <3>3
    <3> QED BY <2>5, <3>1, <3>2, <3>3
  <2>8. ASSUME NEW x \in Books PROVE maxVersion'[BookTag(x)] <= db'[x].version
    <3>1. maxVersion[BookTag(x)] <= db[x].version /\ maxVersion[BookTag(x)] \in Nat
      BY <1>0 DEF RowsInv
    <3> QED BY <1>0, <2>2, <2>4, <3>1
  <2>9. DOMAIN rows \subseteq DOMAIN rows'
    BY <1>0, <2>2, <2>3
  <2> QED BY <2>2, <2>6, <2>7, <2>8, <2>9 DEF RowsInv
<1>2. CASE Bind
  BY <1>2 DEF Bind, RowsInv, DataInv, upstream, replica
<1>3. ASSUME UNCHANGED <<upstream, bound, lost, processed, maxVersion>> PROVE RowsInv'
  BY <1>3 DEF RowsInv, DataInv, upstream
<1>4. CASE Handle
  <2>1. UNCHANGED <<upstream, bound, lost>> /\ Handler.pc # "idle"
        /\ (Records \/ Works \/ Finishes \/ Commits)
    BY <1>4, HandleKinds DEF queue
  <2>2. CASE Records \/ Works \/ Finishes
    BY <1>3, <2>1, <2>2 DEF Records, Works, Finishes
  <2>3. CASE Commits
    <3> DEFINE id == Handler.event.id
    <3>1. /\ id \in DOMAIN rows
          /\ Handler.event.version = rows[id].version
          /\ Handler.event.tags = <<rows[id].tag>>
      BY <2>1, AtHand
    <3>2. /\ processed' = processed \cup {id}
          /\ maxVersion' = Replica!CommitVersion(maxVersion, Handler.event)
      BY <2>3 DEF Commits
    <3> HIDE DEF id
    <3>3. ASSUME NEW b \in Books PROVE maxVersion'[BookTag(b)] <= db[b].version
      <4>1. \A i : i \in DOMAIN <<rows[id].tag>> => <<rows[id].tag>>[i] = rows[id].tag
        OBVIOUS
      <4>2. \/ maxVersion'[BookTag(b)] = maxVersion[BookTag(b)]
            \/ maxVersion'[BookTag(b)] = rows[id].version /\ rows[id].tag = BookTag(b)
        BY <1>0, <3>1, <3>2, <4>1 DEF Replica!CommitVersion
      <4> QED BY <3>1, <4>2 DEF RowsInv
    <3>4. UNCHANGED <<db, rows, bound, lost>>
      BY <2>1 DEF upstream
    <3> QED BY <3>1, <3>2, <3>3, <3>4 DEF RowsInv, DataInv
  <2> QED BY <2>1, <2>2, <2>3
<1>5. ASSUME NEW f \in Fetchers, \/ \E k \in CachedPages : Begin(f, k)
                                 \/ Read(f)
                                 \/ Store(f)
                                 \/ GiveUp(f)
      PROVE  RowsInv'
  BY <1>3, <1>5 DEF Begin, Read, Store, GiveUp, Replica!Begin, Replica!Store, Replica!GiveUp,
                    Replica!tracker, Replica!broker, queue, replica
<1>6. ASSUME NEW k \in CachedPages, Evict(k) PROVE RowsInv'
  BY <1>3, <1>6 DEF Evict, Replica!Evict, Replica!tracker, Replica!broker, queue
<1>7. ASSUME NEW next \in RowIds, Deliver(next) PROVE RowsInv'
  BY <1>3, <1>7 DEF Deliver, Replica!Deliver, Replica!tracker, Replica!broker, queue
<1>8. CASE Restart
  BY <1>3, <1>8 DEF Restart, queue
<1>9. CASE UNCHANGED vars
  BY <1>3, <1>9 DEF vars, queue, replica
<1> QED BY <1>1, <1>2, <1>4, <1>5, <1>6, <1>7, <1>8, <1>9 DEF Next, Consume

LEMMA StepHandler ==
    ASSUME RowsInv, ReplicaInv, HandlerInv, [Next]_vars
    PROVE  HandlerInv'
<1>0. DataInv /\ DOMAIN rows = 1..Len(rows) /\ Len(rows) \in Nat
  BY DEF RowsInv, DataInv
<1>1. ASSUME NEW put \in Puts, Put(put.book, put.patch) PROVE HandlerInv'
  <2>1. put.book \in Books /\ put.patch \in Patch
    OBVIOUS
  <2>2. /\ DataInv'
        /\ Len(rows) < Len(rows')
        /\ \A id \in 1..Len(rows) : rows'[id] = rows[id]
        /\ UNCHANGED <<bound, lost, run>>
    BY <1>0, <1>1, <2>1, PutRows DEF queue, replica
  <2>3. DOMAIN rows' = 1..Len(rows') /\ Len(rows') \in Nat
    BY <2>2 DEF DataInv
  <2>4. \A id \in DOMAIN rows : id \in DOMAIN rows' /\ rows'[id] = rows[id] /\ EventOf(id)' = EventOf(id)
    BY <1>0, <2>2, <2>3 DEF EventOf
  <2> QED BY <2>2, <2>4 DEF HandlerInv, Handler
<1>2. CASE Bind
  BY <1>2 DEF Bind, HandlerInv, Handler, replica
<1>3. ASSUME UNCHANGED <<upstream, bound, lost, run>> PROVE HandlerInv'
  BY <1>3 DEF HandlerInv, Handler, EventOf, upstream
<1>4. CASE Handle
  <2>1. UNCHANGED <<upstream, bound, lost>> /\ Handler.pc # "idle"
        /\ (Records \/ Works \/ Finishes \/ Commits)
    BY <1>4, HandleKinds DEF queue
  <2>2. CASE Records \/ Works \/ Finishes
    BY <2>1, <2>2 DEF Records, Works, Finishes, HandlerInv, EventOf, upstream
  <2>3. CASE Commits
    BY <2>3 DEF Commits, HandlerInv
  <2> QED BY <2>1, <2>2, <2>3
<1>5. ASSUME NEW f \in Fetchers, \/ \E k \in CachedPages : Begin(f, k)
                                 \/ Read(f)
                                 \/ Store(f)
                                 \/ GiveUp(f)
      PROVE  HandlerInv'
  BY <1>3, <1>5 DEF Begin, Read, Store, GiveUp, Replica!Begin, Replica!Store, Replica!GiveUp,
                    Replica!tracker, Replica!broker, queue, replica
<1>6. ASSUME NEW k \in CachedPages, Evict(k) PROVE HandlerInv'
  BY <1>3, <1>6 DEF Evict, Replica!Evict, Replica!tracker, Replica!broker, queue
<1>7. ASSUME NEW next \in RowIds, Deliver(next) PROVE HandlerInv'
  <2>1. /\ bound /\ next \in DOMAIN rows \ lost
        /\ UNCHANGED <<upstream, bound, lost>>
        /\ run' = [run EXCEPT ![consumer] = [Replica!Idle EXCEPT !.pc = "next", !.event = EventOf(next),
                                                !.tags = EventOf(next).tags, !.keys = EventOf(next).keys]]
    BY <1>7 DEF Deliver, Replica!Deliver, Replica!tracker, Replica!broker, queue
  <2>2. /\ Handler'.event = EventOf(next) /\ Handler'.tags = EventOf(next).tags /\ Handler'.keys = <<>>
    BY <2>1, ReplicaTypes DEF Handler, Replica!Idle, EventOf
  <2>3. EventOf(next).id = next /\ EventOf(next)' = EventOf(next)
    BY <2>1 DEF EventOf, upstream
  <2> QED BY <2>1, <2>2, <2>3 DEF HandlerInv, upstream
<1>8. CASE Restart
  BY <1>8 DEF Restart, HandlerInv, Handler, Replica!Idle
<1>9. CASE UNCHANGED vars
  BY <1>3, <1>9 DEF vars, queue, replica
<1> QED BY <1>1, <1>2, <1>4, <1>5, <1>6, <1>7, <1>8, <1>9 DEF Next, Consume

-------------------------------------------------------------------------------
(* The cache and the answers. *)

\* What was witnessed stays so, for an item of the cache and for an answer.
LEMMA TokensAreOld ==
    ASSUME ReplicaInv
    PROVE  /\ \A page \in CachedPages : cache[page] # None =>
                 cache[page].token \in Nat /\ cache[page].tags \in SUBSET Tags /\ cache[page].version \in Nat
           /\ \A f \in Fetchers : fetch[f] # None =>
                 fetch[f].key \in CachedPages /\ fetch[f].seq \in 0..seq
           /\ seq \in Nat
<1>1. ASSUME NEW page \in CachedPages, cache[page] # None PROVE cache[page] \in Purging!Item
  BY <1>1, ReplicaTypes
<1>2. ASSUME NEW f \in Fetchers, fetch[f] # None
      PROVE  fetch[f] \in Purging!Token /\ fetch[f].seq <= seq /\ seq \in Nat
  BY <1>2, ReplicaTypes
<1> QED BY <1>1, <1>2, ReplicaTypes DEF Purging!Item, Purging!Token

\* No step but a restart takes the numbers of invalidations back.
LEMMA SeqGrows ==
    ASSUME RowsInv, ReplicaInv, HandlerInv, ReplicaInv', [Next]_vars, ~Restart
    PROVE  seq <= seq' /\ seq \in Nat /\ seq' \in Nat
<1>0. seq \in Nat /\ seq' \in Nat
  BY ReplicaTypes DEF ReplicaInv, Purging!IInv, Purging!ControlInv, Purging!TypeOK
<1>1. CASE Handle
  <2>1. Records \/ Works \/ Finishes \/ Commits
    BY <1>1, HandleKinds
  <2> QED BY <1>0, <2>1 DEF Records, Works, Finishes, Commits
<1>2. CASE ~Handle
  <2>1. seq' = seq
    BY <1>2 DEF Next, Consume, Put, Bind, Begin, Read, Store, GiveUp, Evict, Deliver, Replica!Begin,
                Replica!Store, Replica!GiveUp, Replica!Evict, Replica!Deliver, Replica!tracker,
                vars, replica
  <2> QED BY <1>0, <2>1
<1> QED BY <1>1, <1>2

\* Accounted for one way, accounted for the other.
LEMMA WitnessedNext ==
    ASSUME NEW shown, NEW page, NEW token, Witnessed(shown, page, token)'
    PROVE  /\ \A f \in Fetchers :
                 answer'[f] = shown /\ fetch'[f].key = page /\ fetch'[f].seq = token =>
                    Witnessed(answer[f], fetch[f].key, fetch[f].seq)'
           /\ content'[page] = shown /\ cache'[page].token = token =>
                 Witnessed(content[page], page, cache[page].token)'
BY DEF Witnessed, Settled, Purged, ToApply

\* Answers come from the database, and go when they are stored or given up.
AnswersFollow ==
    /\ DOMAIN answer' = Fetchers
    /\ \A f \in Fetchers : answer'[f] # None =>
         \/ answer[f] # None /\ answer'[f] = answer[f] /\ fetch'[f] = fetch[f]
         \/ Read(f)

LEMMA StepAnswersFollow ==
    ASSUME PipelineInv, [Next]_vars, ~Restart
    PROVE  AnswersFollow
<1> USE DEF AnswersFollow
<1>0. /\ DOMAIN answer = Fetchers
      /\ \A f \in Fetchers : answer[f] # None => fetch[f] # None
      /\ fetch \in [Fetchers -> Purging!Token \cup {None}]
  BY ReplicaTypes DEF PipelineInv, AnswerInv
<1>1. ASSUME UNCHANGED <<answer, fetch>> PROVE AnswersFollow
  BY <1>0, <1>1
<1>2. ASSUME NEW f \in Fetchers, NEW page \in CachedPages, Begin(f, page) PROVE AnswersFollow
  <2>1. UNCHANGED answer /\ fetch[f] = None /\ \A g \in Fetchers : g # f => fetch'[g] = fetch[g]
    BY <1>0, <1>2 DEF Begin, Replica!Begin
  <2> QED BY <1>0, <2>1
<1>3. ASSUME NEW f \in Fetchers, Read(f) PROVE AnswersFollow
  <2>1. /\ DOMAIN answer' = Fetchers /\ UNCHANGED fetch
        /\ \A g \in Fetchers : g # f => answer'[g] = answer[g]
    BY <1>0, <1>3 DEF Read, replica
  <2> QED BY <1>3, <2>1
<1>4. ASSUME NEW f \in Fetchers, Store(f) \/ GiveUp(f) PROVE AnswersFollow
  <2>1. answer' = [answer EXCEPT ![f] = None] /\ fetch' = [fetch EXCEPT ![f] = None]
    BY <1>4 DEF Store, GiveUp, Replica!Store, Replica!GiveUp
  <2>2. \A g \in Fetchers : g # f => answer'[g] = answer[g] /\ fetch'[g] = fetch[g]
    BY <1>0, <2>1
  <2> QED BY <1>0, <2>1, <2>2
<1>5. CASE Handle
  BY <1>1, <1>5, HandleKinds DEF PipelineInv
<1>6. CASE ~Handle /\ ~(\E f \in Fetchers : \/ \E page \in CachedPages : Begin(f, page)
                                            \/ Read(f) \/ Store(f) \/ GiveUp(f))
  <2>1. UNCHANGED <<answer, fetch>>
    BY <1>6 DEF Next, Consume, Put, Bind, Evict, Deliver, Replica!Evict, Replica!Deliver, vars, replica
  <2> QED BY <1>1, <2>1
<1> QED BY <1>2, <1>3, <1>4, <1>5, <1>6

LEMMA StepAnswers ==
    ASSUME PipelineInv, ReplicaInv', [Next]_vars
    PROVE  AnswerInv'
<1>0. /\ RowsInv /\ ReplicaInv /\ HandlerInv /\ AnswerInv /\ DOMAIN answer = Fetchers
      /\ db \in Data /\ Len(rows) \in Nat
  BY DEF PipelineInv, AnswerInv, RowsInv, DataInv
<1>1. CASE Restart
  BY <1>1 DEF Restart, AnswerInv
<1>2. CASE ~Restart
  <2> SUFFICES ASSUME NEW f \in Fetchers, answer'[f] # None
               PROVE  fetch'[f] # None /\ Witnessed(answer[f], fetch[f].key, fetch[f].seq)'
    BY <1>2, StepAnswersFollow DEF AnswersFollow, AnswerInv
  <2>1. CASE answer[f] # None /\ answer'[f] = answer[f] /\ fetch'[f] = fetch[f]
    <3>1. fetch[f] # None /\ Witnessed(answer[f], fetch[f].key, fetch[f].seq)
      BY <1>0, <2>1 DEF AnswerInv
    <3>2. PICK shown, page, token : shown = answer[f] /\ page = fetch[f].key /\ token = fetch[f].seq
      OBVIOUS
    <3>3. token \in 0..seq /\ Witnessed(shown, page, token)
      BY <1>0, <3>1, <3>2, TokensAreOld
    <3>4. Witnessed(shown, page, token)'
      BY <1>0, <1>2, <3>3, WitnessedStep
    <3>5. answer'[f] = shown /\ fetch'[f].key = page /\ fetch'[f].seq = token
      BY <2>1, <3>2
    <3> QED BY <2>1, <3>1, <3>4, <3>5, WitnessedNext
  <2>2. CASE Read(f)
    <3>1. PICK shown, page, token :
            shown = Content(db, page) /\ page = fetch[f].key /\ token = fetch[f].seq
      OBVIOUS
    <3>2. /\ fetch[f] # None /\ UNCHANGED <<db, rows, fetch>>
          /\ answer'[f] = shown
      BY <1>0, <2>2, <3>1 DEF Read, upstream, replica
    <3>3. Witnessed(shown, page, token)'
      <4>1. Told(db, db', RowsSince(Len(rows))')
        BY <3>2 DEF Told
      <4>2. (Len(rows) + 1)..Len(rows') = {} /\ Len(rows) \in 0..Len(rows')
        BY <1>0, <3>2
      <4>3. Told(db, db, RowsSince(Len(rows)))'
        BY <3>2, <4>1 DEF Told, RowsSince
      <4> QED BY <1>0, <3>1, <3>2, <4>2, <4>3 DEF Witnessed
    <3> QED BY <3>1, <3>2, <3>3, WitnessedNext
  <2> QED BY <1>2, <2>1, <2>2, StepAnswersFollow DEF AnswersFollow
<1> QED BY <1>1, <1>2

\* Items come from answers, with what they show, and go.
PagesFollow ==
    /\ DOMAIN content' = CachedPages
    /\ \A page \in CachedPages : cache'[page] # None =>
         \/ cache[page] # None /\ cache'[page] = cache[page] /\ content'[page] = content[page]
         \/ \E f \in Fetchers :
               /\ answer[f] # None /\ fetch[f].key = page
               /\ content'[page] = answer[f]
               /\ cache'[page] = [version |-> Version(answer[f], page),
                                  tags |-> TagsOf(answer[f], page), token |-> fetch[f].seq]

LEMMA StepPagesFollow ==
    ASSUME PipelineInv, [Next]_vars, ~Restart
    PROVE  PagesFollow
<1> USE DEF PagesFollow
<1>0. /\ DOMAIN content = CachedPages
      /\ cache \in [CachedPages -> Purging!Item \cup {None}]
      /\ fetch \in [Fetchers -> Purging!Token \cup {None}]
      /\ \A f \in Fetchers : answer[f] # None => fetch[f] # None
  BY ReplicaTypes DEF PipelineInv, PageInv, AnswerInv
<1>1. ASSUME UNCHANGED <<cache, content>> PROVE PagesFollow
  BY <1>0, <1>1
<1>2. ASSUME ContentFollows, \A page \in CachedPages : cache'[page] \in {cache[page], None}
      PROVE  PagesFollow
  BY <1>2 DEF ContentFollows
<1>3. CASE Handle
  <2>1. ContentFollows /\ \A page \in CachedPages : cache'[page] \in {cache[page], None}
    BY <1>3, HandleKinds DEF PipelineInv, Handle
  <2> QED BY <1>2, <2>1
<1>4. ASSUME NEW page \in CachedPages, Evict(page) PROVE PagesFollow
  <2>1. ContentFollows /\ cache' = [cache EXCEPT ![page] = None]
    BY <1>4 DEF Evict, Replica!Evict
  <2>2. \A p \in CachedPages : cache'[p] \in {cache[p], None}
    BY <1>0, <2>1
  <2> QED BY <1>2, <2>1, <2>2
<1>5. ASSUME NEW f \in Fetchers, Store(f) PROVE PagesFollow
  <2> DEFINE page == fetch[f].key
             item == [version |-> Version(answer[f], page), tags |-> TagsOf(answer[f], page),
                      token |-> fetch[f].seq]
  <2>1. answer[f] # None /\ page \in CachedPages
    BY <1>0, <1>5 DEF Store, Purging!Token
  <2>2. cache'[page] = item /\ content' = [content EXCEPT ![page] = answer[f]]
    BY <1>5 DEF Store
  <2>3. cache' = cache \/ \E i : cache' = [cache EXCEPT ![page] = i]
    BY <1>5 DEF Store, Replica!Store
  <2> HIDE DEF item, page
  <2>4. \A p \in CachedPages : p # page => cache'[p] = cache[p] /\ content'[p] = content[p]
    BY <1>0, <2>2, <2>3
  <2>5. DOMAIN content' = CachedPages /\ content'[page] = answer[f]
    BY <1>0, <2>1, <2>2
  <2> QED BY <2>1, <2>2, <2>4, <2>5 DEF page, item
<1>6. CASE ~Handle /\ ~(\E page \in CachedPages : Evict(page)) /\ ~(\E f \in Fetchers : Store(f))
  <2>1. UNCHANGED <<cache, content>>
    BY <1>6 DEF Next, Consume, Put, Bind, Begin, Read, GiveUp, Deliver, Replica!Begin, Replica!GiveUp,
                Replica!Deliver, vars, replica
  <2> QED BY <1>1, <2>1
<1> QED BY <1>3, <1>4, <1>5, <1>6

LEMMA StepPages ==
    ASSUME PipelineInv, ReplicaInv', [Next]_vars
    PROVE  PageInv'
<1>0. /\ RowsInv /\ ReplicaInv /\ HandlerInv /\ AnswerInv /\ PageInv
      /\ DOMAIN content = CachedPages
  BY DEF PipelineInv, PageInv
<1>1. CASE Restart
  BY <1>1 DEF Restart, PageInv, ContentFollows
<1>2. CASE ~Restart
  <2>0. seq <= seq' /\ seq \in Nat /\ seq' \in Nat
    BY <1>0, <1>2, SeqGrows
  <2> SUFFICES ASSUME NEW page \in CachedPages, cache'[page] # None
               PROVE  /\ cache'[page].token <= seq'
                      /\ cache'[page].tags = TagsOf(content'[page], page)
                      /\ cache'[page].version = Version(content'[page], page)
                      /\ Witnessed(content[page], page, cache[page].token)'
    BY <1>2, StepPagesFollow DEF PagesFollow, PageInv
  <2>1. ASSUME NEW shown, NEW token \in 0..seq, Witnessed(shown, page, token),
               content'[page] = shown, cache'[page].token = token
        PROVE  cache'[page].token <= seq' /\ Witnessed(content[page], page, cache[page].token)'
    <3>1. Witnessed(shown, page, token)'
      BY <1>0, <1>2, <2>1, WitnessedStep
    <3> QED BY <2>0, <2>1, <3>1, WitnessedNext
  <2>2. CASE cache[page] # None /\ cache'[page] = cache[page] /\ content'[page] = content[page]
    <3>1. /\ cache[page].token \in 0..seq
          /\ cache[page].tags = TagsOf(content[page], page)
          /\ cache[page].version = Version(content[page], page)
          /\ Witnessed(content[page], page, cache[page].token)
      BY <1>0, <2>2, TokensAreOld DEF PageInv
    <3>2. PICK shown, token : shown = content[page] /\ token = cache[page].token
      OBVIOUS
    <3>3. Witnessed(shown, page, token) /\ token \in 0..seq
      BY <3>1, <3>2
    <3> QED BY <2>1, <2>2, <3>1, <3>2, <3>3
  <2>3. ASSUME NEW f \in Fetchers, answer[f] # None, fetch[f].key = page, content'[page] = answer[f],
               cache'[page] = [version |-> Version(answer[f], page),
                               tags |-> TagsOf(answer[f], page), token |-> fetch[f].seq]
        PROVE  /\ cache'[page].token <= seq'
               /\ cache'[page].tags = TagsOf(content'[page], page)
               /\ cache'[page].version = Version(content'[page], page)
               /\ Witnessed(content[page], page, cache[page].token)'
    <3>1. fetch[f].seq \in 0..seq /\ Witnessed(answer[f], page, fetch[f].seq)
      BY <1>0, <2>3, TokensAreOld DEF AnswerInv
    <3>2. PICK shown, token : shown = answer[f] /\ token = fetch[f].seq
      OBVIOUS
    <3>3. Witnessed(shown, page, token) /\ token \in 0..seq
      BY <3>1, <3>2
    <3>4. content'[page] = shown /\ cache'[page].token = token
      BY <2>3, <3>2
    <3>5. cache'[page].token <= seq' /\ Witnessed(content[page], page, cache[page].token)'
      BY <2>1, <3>3, <3>4
    <3> QED BY <2>3, <3>5
  <2> QED BY <1>2, <2>2, <2>3, StepPagesFollow DEF PagesFollow
<1> QED BY <1>1, <1>2

-------------------------------------------------------------------------------
(* The inductive invariant, and what follows from it. *)

LEMMA InitPipelineInv == Init => PipelineInv
<1> SUFFICES ASSUME Init PROVE PipelineInv
  OBVIOUS
<1>1. ReplicaInv
  BY InitReplica
<1>2. /\ rows = <<>> /\ db \in Data /\ lost = {} /\ processed = {}
      /\ maxVersion = [t \in Tags |-> 0]
      /\ run = [r \in {consumer} |-> Replica!Idle]
      /\ cache = [page \in CachedPages |-> None]
  BY DEF Init, Replica!Init, Replica!NoVersions
<1>3. RowsInv
  <2>1. DataInv /\ DOMAIN rows = {}
    BY <1>2 DEF DataInv
  <2>2. \A b \in Books : maxVersion[BookTag(b)] = 0 /\ db[b].version \in Nat
    BY <1>2 DEF Tags, Data, Row
  <2>3. \A b \in Books : maxVersion[BookTag(b)] <= db[b].version
    BY <2>2
  <2> QED BY <1>2, <2>1, <2>3 DEF RowsInv
<1>4. HandlerInv
  BY <1>2 DEF HandlerInv, Handler, Replica!Idle
<1>5. PageInv /\ AnswerInv
  BY <1>2 DEF Init, PageInv, AnswerInv
<1> QED BY <1>1, <1>3, <1>4, <1>5 DEF PipelineInv

LEMMA StepPipelineInv == PipelineInv /\ [Next]_vars => PipelineInv'
<1> SUFFICES ASSUME PipelineInv, [Next]_vars PROVE PipelineInv'
  OBVIOUS
<1>1. RowsInv /\ ReplicaInv /\ HandlerInv /\ AnswerInv
  BY DEF PipelineInv
<1>2. ReplicaInv'
  BY <1>1, StepReplica
<1>3. RowsInv' /\ HandlerInv'
  BY <1>1, StepRows, StepHandler
<1>4. AnswerInv' /\ PageInv'
  BY <1>2, StepAnswers, StepPages
<1> QED BY <1>2, <1>3, <1>4 DEF PipelineInv

\* A row that outdates what the cache holds and was applied since it was fetched
\* would have dropped it.
LEMMA PurgedIsGone ==
    ASSUME PipelineInv, NEW page \in CachedPages, cache[page] # None,
           NEW id \in DOMAIN rows, Covers(id, page)
    PROVE  ~Purged(id, cache[page].token)
<1> SUFFICES ASSUME Purged(id, cache[page].token) PROVE FALSE
  OBVIOUS
<1>0. ReplicaInv /\ RowsInv
  BY DEF PipelineInv
<1>1. PICK p \in 1..seq :
        /\ cache[page].token < p /\ p # Handler.cur
        /\ purges[p].target = rows[id].tag
        /\ \/ purges[p].version = 0
           \/ rows[id].version > 0 /\ rows[id].version <= purges[p].version
  BY DEF Purged
<1>2. /\ rows[id].version \in Nat /\ cache[page].version \in Nat
      /\ purges[p].version \in Nat /\ p \in DOMAIN purges
  <2>1. id \in 1..Len(rows)
    BY <1>0 DEF RowsInv, DataInv
  <2>2. purges[p] \in Purging!Purge /\ p \in DOMAIN purges
    BY <1>0, ReplicaTypes
  <2> QED BY <1>0, <2>1, <2>2, RowType, TokensAreOld DEF RowsInv, Purging!Purge
<1>3. Replica!Outdated(p, page)
  <2>1. purges[p].target \in cache[page].tags \cup {page}
    BY <1>1 DEF Covers
  <2>2. \/ purges[p].version = 0
        \/ cache[page].version = 0
        \/ cache[page].version <= purges[p].version
    BY <1>1, <1>2 DEF Covers
  <2> QED BY <1>1, <2>1, <2>2 DEF Replica!Outdated
<1>4. Replica!InProgress(p)
  BY <1>0, <1>2, <1>3, ReplicaHonours DEF EveryPurgeHonoured, Replica!EveryPurgeHonoured
<1> QED BY <1>1, <1>4 DEF Replica!InProgress, Handler

LEMMA PipelineInvStale == PipelineInv => StaleMeansPending
<1> SUFFICES ASSUME PipelineInv, NEW page \in CachedPages, Stale(page)
             PROVE  \/ \E id \in DOMAIN rows : Pending(id) /\ Covers(id, page)
                    \/ \E id \in lost : Covers(id, page)
                    \/ Missing(page)
  BY DEF StaleMeansPending
<1>0. RowsInv /\ DataInv /\ PageInv /\ DOMAIN rows = 1..Len(rows) /\ Len(rows) \in Nat /\ page \in Pages
  BY DEF PipelineInv, RowsInv, DataInv
<1>1. /\ cache[page] # None /\ content[page] # Content(db, page)
      /\ cache[page].tags = TagsOf(content[page], page)
      /\ cache[page].version = Version(content[page], page)
      /\ Witnessed(content[page], page, cache[page].token)
  BY <1>0 DEF Stale, PageInv
<1>2. PICK d \in Data, n \in 0..Len(rows) :
        /\ Told(d, db, RowsSince(n))
        /\ content[page] = Content(d, page)
        /\ \A id \in (n + 1)..Len(rows) : Settled(id, cache[page].token)
  BY <1>1 DEF Witnessed
<1>3. Dropped(d, db, RowsSince(n), page)
  <2>1. db \in Data /\ n \in Nat
    BY <1>0 DEF DataInv
  <2>2. RowsSince(n) \in SUBSET Announcement
    BY <1>0, <2>1, RowsSinceType
  <2> QED BY <1>0, <1>1, <1>2, <2>1, <2>2, ChangedIsDropped
<1>4. CASE page \in SearchPages /\ ~(Shown(db, page) \subseteq Shown(d, page))
  BY <1>2, <1>4 DEF Missing, Content
<1>5. ASSUME NEW row \in RowsSince(n),
             row.tag \in TagsOf(Content(d, page), page),
             \/ row.version = 0
             \/ Version(Content(d, page), page) = 0
             \/ Version(Content(d, page), page) <= row.version
      PROVE  \/ \E id \in DOMAIN rows : Pending(id) /\ Covers(id, page)
             \/ \E id \in lost : Covers(id, page)
  <2>1. PICK id \in (n + 1)..Len(rows) : row = rows[id]
    BY DEF RowsSince
  <2>2. id \in DOMAIN rows /\ Settled(id, cache[page].token)
    BY <1>0, <1>2, <2>1
  <2>3. Covers(id, page)
    BY <1>1, <1>2, <1>5, <2>1 DEF Covers
  <2> QED BY <1>1, <2>2, <2>3, PurgedIsGone DEF Settled
<1> QED BY <1>3, <1>4, <1>5 DEF Dropped

\* Behind one replica's queue an applied invalidation leaves nothing behind that it
\* outdates, whatever the order of the rows and however often they come: what
\* EveryPurgeIsHonoured proves of any one consumer, through restarts.
THEOREM PurgesOfRowsAreHonoured == Spec => []EveryPurgeHonoured
BY InitPipelineInv, StepPipelineInv, ReplicaHonours, PTL DEF Spec, PipelineInv

\* From the update to the cache: a page of the cache that no longer shows what the
\* database holds is about to be dropped by a row that was neither handled nor made
\* superfluous, but for a row that came before the queue and for a search that a
\* book has entered.
THEOREM StaleIsPending == Spec => []StaleMeansPending
BY InitPipelineInv, StepPipelineInv, PipelineInvStale, PTL DEF Spec

\* Every other step leaves the database and the outbox alone.
LEMMA OnlyPut ==
    ASSUME [Next]_vars
    PROVE  \/ UNCHANGED upstream
           \/ \E put \in Puts : Put(put.book, put.patch)
BY DEF Next, Consume, Bind, Begin, Read, Store, GiveUp, Evict, Deliver, Handle, Restart, vars

\* Whatever an update changes on a page, it announces under a tag of the page as
\* it was, but for a search that shows a new book (PUT /books/{id},
\* tagsForResponse).
THEOREM ChangesAreAnnounced == Spec => ChangesAnnounced
<1>1. PipelineInv /\ [Next]_vars =>
        [\A page \in CachedPages : Content(db', page) # Content(db, page) =>
           \/ \E id \in DOMAIN rows' \ DOMAIN rows :
                  rows'[id].tag \in TagsOf(Content(db, page), page)
           \/ page \in SearchPages /\ ~(Shown(db', page) \subseteq Shown(db, page))]_upstream
  <2> SUFFICES ASSUME PipelineInv, [Next]_vars, ~UNCHANGED upstream,
                      NEW page \in CachedPages, Content(db', page) # Content(db, page)
               PROVE  \/ \E id \in DOMAIN rows' \ DOMAIN rows :
                            rows'[id].tag \in TagsOf(Content(db, page), page)
                      \/ page \in SearchPages /\ ~(Shown(db', page) \subseteq Shown(db, page))
    OBVIOUS
  <2>1. PICK put \in Puts : Put(put.book, put.patch)
    BY OnlyPut
  <2>2. PICK n \in Nat : n = Len(rows)
    BY DEF PipelineInv, RowsInv, DataInv
  <2>3. /\ put.book \in Books /\ put.patch \in Patch /\ page \in Pages
        /\ DataInv /\ n \in 0..Len(rows) /\ db \in Data /\ DOMAIN rows = 1..n
    BY <2>2 DEF PipelineInv, RowsInv, DataInv
  <2>4. DataInv' /\ db' \in Data
    BY <2>1, <2>3, PutRows DEF DataInv
  <2> DEFINE said == { rows'[id] : id \in (n + 1)..Len(rows') }
  <2>5. Told(db, db', said)
    <3>1. Told(db, db, RowsSince(n))
      BY DEF Told
    <3> QED BY <2>1, <2>3, <3>1, ToldPut DEF RowsSince
  <2>6. /\ \A id \in (n + 1)..Len(rows') : id \in DOMAIN rows' \ DOMAIN rows
        /\ said \in SUBSET Announcement
    <3>1. rows' \in Seq(Announcement)
      BY <2>4 DEF DataInv
    <3>2. \A id \in (n + 1)..Len(rows') : id \in DOMAIN rows' \ DOMAIN rows
      BY <2>2, <2>3, <3>1
    <3> QED BY <3>1, <3>2
  <2>7. Dropped(db, db', said, page)
    <3> HIDE DEF said
    <3> QED BY <2>3, <2>4, <2>5, <2>6, ChangedIsDropped
  <2> QED BY <2>6, <2>7 DEF Dropped
<1> QED BY <1>1, InitPipelineInv, StepPipelineInv, PTL DEF Spec, ChangesAnnounced
===============================================================================
