-------------------------------- MODULE Library --------------------------------
(***************************************************************************)
(* The demo upstream (cmd/upstream/main.go) as the proxy sees it: what each *)
(* page shows, the tags it is cached under - its own Surrogate-Key or       *)
(* X-Cache-Depends-On and those of its route (routes.go,                    *)
(* routes.example.yaml) - and what an update of a book changes and          *)
(* announces.                                                               *)
(*                                                                          *)
(* A title is the set of search words that occur in it.  Of a page only     *)
(* what an update can change is kept: the rows of the books it shows.  The  *)
(* loans of a reader are private and never cached.                          *)
(***************************************************************************)
EXTENDS Integers, FiniteSets

CONSTANTS Books,            \* ids of the books
          Genres,           \* ids of the genres
          Authors,          \* ids of the authors
          AuthorsOf,        \* the authors of a book
          Words,            \* words one may search for
          PageSize,         \* books on a page
          MaxPage,          \* the greatest page number accepted
          MaxResponseTags   \* tags kept of a response

\* A page of books never has more tags than are kept: its list tag, its genre
\* tag and one for each book (20 books and 64 tags in the code).
ASSUME LibraryAssumption ==
    /\ Books \subseteq Nat \ {0} /\ IsFiniteSet(Books)
    /\ Genres \subseteq Nat \ {0} /\ IsFiniteSet(Genres)
    /\ Authors \subseteq Nat \ {0} /\ IsFiniteSet(Authors)
    /\ AuthorsOf \in [Books -> SUBSET Authors]
    /\ PageSize \in Nat \ {0}
    /\ MaxPage \in Nat
    /\ MaxResponseTags \in Nat
    /\ PageSize + 2 <= MaxResponseTags

\* A book without a genre has genre 0, which is the id of none.
NoGenre == 0
Row     == [genre : Genres \cup {NoGenre}, title : SUBSET Words, version : Nat]
Data    == [Books -> Row]

-------------------------------------------------------------------------------
(* Pages. *)

Card(b)      == <<"card", b>>
AuthorsPage(b) == <<"authors", b>>
List(g, n)   == <<"list", g, n>>      \* page n of the books of genre g, or of all for 0
Search(w)    == <<"search", w>>
GenrePage(g) == <<"genre", g>>
GenresPage   == <<"genres">>

ListPages   == { List(g, n) : g \in Genres \cup {0}, n \in 1..MaxPage }
SearchPages == { Search(w) : w \in Words }
Pages ==
    { Card(b) : b \in Books } \cup { AuthorsPage(b) : b \in Books } \cup ListPages
      \cup SearchPages \cup { GenrePage(g) : g \in Genres } \cup { GenresPage }

InGenre(db, g) == { b \in Books : g = 0 \/ db[b].genre = g }
Titled(db, w)  == { b \in Books : w \in db[b].title }

\* ORDER BY book_id LIMIT pageSize OFFSET (n - 1) * pageSize.
Rank(S, b)  == Cardinality({ x \in S : x <= b })
Slice(S, n) == { b \in S : (n - 1) * PageSize < Rank(S, b) /\ Rank(S, b) <= n * PageSize }

\* The books a page shows.
Shown(db, page) ==
    CASE page[1] = "card"   -> { page[2] }
      [] page[1] = "list"   -> Slice(InGenre(db, page[2]), page[3])
      [] page[1] = "search" -> Slice(Titled(db, page[2]), 1)
      [] OTHER              -> {}

Content(db, page) == [b \in Shown(db, page) |-> db[b]]

\* X-Upstream-Book-Version is sent with a card only.
Version(content, page) == IF page[1] = "card" THEN content[page[2]].version ELSE 0

-------------------------------------------------------------------------------
(* Tags. *)

BookTag(b)   == <<"book:", b>>
GenreTag(g)  == <<"genre:", g>>
AuthorTag(a) == <<"author:", a>>
ListBooks    == <<"list:books">>
ListGenres   == <<"list:genres">>

Tags ==
    { BookTag(b) : b \in Books } \cup { GenreTag(g) : g \in Genres }
      \cup { AuthorTag(a) : a \in Authors } \cup { ListBooks, ListGenres }

\* The route table, which the first matching route decides; no route matches
\* a search.
RouteTags(page) ==
    CASE page[1] \in {"card", "authors"} -> { BookTag(page[2]) }
      [] page[1] = "list"                -> { ListBooks }
      [] page[1] = "genre"               -> { GenreTag(page[2]) }
      [] page[1] = "genres"              -> { ListGenres }
      [] OTHER                           -> {}

\* The upstream's tags that come ahead of one for each entry on the page.
LeadingTags(content, page) ==
    CASE page[1] = "card"   -> { BookTag(page[2]) } \cup
                               { GenreTag(g) : g \in { content[page[2]].genre } \cap Genres }
      [] page[1] = "list"   -> { ListBooks } \cup { GenreTag(g) : g \in { page[2] } \cap Genres }
      [] page[1] = "search" -> { ListBooks }
      [] OTHER              -> RouteTags(page)

\* Of the ids listed after some leading tags, in order, those that fit.
Fitting(leading, ids) ==
    { i \in ids : Cardinality(leading) + Rank(ids, i) <= MaxResponseTags }

\* Mutation of TagsOf: a page of books is tagged as a list only.
TagsOfListOnly(content, page) == RouteTags(page) \cup LeadingTags(content, page)

\* What a response with this content is cached under (tagsForResponse).
TagsOf(content, page) ==
    LET leading == RouteTags(page) \cup LeadingTags(content, page)
        books   == IF page[1] \in {"list", "search"} THEN DOMAIN content ELSE {}
        authors == IF page[1] = "authors" THEN AuthorsOf[page[2]]
                   ELSE {}
        genres  == IF page[1] = "genres" THEN Genres ELSE {}
    IN  leading \cup { BookTag(b)   : b \in Fitting(leading, books) }
                \cup { AuthorTag(a) : a \in Fitting(leading, authors) }
                \cup { GenreTag(g)  : g \in Fitting(leading, genres) }

-------------------------------------------------------------------------------
(* PUT /books/{id}. *)

\* A field of a patch is left out, {}, or given, { x }.  Left out it keeps its
\* value (COALESCE).  The genre has to exist and cannot be taken away; the other
\* columns only show in the version.
Optional(S) == {{}} \cup { {x} : x \in S }
Patch       == [genre : Optional(Genres), title : Optional(SUBSET Words)]

Coalesce(field, old) == IF field = {} THEN old ELSE CHOOSE x \in field : TRUE

Patched(row, patch) ==
    [genre   |-> Coalesce(patch.genre, row.genre),
     title   |-> Coalesce(patch.title, row.title),
     version |-> row.version + 1]

Updated(db, b, patch) == [db EXCEPT ![b] = Patched(@, patch)]

\* Mutation of Announcements: a change of genre is announced like any other.
AnnouncementsOfBook(db, b, patch) ==
    << [tag |-> BookTag(b), version |-> Patched(db[b], patch).version] >>

\* The rows the update adds to the outbox: the book with its new version and,
\* when it changes its genre, all lists, without one.
Announcements(db, b, patch) ==
    LET new == Patched(db[b], patch)
    IN  IF new.genre = db[b].genre
        THEN << [tag |-> BookTag(b), version |-> new.version] >>
        ELSE << [tag |-> BookTag(b), version |-> new.version],
                [tag |-> ListBooks, version |-> 0] >>
===============================================================================
