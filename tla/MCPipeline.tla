------------------------------ MODULE MCPipeline ------------------------------
(* A small library behind one replica. *)
EXTENDS Pipeline, TLC

CONSTANT w

MCAuthorsOf == [b \in Books |-> {}]

\* Pages of one book each, so that a book that comes pushes another one out.
MCPages == { Card(1), List(1, 1), Search(w) }

MCDemands == { {page} : page \in MCPages }

Update(b, genre, title) == [book |-> b, patch |-> [genre |-> genre, title |-> title]]

\* Book 1 may come into the genre of book 2, and into its search and out again.
MCPuts == { Update(1, {1}, {}), Update(1, {}, {{w}}), Update(1, {}, {{}}) }

MCFirstData ==
    1 :> [genre |-> NoGenre, title |-> {}, version |-> 1] @@
    2 :> [genre |-> 1, title |-> {w}, version |-> 1]
===============================================================================
