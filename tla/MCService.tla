----------------------------- MODULE MCService ------------------------------
(***************************************************************************)
(* Instances of Service for TLC.                                           *)
(***************************************************************************)
EXTENDS Service, TLC

\* Nothing tells the clients of the token routes apart.
ClientSymmetry == Permutations(Clients)

Dir(n) == [name |-> n, key |-> None]
Part(k, v) == [name |-> v, key |-> k]

SevenFiles == 1 .. 7

File(dirs, name, format, part) ==
    [dirs |-> dirs, name |-> name, format |-> format, part |-> part, utf8 |-> name # Dir("\\xff")]

\* A root with a Parquet file, a directory called "default", a Hive partition, a
\* part file, text files, one of them named key=value, an unknown format and a
\* name that is not UTF-8.
Paths ==
    << File(<<>>, Dir("a"), "parquet", FALSE),
       File(<<Dir("default")>>, Dir("b"), "parquet", TRUE),
       File(<<Part("dt", "1")>>, Dir("part-c"), "parquet", TRUE),
       File(<<Dir("text")>>, Part("k", "v"), "csv", FALSE),
       File(<<Dir("text")>>, Dir("w"), "json", FALSE),
       File(<<Dir("text")>>, Dir("z"), "unknown", FALSE),
       File(<<Dir("text")>>, Dir("\\xff"), "csv", FALSE) >>

Holds(valid, head, schema) ==
    [valid |-> valid, head |-> head, schema |-> schema, small |-> head = "blank", sliced |-> head = "long",
     visible |-> TRUE]

\* A file that the walk cannot stat.
Hidden == [Holds(TRUE, "whole", "s1") EXCEPT !.visible = FALSE]

Pieces == {Holds(TRUE, "whole", "s1"), Holds(TRUE, "blank", "s2"), Holds(TRUE, "long", "s1"),
           Holds(FALSE, "padded", "s1"), Hidden}

\* Three files: Parquet in the root, beside "default" or a Hive directory, Parquet
\* with text, text with an unknown format, a name that is not UTF-8.  The last
\* one has another schema or is out of sight or not; an edit brings a fourth,
\* takes one away, hides or damages one.
Beside == {{1, 2, 3}, {1, 2, 4}, {3, 5, 6}, {2, 5, 6}, {1, 4, 7}}

SmallTrees ==
    {[f \in SevenFiles |-> IF f \notin on THEN None
                           ELSE IF \A g \in on : g <= f THEN last ELSE Holds(TRUE, "whole", "s1")]
        : on \in Beside,
          last \in {Holds(TRUE, "whole", "s1"), Holds(TRUE, "blank", "s2"), Hidden}}
=============================================================================
