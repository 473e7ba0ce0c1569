---------------------------- MODULE MCStreaming ----------------------------
(***************************************************************************)
(* Instances of Streaming for TLC.                                         *)
(***************************************************************************)
EXTENDS Streaming

\* A NULL, an ordinary value, and the text that stands for NULL in a path.
Values == {"NULL", "x", "HIVE"}

Row(i, n, s) == [id |-> i, n |-> n, s |-> s]

\* One input, an input without rows, two inputs.
Contents ==
    { << {Row("r1", Null, "a"), Row("r2", 1, "a"), Row("r3", 2, "b")} >>,
      << {} >>,
      << {Row("r1", Null, "a"), Row("r2", 1, "a")}, {Row("r3", 2, "b")} >> }

Rewrite(e) == [is |-> "rewrite", filter |-> e, metadata |-> FALSE]

\* Filters, from atoms up: the nodes of the second argument move behind those of the first.
Atom(is, n) == << [is |-> is, value |-> n] >>
In(values) == << [is |-> "in", values |-> values] >>
IsNull == << [is |-> "null"] >>
Not(e) == Append(e, [is |-> "not", arg |-> Len(e)])
Behind(node, k) ==
    CASE node.is = "not" -> [node EXCEPT !.arg = @ + k]
      [] node.is \in {"and", "or"} -> [node EXCEPT !.left = @ + k, !.right = @ + k]
      [] OTHER -> node
Both(is, e, f) ==
    LET nodes == e \o [i \in DOMAIN f |-> Behind(f[i], Len(e))]
    IN  Append(nodes, [is |-> is, left |-> Len(e), right |-> Len(nodes)])

\* The last two filters decide a row without a value by one side only.
Operations ==
    { Rewrite(NoFilter),
      Rewrite(Atom("eq", 1)),
      Rewrite(Atom("ne", 1)),
      Rewrite(Not(Atom("lt", 2))),
      Rewrite(Both("or", Both("and", In({1, 2}), Atom("le", 1)), Both("and", Atom("gt", 1), Atom("ge", 2)))),
      Rewrite(Both("and", Not(Both("or", Atom("eq", 1), IsNull)), Not(Not(In({1, 2}))))),
      Rewrite(Both("and", Not(Atom("eq", 1)), << [is |-> "not null"] >>)),
      Rewrite(Both("or", Atom("eq", 2), IsNull)),
      [Rewrite(NoFilter) EXCEPT !.metadata = TRUE],
      [is |-> "partition"], [is |-> "merge"], [is |-> "split"] }
=============================================================================
