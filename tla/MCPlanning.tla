----------------------------- MODULE MCPlanning -----------------------------
(***************************************************************************)
(* Instances of Planning for TLC.                                          *)
(***************************************************************************)
EXTENDS Planning

\* Files: small, empty, large, badly cut into row groups, of another codec or schema.
Col(n, t, null) == [name |-> n, type |-> t, null |-> null]
TwoColumns == <<Col("x", "INT64", FALSE), Col("y", "STRING", TRUE)>>
Footer(mb, rows, groups, rgmb, minrows) ==
    [mb |-> mb, rows |-> rows, groups |-> groups, rgmb |-> rgmb, minrows |-> minrows,
     codecs |-> {"ZSTD"}, stats |-> TRUE, visible |-> TRUE, readable |-> TRUE, cols |-> TwoColumns]
Tiny == Footer(1, 100, 1, 1, 100)
Empty == Footer(1, 0, 0, 0, 0)
Good == Footer(64, 100000, 1, 64, 100000)
Huge == Footer(2048, 9000000, 16, 128, 500000)
Coarse == Footer(600, 2000, 2, 300, 1000)
Sliced == Footer(64, 1000, 5, 13, 40)
Broken == [Tiny EXCEPT !.readable = FALSE]
Hidden == [Good EXCEPT !.visible = FALSE]
Snappy == [Good EXCEPT !.codecs = {"SNAPPY"}]
Bare == [Good EXCEPT !.stats = FALSE]
X(f, t, null) == [f EXCEPT !.cols = <<Col("x", t, null), Col("y", "STRING", TRUE)>>]
Turned == [Tiny EXCEPT !.cols = <<TwoColumns[2], TwoColumns[1]>>]
Tinies(f4) == (10 :> Tiny) @@ (20 :> Tiny) @@ (30 :> Tiny) @@ (40 :> f4)
MCNames == {10, 20, 90}
MCDatasets ==
    { Tinies(Tiny), Tinies(Tiny) @@ (90 :> Good), Tinies(Tiny) @@ (90 :> Tiny), Tinies(Turned), Tinies(X(Tiny, "DATE", FALSE)),
      Tinies(Empty) @@ (50 :> Tiny),
      (10 :> X(Good, "INT32", FALSE)) @@ (20 :> X(Good, "INT64", FALSE)),
      (10 :> X(Good, "INT32", FALSE)) @@ (20 :> X(Good, "INT64", FALSE)) @@ (30 :> X(Good, "STRING", TRUE)),
      (10 :> X(Good, "INT64", FALSE)) @@ (20 :> X(Good, "INT32", TRUE)),
      (10 :> X(Good, "INT64", FALSE)) @@ (20 :> X(Good, "INT64", TRUE)),
      (10 :> X(Good, "INT32", FALSE)) @@ (20 :> X(Good, "DOUBLE", FALSE)),
      (10 :> Huge) @@ (20 :> Snappy) @@ (30 :> Bare), (90 :> Huge) @@ (20 :> Good),
      (9 :> Good) @@ (10 :> Snappy), (7 :> Tiny) @@ (10 :> X(Good, "INT32", FALSE)) @@ (20 :> Good),
      Tinies(Tiny) @@ (200 :> Good), (10 :> Huge) @@ (221 :> Huge),
      (10 :> Snappy) @@ (20 :> Hidden) @@ (30 :> Good),
      [n \in {10, 20, 30, 40, 50, 60} |-> IF n = 60 THEN Bare ELSE Good],
      (10 :> Sliced) @@ (20 :> Good), (10 :> Sliced) @@ (20 :> Sliced),
      (10 :> Coarse), (10 :> Good) @@ (20 :> Broken), <<>> }
\* A large file already has the name of a merged part.
MCTakenName == {Tinies(Tiny) @@ (90 :> Good)}
MCFooters == {Good, X(Tiny, "INT32", FALSE), Broken}
Pol(w, nw, r) == [maxMb |-> 1024, widen |-> w, nullwiden |-> nw, rename |-> r]
MCPolicies == {Pol(TRUE, TRUE, {}), Pol(TRUE, FALSE, {<<"x", "z">>}), Pol(FALSE, TRUE, {<<"y", "x">>})}
-----------------------------------------------------------------------------
\* Locations of a batch; the configuration is in /conf or, relative, in conf or localhost.
Abs(segs) == [kind |-> "path", root |-> "/", segs |-> segs]
Rel(segs) == [kind |-> "path", root |-> ".", segs |-> segs]
Uri(segs) == [kind |-> "file", root |-> "/", segs |-> segs]
S3(segs) == [kind |-> "s3", root |-> "bkt", segs |-> segs]

Data(id, path, output, files) == [id |-> id, path |-> path, output |-> output, files |-> files]
Config(base, root, jobs, datasets) == [base |-> base, root |-> root, jobs |-> jobs, datasets |-> datasets]

\* "a#1" is cut off at "#", "%61" is decoded to "a"; /link leads to /conf/a.
MCUriReads ==
    [k \in {"local", "s3"} \X {"a#1"} |-> [segs |-> <<"a">>, ends |-> TRUE]]
        @@ (<<"local", "%61">> :> [segs |-> <<"a">>, ends |-> FALSE])
MCNoHosts == {"%61"}
MCLinks == <<"link">> :> <<"conf", "a">>
MCExisting == {<<"conf", "a">>, <<"conf", "b">>, <<"a">>, <<"out", "a">>, <<"conf", "a#1">>, <<"conf", "%61">>, <<"f">>}
MCPlainFiles == {<<"f">>}
MCStored == {S3(<<"data">>)}
MCWorkingDir == <<>>
MCTextPrefixes == {<<"data", "data2">>}
MCPlanEdits == {Rel(<<"conf", "a", "x">>), Uri(<<"conf", "a", "x">>), S3(<<"data2">>)}

Paths == {Rel(<<"a">>), Rel(<<"..", "a">>), Rel(<<"a#1">>), Rel(<<"%61">>), Abs(<<"link">>),
          Abs(<<"conf", "b">>), Rel(<<"gone">>), S3(<<"data">>), S3(<<"none">>)}
Outputs == {None, Rel(<<"b">>), Rel(<<"..", "out">>), Rel(<<"..", "conf", "a">>), Rel(<<"x", "..", "b">>),
            Abs(<<"out">>), Abs(<<"link", "x">>), Abs(<<"out", "a#1", "x">>), S3(<<"data2">>)}
Pair(base, root, p, o) ==
    Config(base, root, 1, <<Data("a", p, o, "read"), Data("b", Abs(<<"conf", "b">>), None, "read")>>)

\* Every source with every output, then other roots, bases and names.
MCConfigs ==
    {Pair(Abs(<<"conf">>), Rel(<<"out">>), p, o) : p \in Paths, o \in Outputs}
    \cup {Pair(base, root, p, None) :
            base \in {Abs(<<"conf">>), Rel(<<"conf">>)}, root \in {Abs(<<"f">>), S3(<<"out">>), None}, p \in Paths}
    \cup {Pair(Rel(<<"conf">>), Rel(<<"out">>), Rel(<<"a">>), o) : o \in Outputs}
    \cup {Config(base, Rel(<<"out">>), jobs, <<Data("a", Abs(<<"conf", "a">>), None, "read"),
                                              Data(id, Abs(<<"conf", "b">>), None, files)>>) :
            base \in {Abs(<<"conf">>), Rel(<<"localhost">>), Rel(<<"%61">>)}, jobs \in {0, 2},
            id \in {"a", "b", "a#1", ".."}, files \in {"read", "missing"}}
-----------------------------------------------------------------------------
\* Parquet files of one column, of any types, pairs that lack a column; CSV files whose
\* batches are not what the sample said, alone or with a Parquet file.
Parquet(columns) == [csv |-> FALSE, columns |-> columns]
Csv(sample, batches) == [csv |-> TRUE, sample |-> sample, batches |-> batches]
One(x) == [x |-> x]
Two(x, y) == [x |-> x, y |-> y]
Sampled(s, later) == Csv(One(s), {One(s), One(later)})
SomeValues == {v \in SUBSET Values : Cardinality(v) <= 2}
MCInputs ==
    {<<Parquet(One(k1)), Parquet(One(k2)), Parquet(One(k3))>> : k1, k2, k3 \in Types}
    \cup {<<Parquet(Two(k1, k2)), Parquet(One(k3))>> : k1, k3 \in Types, k2 \in {"Null", "I64", "Utf8"}}
    \cup {<<Sampled(s, later), Parquet(One(k))>> : s, later \in SomeValues, k \in {"I64", "F64", "Utf8"}}
    \cup {<<Csv(Two(s, s), {Two(s, later), One(s)}), Csv(One(s), {})>> : s, later \in SomeValues}
=============================================================================
