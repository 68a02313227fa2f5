---------------------------- MODULE MCFileTools ----------------------------
(***************************************************************************)
(* Instances of FileTools for TLC.                                         *)
(***************************************************************************)
EXTENDS FileToolsProps

\* Two turns with two files.
f == "f"
g == "g"
TwoPaths == <<f, g>>

Old == <<"a", "nl">>
New == <<"b", "nl">>
Long == <<"a", "nl", "b", "nl">>
FirstText == {Old}
OtherText == {New}
OneView == {[offset |-> 1, limit |-> 1]}

Op(mode, path) ==
  [mode |-> mode, path |-> path, creates |-> FALSE, overwrite |-> TRUE, all |-> FALSE,
   new |-> New, old |-> <<"a">>,
   edits |-> <<[first |-> 1, last |-> 1, new |-> New]>>,
   hunks |-> <<[before |-> <<Old>>, after |-> <<New>>]>>]
Growing(path) == [Op("update", path) EXCEPT !.hunks = <<[before |-> <<Old>>, after |-> <<Old, New>>]>>]

\* A patch of both files, one in the other order that makes its second file too
\* large, one that adds a file, and edits of one file by hash.
SomeRequests ==
  {<<Op("update", g), Op("update", f)>>, <<Op("update", f), Growing(g)>>,
   <<[Op("add", g) EXCEPT !.creates = TRUE]>>,
   <<Op("range", f)>>, <<Op("replace", f)>>, <<[Op("write", f) EXCEPT !.creates = TRUE]>>}

SmallAtoms == {"a", "b", "nl"}
SmallTexts == UNION {[1..n -> SmallAtoms] : n \in 0..4}
Edit(first, last, new) == [first |-> first, last |-> last, new |-> new]
OneEdit == {Edit(i, j, x) : i \in 1..3, j \in 0..3, x \in {<<>>, New, <<"b">>, Long}}
SomeRanges == {<<e>> : e \in OneEdit} \cup {<<d, e>> : d \in OneEdit, e \in OneEdit}
SomeHunks ==
  {[before |-> b, after |-> x] : b \in {<<>>, <<Old>>, <<New>>, <<Old, New>>},
                                 x \in {<<>>, <<Old>>, <<New>>, <<Old, Old>>, <<New, Old>>}}
SomeStrings == UNION {[1..n -> {"a", "b"}] : n \in 0..2} \cup {<<"nl">>, <<"a", "nl">>}
=============================================================================
