----------------------------- MODULE FileEdits -----------------------------
(***************************************************************************)
(* What the file tools make of texts: pages of lines, edits of line        *)
(* ranges, replaced strings and the hunks of a patch.                      *)
(*                                                                         *)
(* A text is a sequence of atoms, one of which ends a line.  Its last line *)
(* may lack that end: lines are joined as they are, so that such a line    *)
(* runs into what follows it.                                              *)
(***************************************************************************)
EXTENDS SequencesExt, Integers

CONSTANT NL  \* what ends a line

\* str.splitlines(keepends=True), "".join()
Lines(text) ==
  LET upto[i \in 0..Len(text)] ==  \* the lines of the first i atoms
        CASE i = 0                      -> <<>>
          [] i > 1 /\ text[i - 1] # NL -> LET lines == upto[i - 1]
                                          IN [lines EXCEPT ![Len(lines)] = Append(@, text[i])]
          [] OTHER                      -> Append(upto[i - 1], <<text[i]>>)
  IN upto[Len(text)]
Joined(lines) == FlattenSeq(lines)

\* An edit returns the set of what a text becomes: {} when it is refused.
Refused == {}

\* s with the elements from first to last replaced
Spliced(s, first, last, new) == SubSeq(s, 1, first - 1) \o new \o SubSeq(s, last + 1, Len(s))

\* Where part occurs in s.
Occurrences(s, part) ==
  {i \in 1..(Len(s) - Len(part) + 1) : SubSeq(s, i, i + Len(part) - 1) = part}

-----------------------------------------------------------------------------
(* Pages: of lines, of files found and of matches.                          *)

\* next: the offset of the next page, 0 for none
Page(s, offset, limit) ==
  LET items == SubSeq(s, offset + 1, Min({offset + limit, Len(s)}))
  IN [items |-> items,
      next  |-> IF offset + Len(items) < Len(s) THEN offset + Len(items) ELSE 0]

\* file_read: a page of the lines, which it counts from one
View(text, offset, limit) ==
  LET page == Page(Lines(text), offset - 1, limit)
  IN [page EXCEPT !.next = IF @ = 0 THEN 0 ELSE @ + 1]

-----------------------------------------------------------------------------
(* Mode "range": edits [first, last, new], in the order of the file.        *)

\* parse_range_edits(): an insertion ends before it starts.
InRange(edit, count) ==
  /\ edit.last >= edit.first - 1
  /\ IF edit.first = edit.last + 1 THEN edit.first <= count + 1 ELSE edit.last <= count

RangesValid(edits, count) ==
  /\ edits # <<>>
  /\ \A i \in DOMAIN edits : InRange(edits[i], count)
  /\ \A i \in 2..Len(edits) :
       /\ edits[i].first > edits[i - 1].first
       /\ edits[i].first > edits[i - 1].last

\* apply_range_edits(): from the last to the first, so that the numbers hold.
RangesApplied(edits, lines) ==
  LET from[j \in 1..(Len(edits) + 1)] ==  \* the lines after the edits from j on
        IF j = Len(edits) + 1 THEN lines
        ELSE Spliced(from[j + 1], edits[j].first, edits[j].last, Lines(edits[j].new))
  IN from[1]

AfterRanges(text, edits) ==
  IF RangesValid(edits, Len(Lines(text)))
  THEN {Joined(RangesApplied(edits, Lines(text)))}
  ELSE Refused

-----------------------------------------------------------------------------
(* Mode "replace".                                                          *)

\* str.replace(): from the left, past each match.  Defined from the right end,
\* where rest[i] is what becomes of the text from i on.
Replaced(text, old, new) ==
  LET rest[i \in 1..(Len(text) + 1)] ==
        CASE i = Len(text) + 1          -> <<>>
          [] i \in Occurrences(text, old) -> new \o rest[i + Len(old)]
          [] OTHER                      -> <<text[i]>> \o rest[i + 1]
  IN rest[1]

\* str.count(): matches that do not overlap
Count(text, old) ==
  LET count[i \in 1..(Len(text) + 1)] ==
        CASE i = Len(text) + 1          -> 0
          [] i \in Occurrences(text, old) -> 1 + count[i + Len(old)]
          [] OTHER                      -> count[i + 1]
  IN count[1]

\* apply_replace()
AfterReplace(text, old, new, all) ==
  IF old # <<>> /\ (Count(text, old) = 1 \/ (all /\ Count(text, old) > 1))
  THEN {Replaced(text, old, new)}
  ELSE Refused

-----------------------------------------------------------------------------
(* Mode "patch_text": hunks [before, after] of whole lines.                 *)

\* Mutation: the first place is taken when there are several.
UniqueOrFirst(lines, part) ==
  {i \in Occurrences(lines, part) : \A k \in Occurrences(lines, part) : i <= k}

\* _unique_subsequence_index(): where part is, if at one place only
UniqueIndex(lines, part) ==
  {i \in Occurrences(lines, part) : \A k \in Occurrences(lines, part) : k = i}

HunkApplied(lines, hunk) ==
  {Spliced(lines, at, at + Len(hunk.before) - 1, hunk.after) :
     at \in IF hunk.before = <<>> THEN {} ELSE UniqueIndex(lines, hunk.before)}

\* _apply_update_body(): each hunk is looked for in what the ones before it left.
AfterHunks(text, hunks) ==
  LET found[j \in 0..Len(hunks)] ==  \* what the first j hunks leave
        IF j = 0 THEN {Lines(text)}
        ELSE UNION {HunkApplied(lines, hunks[j]) : lines \in found[j - 1]}
  IN IF hunks = <<>> THEN Refused ELSE {Joined(lines) : lines \in found[Len(hunks)]}
=============================================================================
