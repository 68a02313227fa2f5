--------------------------- MODULE FileToolsProps ---------------------------
(***************************************************************************)
(* What turns may rely on when they edit files.                            *)
(***************************************************************************)
EXTENDS FileTools

CONSTANTS Atoms,                          \* what texts are made of
          Texts, Ranges, Hunks, Strings  \* what the edits are tried on

\* Line numbers count from one; an insertion before the first line ends at line 0.
ASSUME EditsAssumption ==
  /\ Texts \subseteq Seq(Atoms)
  /\ Ranges \subseteq Seq([first : Nat \ {0}, last : Nat, new : Seq(Atoms)])
  /\ Hunks \subseteq [before : Seq(Seq(Atoms)), after : Seq(Seq(Atoms))]
  /\ Strings \subseteq Seq(Atoms)

Writing(t) == call[t].pc \in {"writing", "verifying"}

\* What a call is about to replace is what it planned from: between its reading of
\* a file and its writing no other turn has written, though turns run in threads
\* of one process and their calls overlap.  Only another program may.
NoTurnOverwritten ==
  \A t \in Turns : Writing(t) =>
    \A i \in (call[t].done + 1)..Len(call[t].planned) :
      LET item == call[t].planned[i]
      IN files[item.path].text = item.before \/ files[item.path].by = Nobody

\* A view the ledger would answer for shows the file as it is, unless somebody
\* else wrote the file last: what a turn writes itself, even when the call failed
\* half way, is never answered with what it has seen before, however little time
\* passed and however alike the sizes are.
OwnWritesAreSeen ==
  \A t \in Turns : call[t] = NoCall =>
    \A e \in ledger[t], p \in Paths :
      LET file == files[p]
      IN e.key = Key([path |-> p, offset |-> e.key[2], limit |-> e.key[3]], file) =>
           e.text = file.text \/ file.by # t

\* A patch of several files that cannot be applied as a whole is not applied in
\* part: a call that has written ends badly only when a write failed or another
\* program interfered.
AllOrNothing ==
  [][\A t \in Turns :
       (call[t].pc = "writing" /\ call[t].done > 0 /\ call'[t] = NoCall) => mishaps' > mishaps]_fileVars

\* Every call ends: calls that take several locks do not wait for each other in a
\* circle.
CallEnds == \A t \in Turns : (call[t] # NoCall) ~> (call[t] = NoCall)

-----------------------------------------------------------------------------
(* Edits, as one would define them at once.                                 *)

\* Line i as a set of edits leaves it: what was inserted before it, then the line,
\* or what replaces it.
Inserted(edits, i) == {e \in edits : e.first = i /\ e.last = i - 1}
Covering(edits, i) == {e \in edits : e.first <= i /\ i <= e.last}
NewOf(edits) == IF edits = {} THEN <<>> ELSE (CHOOSE e \in edits : TRUE).new
Piece(lines, edits, i) ==
  NewOf(Inserted(edits, i)) \o
  IF Covering(edits, i) # {} THEN NewOf({e \in Covering(edits, i) : e.first = i})
  ELSE IF i <= Len(lines) THEN lines[i] ELSE <<>>

Rebuilt(lines, edits) ==
  FlattenSeq([i \in 1..(Len(lines) + 1) |-> Piece(lines, ToSet(edits), i)])

RangesRebuild ==
  \A x \in Texts, edits \in Ranges :
    \A y \in AfterRanges(x, edits) : y = Rebuilt(Lines(x), edits)

\* Two hunks whose places in the file are plain and apart give the file with both
\* replaced, whatever their order is and whatever the one brings in.
HunksAtOnce ==
  \A x \in Texts, h \in Hunks, k \in Hunks :
    LET lines == Lines(x)
        At(hunk) == CHOOSE i \in Occurrences(lines, hunk.before) : TRUE
        Plain(hunk) == Cardinality(Occurrences(lines, hunk.before)) = 1
        Edit(hunk) == [first |-> At(hunk), last |-> At(hunk) + Len(hunk.before) - 1,
                       new |-> Joined(hunk.after)]
    IN (/\ h.before # <<>> /\ k.before # <<>>
        /\ Plain(h) /\ Plain(k) /\ Edit(h).last < Edit(k).first) =>
         \A y \in AfterHunks(x, <<h, k>>) \cup AfterHunks(x, <<k, h>>) :
           y = Rebuilt(lines, <<Edit(h), Edit(k)>>)

\* A string that is replaced once was there, and all around it stays.
ReplacedInPlace ==
  \A x \in Texts, old \in Strings, new \in Strings :
    \A y \in AfterReplace(x, old, new, FALSE) :
      \E i \in Occurrences(x, old) :
        y = SubSeq(x, 1, i - 1) \o new \o SubSeq(x, i + Len(old), Len(x))

\* Whoever follows the pages of a view sees each line once, in order.
PagesAreWhole ==
  \A x \in Texts, limit \in 1..3 :
    LET from[o \in 1..(Len(x) + 1)] ==
          LET page == View(x, o, limit)
          IN page.items \o IF page.next = 0 THEN <<>> ELSE from[page.next]
    IN from[1] = Lines(x)

EditsAreExact == RangesRebuild /\ HunksAtOnce /\ ReplacedInPlace /\ PagesAreWhole

\* When files are written: the line numbers a turn has seen, the context of its
\* hunks and the string it names stand for the text at that place and no other,
\* though the edits of a call shift each other's places.
EditsWhatWasMeant == (\E t \in Turns : Writing(t)) => EditsAreExact
=============================================================================
