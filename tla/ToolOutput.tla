----------------------------- MODULE ToolOutput -----------------------------
(***************************************************************************)
(* What becomes of a tool's output on its way to the model: it is wrapped  *)
(* or replaced when its call repeats an earlier one, bounded when it is    *)
(* stored, and its strings are shortened when the context gets full.       *)
(*                                                                         *)
(* Sizes stand for texts.  A structure is known by its parts: code,        *)
(* message, details and so on, each with its size when serialized.  What   *)
(* is stored is either the JSON of a structure or plain text, and its      *)
(* message says which of the two it is.                                    *)
(***************************************************************************)
EXTENDS Naturals, Sequences, FiniteSetsExt

CONSTANTS
  MarkerSize(_),  \* the length of TRUNCATION_MARKER_TEMPLATE, by the characters omitted
  NoteSize,       \* "[structured tool output omitted: ...]", also of a detail
  FactsSize,      \* _structured_truncation_payload()
  ReplayMarker    \* TOOL_TRUNCATION_MARKER

\* form: "text", "list" or "mapping"; parts: their sizes, by name
Output(form, parts) == [form |-> form, parts |-> parts]

IsError(o) == o.form = "mapping" /\ "code" \in DOMAIN o.parts

SizeOf(parts) == MapThenSumSet(LAMBDA p : parts[p], DOMAIN parts)

-----------------------------------------------------------------------------
(* Repeated calls.                                                          *)

\* canonical arguments: the calls of a turn that count as one
SameCall(c, d) == c.name = d.name /\ c.arguments = d.arguments

\* _record_repeated_call(): how often the last of the calls was made.
RepeatCount(calls) ==
  Cardinality({i \in DOMAIN calls : SameCall(calls[i], calls[Len(calls)])})

\* _result_with_repeated_call_warning(): the output becomes a part.
Warned(o) == Output("mapping", [warning |-> NoteSize, result |-> SizeOf(o.parts)])

\* _repeated_call_blocked_result()
Blocked == Output("mapping", [code |-> 1, message |-> NoteSize, details |-> NoteSize])

\* execute(): what a call results in.  An error that was raised is not warned of.
Result(o, raised, repeats) ==
  CASE repeats > 3            -> Blocked
    [] repeats = 3 /\ ~raised -> Warned(o)
    [] OTHER                  -> o

-----------------------------------------------------------------------------
(* Bounding.                                                                *)

View(json, parts) == [json |-> json, parts |-> parts]

\* _bounded_truncated_content(): as much of the text as leaves room for the marker
\* that tells what is missing, or what fits when there is no room for it.
Preview(size, limit) ==
  LET Marked(k) == MarkerSize(size - k) + IF k = 0 THEN 0 ELSE 1
      fits == {k \in 0..Min({size, limit}) : k + Marked(k) <= limit}
  IN View(FALSE, IF fits = {} THEN [text |-> limit]
                 ELSE [text |-> Max(fits), marker |-> Marked(Max(fits))])

Only(parts, names) == [p \in DOMAIN parts \cap names |-> parts[p]]

\* _bounded_error_details(): every detail is omitted but a tool's availability.
WithDetailsOmitted(parts) ==
  [p \in DOMAIN parts |-> IF p = "details" THEN Min({parts[p], NoteSize}) ELSE parts[p]]

\* _bounded_error_output(): from the most telling to the least
ErrorCandidates(parts) ==
  LET all   == [p \in DOMAIN parts \union {"truncation"} |->
                  IF p = "truncation" THEN FactsSize ELSE WithDetailsOmitted(parts)[p]]
      Of(S) == <<Only(all, S \cup {"truncation"}), Only(all, S)>>
  IN (IF "details" \in DOMAIN parts THEN Of({"code", "message", "details"}) ELSE <<>>)
     \o Of({"code", "message"}) \o Of({"code"})

\* _bounded_structured_mapping_output()
Candidates(o) ==
  IF IsError(o) THEN ErrorCandidates(o.parts)
  ELSE <<[output |-> NoteSize, truncation |-> FactsSize], [output |-> NoteSize]>>

\* _first_bounded_mapping(): the first that fits, else the last
FirstBounded(candidates, limit) ==
  LET fits == {i \in DOMAIN candidates : SizeOf(candidates[i]) <= limit}
  IN candidates[IF fits = {} THEN Len(candidates) ELSE Min(fits)]

\* Mutation: JSON is cut like any text.
BoundedAsText(o, limit) ==
  IF SizeOf(o.parts) <= limit THEN View(o.form # "text", o.parts)
  ELSE Preview(SizeOf(o.parts), limit)

\* _result_view()
Bounded(o, limit) ==
  IF SizeOf(o.parts) <= limit THEN View(o.form # "text", o.parts)
  ELSE IF o.form = "mapping" THEN View(TRUE, FirstBounded(Candidates(o), limit))
  ELSE Preview(SizeOf(o.parts), limit)

\* _write_tool_result_messages(): the view's text, and the kind of the whole output
ToolMessage(o, limit) ==
  [kind |-> IF o.form = "text" THEN "text" ELSE "json", view |-> Bounded(o, limit)]

-----------------------------------------------------------------------------
(* Shortening.                                                              *)

\* _truncate_json_strings()
Shortened(size, max) == IF size <= max THEN size ELSE max + ReplayMarker

\* json.loads() raises where JSON was announced and is not there.
Readable(message) == message.kind = "json" => message.view.json

\* _prepare_tool_message_update(): a text is one string, a structure has several.
Trimmed(message, max) ==
  LET parts == message.view.parts
  IN [message EXCEPT !.view.parts =
        IF message.kind = "text" THEN [text |-> Shortened(SizeOf(parts), max)]
        ELSE [p \in DOMAIN parts |-> IF p = "truncation" THEN parts[p]
                                     ELSE Shortened(parts[p], max)]]
=============================================================================
