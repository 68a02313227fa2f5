----------------------------- MODULE FileTools -----------------------------
(***************************************************************************)
(* The file tools of turns that run at the same time, on files that other  *)
(* programs (the shell tool among them) write as well.                     *)
(*                                                                         *)
(* A turn runs one call after the other.  file_read remembers in a ledger  *)
(* of the turn which views it has shown, under the file's size and time.   *)
(* A patch or write takes the locks of all its paths, plans every change,  *)
(* writes one file after the other and drops the views of what it may have *)
(* written.  A hash stands for the text it is of.                          *)
(*                                                                         *)
(* Every path is a plain file below the workspace's roots, without links;  *)
(* the directories that create_parent_dirs makes, the check of the new     *)
(* text's syntax (which only reports) and the diff are left out.           *)
(***************************************************************************)
EXTENDS FileEdits, FiniteSets

CONSTANTS
  Turns,
  Paths,
  Order,       \* the paths in the order of sorted()
  Views,       \* the views file_read is asked for: [offset, limit]
  Requests,    \* what patches and writes ask for: sequences of operations
  FirstTexts,  \* the texts that files start with
  OtherTexts,  \* the texts that other programs leave
  MaxSize,     \* tools.files.max_file_bytes
  MaxCalls, MaxOthers, MaxTime, MaxMishaps  \* bounds on what happens

PathsOf(request) == {request[i].path : i \in DOMAIN request}

Nobody == "nobody"

\* A patch with two operations on one path is refused when it is parsed.
ASSUME FileAssumption ==
  /\ Order \in Seq(Paths) /\ ToSet(Order) = Paths /\ IsInjective(Order)
  /\ Nobody \notin Turns
  /\ \A v \in Views : v.offset \in Nat \ {0} /\ v.limit \in Nat \ {0}
  /\ \A r \in Requests : r \in Seq(ToSet(r)) \ {<<>>} /\ PathsOf(r) \subseteq Paths
                         /\ Cardinality(PathsOf(r)) = Len(r)
  /\ {MaxSize, MaxCalls, MaxOthers, MaxTime, MaxMishaps} \subseteq Nat

VARIABLES
  files,    \* [text, time, by] of each path, or NoFile
  locks,    \* _LOCKS: the turn that holds each path's lock, or Nobody
  ledger,   \* the views each turn has been shown
  known,    \* the text of each path that a turn has the hash of, or NoText
  call,     \* the call each turn is in
  now, calls, others, mishaps

fileVars == <<files, locks, ledger, known, call, now, calls, others, mishaps>>

NoText == {}  \* no set of texts: known is {} or {text}
File(text, by) == [text |-> {text}, time |-> now, by |-> by]
NoFile == [text |-> {}, time |-> 0, by |-> Nobody]

\* texts: what the call has read, or will write: sequences
Call(pc, request, view, planned, done) ==
  [pc |-> pc, request |-> request, view |-> view, planned |-> planned, done |-> done]
NoView == [path |-> Order[1], offset |-> 1, limit |-> 1, text |-> {}]
NoCall == Call("idle", <<>>, NoView, <<>>, 0)

FileInit ==
  /\ files \in [Paths -> {NoFile} \cup {[text |-> {x}, time |-> 0, by |-> Nobody] : x \in FirstTexts}]
  /\ locks = [p \in Paths |-> Nobody]
  /\ ledger = [t \in Turns |-> {}]
  /\ known = [t \in Turns |-> [p \in Paths |-> NoText]]
  /\ call = [t \in Turns |-> NoCall]
  /\ now = 0 /\ calls = 0 /\ others = 0 /\ mishaps = 0

bounds == <<now, calls, others, mishaps>>

-----------------------------------------------------------------------------
(* The world.                                                               *)

\* Times are as fine as the file system's: two writes may have the same.
Tick ==
  /\ now < MaxTime
  /\ now' = now + 1
  /\ UNCHANGED <<files, locks, ledger, known, call, calls, others, mishaps>>

OtherWrites ==
  /\ others < MaxOthers
  /\ others' = others + 1
  /\ \E p \in Paths :
       \/ files' = [files EXCEPT ![p] = NoFile]
       \/ \E x \in OtherTexts : files' = [files EXCEPT ![p] = File(x, Nobody)]
  /\ files' # files
  /\ UNCHANGED <<locks, ledger, known, call, now, calls, mishaps>>

-----------------------------------------------------------------------------
(* file_read.                                                               *)

StartCall(t, next) ==
  /\ call[t] = NoCall
  /\ calls < MaxCalls
  /\ calls' = calls + 1
  /\ call' = [call EXCEPT ![t] = next]

\* read_text_file(): the bytes are read first, a large or missing file refused.
ReadBytes(t) ==
  \E p \in Paths, v \in Views :
    /\ \E x \in files[p].text :
         /\ Len(x) <= MaxSize
         /\ StartCall(t, Call("reading", <<>>, [path |-> p, offset |-> v.offset,
                                                limit |-> v.limit, text |-> {x}], <<>>, 0))
    /\ UNCHANGED <<files, locks, ledger, known, now, others, mishaps>>

\* ledger_key: the view, and the size and time the file has by now
Key(view, file) ==
  <<view.path, view.offset, view.limit, {Len(x) : x \in file.text}, file.time>>

\* A view that was shown is not shown again: its answer, hash and all, is that of
\* the first time.  A file that has gone is an error.
AnswerRead(t) ==
  LET view  == call[t].view
      file  == files[view.path]
      shown == {e \in ledger[t] : e.key = Key(view, file)}
      entry == IF shown = {} THEN [key |-> Key(view, file), text |-> view.text]
               ELSE CHOOSE e \in shown : TRUE
  IN /\ call[t].pc = "reading"
     /\ call' = [call EXCEPT ![t] = NoCall]
     /\ IF file = NoFile
        THEN UNCHANGED <<ledger, known>>
        ELSE /\ ledger' = [ledger EXCEPT ![t] = @ \cup {entry}]
             /\ known' = [known EXCEPT ![t][view.path] = entry.text]
     /\ UNCHANGED <<files, locks, bounds>>

\* The next turn of the same agent: a ledger of its own, in the same conversation.
NewTurn(t) ==
  /\ call[t] = NoCall
  /\ ledger[t] # {}
  /\ ledger' = [ledger EXCEPT ![t] = {}]
  /\ UNCHANGED <<files, locks, known, call, bounds>>

-----------------------------------------------------------------------------
(* file_patch, file_write: one operation's plan.                            *)

\* resolve_write_path(): a file that is missing has to be one to create.
Resolves(op) == files[op.path] = NoFile => op.creates

\* What an operation makes of the text a file has: {} when it is refused.
Edited(op, text) ==
  CASE op.mode = "range"   -> AfterRanges(text, op.edits)
    [] op.mode = "replace" -> AfterReplace(text, op.old, op.new, op.all)
    [] op.mode = "update"  -> AfterHunks(text, op.hunks)
    [] op.mode = "write"   -> IF op.overwrite THEN {op.new} ELSE Refused

\* ... and of a file that is missing: no hash is to be given then.
Created(op) ==
  CASE op.mode = "range"            -> AfterRanges(<<>>, op.edits)
    [] op.mode \in {"add", "write"} -> {op.new}
    [] OTHER                        -> Refused

\* Every mode but a patch's text has the hash of what it changes.
Expected(t, op, text) == op.mode = "update" \/ known[t][op.path] = {text}

\* _plan_range(), _plan_replace(), plan_patch_text(), _plan_write()
After(t, op) ==
  LET file == files[op.path]
  IN IF file = NoFile
     THEN IF Resolves(op) THEN Created(op) ELSE Refused
     ELSE UNION {IF op.mode # "add" /\ Len(x) <= MaxSize /\ Expected(t, op, x)
                 THEN Edited(op, x) ELSE Refused : x \in file.text}

-----------------------------------------------------------------------------
(* The locks.                                                               *)

\* Locks are taken before anything is planned: the paths are only resolved.
StartWrite(t) ==
  \E request \in Requests :
    /\ \A i \in DOMAIN request : Resolves(request[i])
    /\ StartCall(t, Call("locking", request, NoView, <<>>, 0))
    /\ UNCHANGED <<files, locks, ledger, known, now, others, mishaps>>

\* Mutation: the paths are locked in the order of the patch.
NextPathUnsorted(t) ==
  LET request == call[t].request
      open == {i \in DOMAIN request : locks[request[i].path] # t}
  IN request[CHOOSE i \in open : \A k \in open : i <= k].path

Unlocked(t) == {i \in DOMAIN Order : Order[i] \in PathsOf(call[t].request) /\ locks[Order[i]] # t}

\* path_locks()
NextPath(t) == Order[CHOOSE i \in Unlocked(t) : \A k \in Unlocked(t) : i <= k]

\* Mutation: every tool has locks of its own.
FreeAlways(path) == TRUE

Free(path) == locks[path] = Nobody

LockNextPath(t) ==
  /\ call[t].pc = "locking"
  /\ Unlocked(t) # {}
  /\ Free(NextPath(t))
  /\ locks' = [locks EXCEPT ![NextPath(t)] = t]
  /\ UNCHANGED <<files, ledger, known, call, bounds>>

Locked(t) ==
  /\ call[t].pc = "locking"
  /\ Unlocked(t) = {}
  /\ call' = [call EXCEPT ![t].pc = "planning"]
  /\ UNCHANGED <<files, locks, ledger, known, bounds>>

\* Whatever ends a call: the locks are released.
Released(t) == [p \in Paths |-> IF locks[p] = t THEN Nobody ELSE locks[p]]
End(t) ==
  /\ call' = [call EXCEPT ![t] = NoCall]
  /\ locks' = Released(t)

-----------------------------------------------------------------------------
(* Planning, and writing what was planned.                                  *)

\* Mutation: sizes are checked when a file is written.
NoPreflight(planned) == TRUE

\* _preflight_planned_writes()
Preflight(planned) == \A i \in DOMAIN planned : Len(planned[i].after) <= MaxSize

Plan(t) ==
  LET request == call[t].request
      planned == call[t].planned
      op      == request[Len(planned) + 1]
  IN /\ call[t].pc = "planning"
     /\ \/ /\ After(t, op) = Refused
           /\ End(t)
        \/ \E after \in After(t, op) :
             LET all == Append(planned, [path |-> op.path, before |-> files[op.path].text,
                                         after |-> after])
             IN CASE Len(all) < Len(request) ->
                       /\ call' = [call EXCEPT ![t].planned = all]
                       /\ UNCHANGED locks
                  [] Len(all) = Len(request) /\ Preflight(all) ->
                       /\ call' = [call EXCEPT ![t].planned = all, ![t].pc = "writing"]
                       /\ UNCHANGED locks
                  [] OTHER -> End(t)
     /\ UNCHANGED <<files, ledger, known, bounds>>

\* What a call may have written when it is to write its i-th file.
Started(t, i) == {call[t].planned[k].path : k \in 1..i}

\* Mutation: a write that fails drops nothing.
KeptBut(t, started) ==
  IF call[t].pc = "writing" THEN ledger[t] ELSE {e \in ledger[t] : e.key[1] \notin started}

\* invalidate_read_ledger(): this turn's ledger, not the others'
Invalidated(t, started) == {e \in ledger[t] : e.key[1] \notin started}

Fail(t, i) ==
  /\ ledger' = [ledger EXCEPT ![t] = Invalidated(t, Started(t, i))]
  /\ End(t)

\* atomic_write_text(): the new text replaces the file as a whole.
Write(t) ==
  LET item == call[t].planned[call[t].done + 1]
  IN /\ call[t].pc = "writing"
     /\ IF Len(item.after) <= MaxSize
        THEN /\ files' = [files EXCEPT ![item.path] = File(item.after, t)]
             /\ call' = [call EXCEPT ![t].done = @ + 1, ![t].pc = "verifying"]
             /\ UNCHANGED <<ledger, locks>>
        ELSE Fail(t, call[t].done + 1) /\ UNCHANGED files
     /\ UNCHANGED <<known, bounds>>

\* ... or cannot be written.
WriteFails(t) ==
  /\ call[t].pc = "writing"
  /\ mishaps < MaxMishaps
  /\ mishaps' = mishaps + 1
  /\ Fail(t, call[t].done + 1)
  /\ UNCHANGED <<files, known, now, calls, others>>

\* The text is read back.  When it is another's by now, the call fails, with the
\* files written before it left as they are.  Only the answer about a single file
\* has a hash.
Verify(t) ==
  LET planned == call[t].planned
      done    == call[t].done
  IN /\ call[t].pc = "verifying"
     /\ CASE files[planned[done].path].text # {planned[done].after} ->
               Fail(t, done) /\ UNCHANGED known
          [] done < Len(planned) ->
               /\ call' = [call EXCEPT ![t].pc = "writing"]
               /\ UNCHANGED <<ledger, locks, known>>
          [] OTHER ->
               /\ known' = IF done = 1
                           THEN [known EXCEPT ![t][planned[1].path] = {planned[1].after}]
                           ELSE known
               /\ Fail(t, done)
     /\ UNCHANGED <<files, bounds>>

-----------------------------------------------------------------------------
Work(t) ==
  \/ AnswerRead(t)
  \/ LockNextPath(t) \/ Locked(t) \/ Plan(t)
  \/ Write(t) \/ WriteFails(t) \/ Verify(t)

FileNext ==
  \/ \E t \in Turns : ReadBytes(t) \/ StartWrite(t) \/ Work(t) \/ NewTurn(t)
  \/ Tick \/ OtherWrites

FileSpec == FileInit /\ [][FileNext]_fileVars

\* A thread that is not waiting for a lock goes on.
FileFairSpec == FileSpec /\ \A t \in Turns : WF_fileVars(Work(t))
=============================================================================
