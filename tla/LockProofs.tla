----------------------------- MODULE LockProofs -----------------------------
(***************************************************************************)
(* Proofs about the two things the program locks, and about what is done    *)
(* under one of them.  FileTools: the calls of the file tools on the locks  *)
(* of their paths, for any turns, paths and requests.  FileEdits: what the  *)
(* calls make of texts, for any texts and edits.  LoopCoordinator: the      *)
(* loops on the lock of the subject, for any number of loops, any           *)
(* priorities and any chunk length.                                         *)
(***************************************************************************)
EXTENDS LoopCoordinatorProps, FileToolsProps, FiniteSetTheorems,
        FunctionTheorems, SequenceTheorems, WellFoundedInduction, TLAPS

-----------------------------------------------------------------------------
(***************************************************************************)
(* FileTools.                                                              *)
(***************************************************************************)

\* A nonempty set of numbers has a least one.
LEMMA LeastElement ==
  ASSUME NEW S, S \subseteq Nat, S # {}
  PROVE  \E x \in S : \A y \in S : x <= y
<1>1. PICK z \in S : TRUE
  OBVIOUS
<1> DEFINE Below == {0..n : n \in {m \in S : m <= z}}
           Smaller == StrictSubsetOrdering(0..z)
<1>2. Below \subseteq FiniteSubsetsOf(0..z)
  <2>1. ASSUME NEW n \in S, n <= z PROVE 0..n \in FiniteSubsetsOf(0..z)
    BY <2>1, FS_Interval DEF FiniteSubsetsOf
  <2> QED BY <2>1
<1>3. Below # {}
  OBVIOUS
<1>4. \E x \in Below : \A y \in Below : ~(<<y, x>> \in Smaller)
  <2>1. IsWellFoundedOn(Smaller, FiniteSubsetsOf(0..z))
    BY FS_StrictSubsetOrderingWellFounded
  <2> HIDE DEF Smaller, Below
  <2> QED BY <2>1, <1>2, <1>3, WFMin
<1>5. PICK n \in S : n <= z /\ \A y \in Below : ~(<<y, 0..n>> \in Smaller)
  BY <1>4
<1>6. ASSUME NEW m \in S, m < n PROVE FALSE
  <2>1. 0..m \in Below
    BY <1>6, <1>5
  <2>2. 0..m \subseteq 0..n /\ n \in 0..n /\ n \notin 0..m /\ 0..n \subseteq 0..z
    BY <1>6, <1>5
  <2>3. <<0..m, 0..n>> \in Smaller
    BY <2>2 DEF StrictSubsetOrdering
  <2> QED BY <2>1, <2>3, <1>5
<1> QED BY <1>5, <1>6

Phases == {"idle", "reading", "locking", "planning", "writing", "verifying"}

\* The call has all its locks.
HasLocks(c) == c.pc \in {"planning", "writing", "verifying"}

CallShape(c) ==
  /\ c = Call(c.pc, c.request, c.view, c.planned, c.done)
  /\ c.pc \in Phases
  /\ c.pc = "idle" => c = NoCall
  /\ c.pc = "reading" => c.view.path \in Paths
  /\ c.done \in Nat
  /\ c.pc \notin {"idle", "reading"} => c.request \in Requests
  /\ \E S : c.planned \in Seq(S)
  /\ c.pc = "locking" => c.planned = <<>> /\ c.done = 0
  /\ c.pc = "planning" => Len(c.planned) < Len(c.request) /\ c.done = 0
  /\ c.pc \in {"writing", "verifying"} =>
       Len(c.planned) = Len(c.request) /\ Preflight(c.planned)
  /\ c.pc = "writing" => c.done < Len(c.planned)
  /\ c.pc = "verifying" => c.done \in 1..Len(c.planned)
  /\ HasLocks(c) => \A i \in 1..Len(c.planned) : c.planned[i].path = c.request[i].path

FileTypeOK ==
  /\ DOMAIN files = Paths
  /\ \A p \in Paths : files[p].text = {} \/ \E x : files[p].text = {x}
  /\ locks \in [Paths -> Turns \cup {Nobody}]
  /\ DOMAIN ledger = Turns
  /\ DOMAIN call = Turns /\ \A t \in Turns : CallShape(call[t])
  /\ mishaps \in Nat

LocksHeld ==
  /\ \A p \in Paths : locks[p] # Nobody =>
       LET c == call[locks[p]]
       IN c.pc \notin {"idle", "reading"} /\ p \in PathsOf(c.request)
  /\ \A t \in Turns : HasLocks(call[t]) => \A p \in PathsOf(call[t].request) : locks[p] = t

PlanStands(t) ==
  HasLocks(call[t]) =>
    \A i \in (call[t].done + 1)..Len(call[t].planned) :
      LET item == call[t].planned[i]
      IN files[item.path].text = item.before \/ files[item.path].by = Nobody

ReadIsFresh(t) ==
  call[t].pc = "reading" =>
    LET view == call[t].view
    IN files[view.path].text = view.text \/ files[view.path].by # t

LedgerIsFresh(t) ==
  \A e \in ledger[t], p \in Paths :
    e.key = Key([path |-> p, offset |-> e.key[2], limit |-> e.key[3]], files[p]) =>
      \/ e.text = files[p].text \/ files[p].by # t
      \/ Writing(t) /\ p \in Started(t, call[t].done)

FileInv ==
  /\ FileTypeOK /\ LocksHeld
  /\ \A t \in Turns : PlanStands(t) /\ ReadIsFresh(t) /\ LedgerIsFresh(t)

\* What a step of turn t leaves to the others.
StepsAside(t) ==
  /\ \A u \in Turns \ {t} : call'[u] = call[u] /\ ledger'[u] = ledger[u]
  /\ \A p \in Paths : \/ files'[p] = files[p] \/ files'[p].by = Nobody
                      \/ files'[p].by = t /\ locks[p] = t

\* A request names each of its paths once.
LEMMA RequestPaths ==
  ASSUME NEW r \in Requests
  PROVE  /\ Len(r) \in Nat \ {0} /\ DOMAIN r = 1..Len(r)
         /\ \A i \in 1..Len(r) : r[i].path \in Paths /\ r[i].path \in PathsOf(r)
         /\ \A i, k \in 1..Len(r) : i # k => r[i].path # r[k].path
<1>1. r \in Seq(ToSet(r)) /\ r # <<>> /\ PathsOf(r) \subseteq Paths /\ Cardinality(PathsOf(r)) = Len(r)
  BY FileAssumption
<1>2. Len(r) \in Nat \ {0} /\ DOMAIN r = 1..Len(r)
  BY <1>1
<1>3. \A i \in 1..Len(r) : r[i].path \in Paths /\ r[i].path \in PathsOf(r)
  BY <1>1, <1>2 DEF PathsOf
<1> DEFINE f == [i \in 1..Len(r) |-> r[i].path]
<1>4. f \in Surjection(1..Len(r), PathsOf(r))
  BY <1>2, <1>3 DEF Surjection, PathsOf
<1>5. IsFiniteSet(1..Len(r)) /\ Cardinality(1..Len(r)) = Len(r)
  BY <1>2, FS_Interval
<1>6. f \in Injection(1..Len(r), PathsOf(r))
  <2> HIDE DEF f
  <2> QED BY <1>1, <1>4, <1>5, FS_Surjection
<1>7. \A i, k \in 1..Len(r) : i # k => r[i].path # r[k].path
  BY <1>6 DEF Injection, IsInjective
<1> QED BY <1>2, <1>3, <1>7

\* What is planned, and what a file has become, are of the others' business no more
\* than their locks allow.
LEMMA OthersKept ==
  ASSUME FileInv, NEW t, StepsAside(t), NEW u \in Turns, u # t
  PROVE  PlanStands(u)' /\ ReadIsFresh(u)' /\ LedgerIsFresh(u)'
<1>1. call'[u] = call[u] /\ ledger'[u] = ledger[u]
  BY DEF StepsAside
<1>2. ASSUME NEW p \in Paths
      PROVE  files'[p] = files[p] \/ files'[p].by # u
  BY FileAssumption DEF StepsAside
<1>3. ASSUME NEW p \in Paths, locks[p] = u
      PROVE  files'[p] = files[p] \/ files'[p].by = Nobody
  BY <1>3 DEF StepsAside
<1>4. CallShape(call[u])
  BY DEF FileInv, FileTypeOK
<1>5. PlanStands(u)'
  <2> SUFFICES ASSUME HasLocks(call[u]), NEW i \in (call[u].done + 1)..Len(call[u].planned)
               PROVE  LET item == call[u].planned[i]
                      IN files'[item.path].text = item.before \/ files'[item.path].by = Nobody
    BY <1>1 DEF PlanStands
  <2>1. i \in 1..Len(call[u].planned) /\ i \in 1..Len(call[u].request) /\ call[u].request \in Requests
    BY <1>4, RequestPaths DEF CallShape, HasLocks
  <2>2. call[u].planned[i].path \in Paths /\ locks[call[u].planned[i].path] = u
    BY <1>4, <2>1, RequestPaths DEF CallShape, FileInv, LocksHeld
  <2> QED BY <1>3, <2>2 DEF FileInv, PlanStands
<1>6. ReadIsFresh(u)'
  BY <1>1, <1>2, <1>4 DEF FileInv, ReadIsFresh, CallShape
<1>7. LedgerIsFresh(u)'
  BY <1>1, <1>2 DEF FileInv, LedgerIsFresh, Writing, Started, Key
<1> QED BY <1>5, <1>6, <1>7

\* The lock a call waits for is one of its paths.
LEMMA NextPathIsOpen ==
  ASSUME NEW t \in Turns, Unlocked(t) # {}
  PROVE  /\ NextPath(t) \in Paths /\ NextPath(t) \in PathsOf(call[t].request)
         /\ locks[NextPath(t)] # t
<1>1. Unlocked(t) \subseteq 1..Len(Order) /\ Len(Order) \in Nat /\ \A i \in 1..Len(Order) : Order[i] \in Paths
  BY FileAssumption DEF Unlocked
<1>2. \E i \in Unlocked(t) : \A k \in Unlocked(t) : i <= k
  BY <1>1, LeastElement
<1>3. \E i \in Unlocked(t) : NextPath(t) = Order[i]
  BY <1>2 DEF NextPath
<1> QED BY <1>1, <1>3 DEF Unlocked

\* Who has no path left to lock holds the lock of every path of its request.
LEMMA AllLocked ==
  ASSUME NEW t \in Turns, Unlocked(t) = {}, call[t].request \in Requests
  PROVE  \A p \in PathsOf(call[t].request) : locks[p] = t
<1>1. \A p \in Paths : \E i \in DOMAIN Order : Order[i] = p
  BY FileAssumption DEF ToSet
<1> QED BY <1>1, FileAssumption DEF Unlocked

\* A step of one turn that steps aside for the others keeps the invariant once it
\* keeps what is of the files, the locks and that turn.
LEMMA OneTurnMoves ==
  ASSUME FileInv, NEW t \in Turns, StepsAside(t), FileTypeOK', LocksHeld',
         PlanStands(t)', ReadIsFresh(t)', LedgerIsFresh(t)'
  PROVE  FileInv'
BY OthersKept DEF FileInv

\* A call that ends gives its locks back and leaves nothing planned.
LEMMA EndFacts ==
  ASSUME FileInv, NEW t \in Turns, End(t), files' = files,
         \A u \in Turns \ {t} : ledger'[u] = ledger[u],
         DOMAIN ledger' = Turns, mishaps' \in Nat
  PROVE  /\ StepsAside(t) /\ FileTypeOK' /\ LocksHeld' /\ PlanStands(t)' /\ ReadIsFresh(t)'
         /\ call'[t] = NoCall
<1>1. /\ DOMAIN call' = Turns /\ call'[t] = NoCall
      /\ \A u \in Turns \ {t} : call'[u] = call[u]
  BY DEF End, FileInv, FileTypeOK
<1>2. StepsAside(t)
  BY <1>1 DEF StepsAside
<1>3. CallShape(NoCall) /\ NoCall.pc = "idle"
  <2>1. <<>> \in Seq({})
    OBVIOUS
  <2> QED BY <2>1 DEF CallShape, NoCall, Call, Phases, HasLocks
<1>4. \A p \in Paths : locks'[p] = IF locks[p] = t THEN Nobody ELSE locks[p]
  BY DEF End, Released
<1>5. FileTypeOK'
  BY <1>1, <1>3 DEF FileInv, FileTypeOK, End, Released
<1>6. LocksHeld'
  <2>1. ASSUME NEW p \in Paths, locks'[p] # Nobody
        PROVE  locks[p] = locks'[p] /\ locks[p] \in Turns /\ call'[locks[p]] = call[locks[p]]
    BY <1>1, <1>4, <2>1 DEF FileInv, FileTypeOK
  <2>2. ASSUME NEW u \in Turns, HasLocks(call'[u])
        PROVE  u # t /\ call'[u] = call[u]
    BY <1>1, <1>3, <2>2 DEF HasLocks
  <2>3. ASSUME NEW u \in Turns, HasLocks(call'[u]), NEW p \in PathsOf(call'[u].request)
        PROVE  locks'[p] = u
    <3>1. p \in Paths /\ locks[p] = u
      BY <2>2, <2>3, FileAssumption DEF FileInv, FileTypeOK, LocksHeld, CallShape, HasLocks
    <3> QED BY <1>4, <2>2, <2>3, <3>1
  <2> QED BY <2>1, <2>3 DEF FileInv, LocksHeld
<1> QED BY <1>1, <1>2, <1>3, <1>5, <1>6 DEF PlanStands, ReadIsFresh, HasLocks

\* A call that fails half way ends, with the files as they are by then.
LEMMA FailFacts ==
  ASSUME FileInv, NEW t \in Turns, NEW i \in Nat, Fail(t, i), files' = files, mishaps' \in Nat,
         Writing(t), call[t].done <= i
  PROVE  FileInv'
<1>1. ledger'[t] = Invalidated(t, Started(t, i)) /\ DOMAIN ledger' = Turns
      /\ \A u \in Turns \ {t} : ledger'[u] = ledger[u]
  BY DEF Fail, FileInv, FileTypeOK
<1>2. StepsAside(t) /\ FileTypeOK' /\ LocksHeld' /\ PlanStands(t)' /\ ReadIsFresh(t)'
  BY <1>1, EndFacts DEF Fail
<1>3. LedgerIsFresh(t)'
  <2> SUFFICES ASSUME NEW e \in ledger'[t], NEW p \in Paths,
                      e.key = Key([path |-> p, offset |-> e.key[2], limit |-> e.key[3]], files[p])
               PROVE  e.text = files[p].text \/ files[p].by # t
    BY DEF LedgerIsFresh, Key
  <2>1. e \in ledger[t] /\ e.key[1] \notin Started(t, i)
    BY <1>1 DEF Invalidated
  <2>2. e.key[1] = p
    BY DEF Key
  <2>3. call[t].done \in Nat
    BY DEF FileInv, FileTypeOK, CallShape
  <2>4. p \notin Started(t, call[t].done)
    BY <2>1, <2>2, <2>3 DEF Started
  <2> QED BY <2>1, <2>4 DEF FileInv, LedgerIsFresh
<1> QED BY <1>2, <1>3, OneTurnMoves

\* file_read.
LEMMA ReadBytesKeeps ==
  ASSUME FileInv, NEW t \in Turns, ReadBytes(t)
  PROVE  FileInv'
<1>0. PICK p \in Paths, v \in Views : \E x \in files[p].text :
        StartCall(t, Call("reading", <<>>, [path |-> p, offset |-> v.offset,
                                            limit |-> v.limit, text |-> {x}], <<>>, 0))
  BY DEF ReadBytes
<1>1. PICK x \in files[p].text :
        StartCall(t, Call("reading", <<>>, [path |-> p, offset |-> v.offset,
                                            limit |-> v.limit, text |-> {x}], <<>>, 0))
  BY <1>0
<1> DEFINE view == [path |-> p, offset |-> v.offset, limit |-> v.limit, text |-> {x}]
<1>2. UNCHANGED <<files, locks, ledger, known, now, others, mishaps>>
  BY DEF ReadBytes
<1>3. /\ DOMAIN call' = Turns /\ call[t].pc = "idle" /\ call'[t] = Call("reading", <<>>, view, <<>>, 0)
      /\ \A u \in Turns \ {t} : call'[u] = call[u]
  BY <1>1 DEF StartCall, FileInv, FileTypeOK, NoCall, Call
<1>4. call'[t].pc = "reading" /\ call'[t].view = view /\ CallShape(call'[t])
  <2>1. <<>> \in Seq({})
    OBVIOUS
  <2> QED BY <1>3, <2>1 DEF CallShape, Call, Phases, HasLocks
<1>5. FileTypeOK' /\ StepsAside(t)
  BY <1>2, <1>3, <1>4 DEF FileInv, FileTypeOK, StepsAside
<1>6. LocksHeld'
  BY <1>2, <1>3, <1>4 DEF FileInv, FileTypeOK, LocksHeld, HasLocks
<1>7. PlanStands(t)'
  BY <1>4 DEF PlanStands, HasLocks
<1>8. ReadIsFresh(t)'
  BY <1>2, <1>4 DEF ReadIsFresh, FileInv, FileTypeOK
<1>9. LedgerIsFresh(t)'
  BY <1>2, <1>3 DEF FileInv, LedgerIsFresh, Writing, Key
<1> QED BY <1>5, <1>6, <1>7, <1>8, <1>9, OneTurnMoves

\* A read that is answered enters what it saw, stale or not, into its turn's ledger.
LEMMA AnswerReadKeeps ==
  ASSUME FileInv, NEW t \in Turns, AnswerRead(t)
  PROVE  FileInv'
<1> DEFINE view  == call[t].view
           file  == files[view.path]
           shown == {e \in ledger[t] : e.key = Key(view, file)}
           entry == IF shown = {} THEN [key |-> Key(view, file), text |-> view.text]
                    ELSE CHOOSE e \in shown : TRUE
<1>1. /\ call[t].pc = "reading" /\ DOMAIN call' = Turns /\ call'[t] = NoCall
      /\ \A u \in Turns \ {t} : call'[u] = call[u]
      /\ UNCHANGED <<files, locks, bounds>>
  BY DEF AnswerRead, FileInv, FileTypeOK
<1>2. /\ DOMAIN ledger' = Turns /\ \A u \in Turns \ {t} : ledger'[u] = ledger[u]
      /\ ledger'[t] = ledger[t] \/ ledger'[t] = ledger[t] \cup {entry}
  BY DEF AnswerRead, FileInv, FileTypeOK
<1>3. CallShape(NoCall) /\ NoCall.pc = "idle"
  <2>1. <<>> \in Seq({})
    OBVIOUS
  <2> QED BY <2>1 DEF CallShape, NoCall, Call, Phases, HasLocks
<1>4. FileTypeOK' /\ StepsAside(t)
  BY <1>1, <1>2, <1>3 DEF FileInv, FileTypeOK, StepsAside, bounds
<1>5. LocksHeld'
  BY <1>1, <1>3 DEF FileInv, FileTypeOK, LocksHeld, HasLocks
<1>6. PlanStands(t)' /\ ReadIsFresh(t)'
  BY <1>1, <1>3 DEF PlanStands, ReadIsFresh, HasLocks
<1>7. LedgerIsFresh(t)'
  <2> SUFFICES ASSUME NEW e \in ledger'[t], NEW p \in Paths,
                      e.key = Key([path |-> p, offset |-> e.key[2], limit |-> e.key[3]], files[p])
               PROVE  e.text = files[p].text \/ files[p].by # t
    BY <1>1 DEF LedgerIsFresh, Key
  <2>1. CASE e \in ledger[t]
    BY <1>1, <2>1 DEF FileInv, LedgerIsFresh, Writing
  <2>2. CASE e \notin ledger[t]
    <3>1. e = entry /\ shown = {}
      BY <1>2, <2>2
    <3>2. e.key = Key(view, file) /\ e.text = view.text
      BY <3>1
    <3>3. p = view.path
      BY <3>2 DEF Key
    <3> QED BY <1>1, <3>2, <3>3 DEF FileInv, ReadIsFresh
  <2> QED BY <2>1, <2>2
<1> QED BY <1>4, <1>5, <1>6, <1>7, OneTurnMoves

\* A new turn starts with an empty ledger.
LEMMA NewTurnKeeps ==
  ASSUME FileInv, NEW t \in Turns, NewTurn(t)
  PROVE  FileInv'
<1>1. /\ DOMAIN ledger' = Turns /\ ledger'[t] = {} /\ \A u \in Turns \ {t} : ledger'[u] = ledger[u]
      /\ UNCHANGED <<files, locks, known, call, bounds>>
  BY DEF NewTurn, FileInv, FileTypeOK
<1>2. FileTypeOK' /\ StepsAside(t) /\ LocksHeld'
  BY <1>1 DEF FileInv, FileTypeOK, StepsAside, LocksHeld, bounds
<1>3. PlanStands(t)' /\ ReadIsFresh(t)' /\ LedgerIsFresh(t)'
  BY <1>1 DEF FileInv, PlanStands, ReadIsFresh, LedgerIsFresh
<1> QED BY <1>2, <1>3, OneTurnMoves

\* file_patch, file_write.
LEMMA StartWriteKeeps ==
  ASSUME FileInv, NEW t \in Turns, StartWrite(t)
  PROVE  FileInv'
<1>1. PICK request \in Requests : StartCall(t, Call("locking", request, NoView, <<>>, 0))
  BY DEF StartWrite
<1>2. UNCHANGED <<files, locks, ledger, known, now, others, mishaps>>
  BY DEF StartWrite
<1>3. /\ DOMAIN call' = Turns /\ call[t].pc = "idle" /\ call'[t] = Call("locking", request, NoView, <<>>, 0)
      /\ \A u \in Turns \ {t} : call'[u] = call[u]
  BY <1>1 DEF StartCall, FileInv, FileTypeOK, NoCall, Call
<1>4. call'[t].pc = "locking" /\ CallShape(call'[t])
  <2>1. <<>> \in Seq({})
    OBVIOUS
  <2> QED BY <1>3, <2>1 DEF CallShape, Call, Phases, HasLocks
<1>5. FileTypeOK' /\ StepsAside(t)
  BY <1>2, <1>3, <1>4 DEF FileInv, FileTypeOK, StepsAside
<1>6. LocksHeld'
  BY <1>2, <1>3, <1>4 DEF FileInv, FileTypeOK, LocksHeld, HasLocks
<1>7. PlanStands(t)' /\ ReadIsFresh(t)'
  BY <1>4 DEF PlanStands, ReadIsFresh, HasLocks
<1>8. LedgerIsFresh(t)'
  BY <1>2, <1>3 DEF FileInv, LedgerIsFresh, Writing, Key
<1> QED BY <1>5, <1>6, <1>7, <1>8, OneTurnMoves

\* Taking one lock more takes it from nobody.
LEMMA LockNextPathKeeps ==
  ASSUME FileInv, NEW t \in Turns, LockNextPath(t)
  PROVE  FileInv'
<1>1. /\ call[t].pc = "locking" /\ locks[NextPath(t)] = Nobody /\ NextPath(t) \in Paths
      /\ NextPath(t) \in PathsOf(call[t].request)
      /\ UNCHANGED <<files, ledger, known, call, bounds>>
  BY NextPathIsOpen DEF LockNextPath, Free
<1>2. \A p \in Paths : locks'[p] = IF p = NextPath(t) THEN t ELSE locks[p]
  BY DEF LockNextPath, FileInv, FileTypeOK
<1>3. FileTypeOK' /\ StepsAside(t)
  BY <1>1 DEF FileInv, FileTypeOK, StepsAside, bounds, LockNextPath
<1>4. LocksHeld'
  <2>1. ASSUME NEW u \in Turns, HasLocks(call[u]), NEW p \in PathsOf(call[u].request)
        PROVE  locks'[p] = u
    <3>1. p \in Paths /\ locks[p] = u
      BY <2>1, FileAssumption DEF FileInv, FileTypeOK, LocksHeld, CallShape, HasLocks
    <3> QED BY <1>1, <1>2, <3>1, FileAssumption
  <2> QED BY <1>1, <1>2, <2>1 DEF FileInv, LocksHeld
<1>5. PlanStands(t)' /\ ReadIsFresh(t)' /\ LedgerIsFresh(t)'
  BY <1>1 DEF FileInv, PlanStands, ReadIsFresh, LedgerIsFresh, Writing, Started, Key
<1> QED BY <1>3, <1>4, <1>5, OneTurnMoves

\* A call in another phase, or with more planned or done.
LEMMA CallFields ==
  ASSUME NEW c, c = Call(c.pc, c.request, c.view, c.planned, c.done), NEW x
  PROVE  /\ [c EXCEPT !.pc = x] = Call(x, c.request, c.view, c.planned, c.done)
         /\ [c EXCEPT !.planned = x] = Call(c.pc, c.request, c.view, x, c.done)
<1> DEFINE fields == {"pc", "request", "view", "planned", "done"}
<1>1. DOMAIN c = fields /\ c = [f \in fields |-> c[f]]
  BY DEF Call
<1>2. [c EXCEPT !.pc = x] = Call(x, c.request, c.view, c.planned, c.done)
  BY <1>1 DEF Call
<1>3. [c EXCEPT !.planned = x] = Call(c.pc, c.request, c.view, x, c.done)
  BY <1>1 DEF Call
<1> QED BY <1>2, <1>3

CallFieldNames == {"pc", "request", "view", "planned", "done"}

\* A call is a record of its five fields.
LEMMA CallOfFields ==
  ASSUME NEW d
  PROVE  /\ d = [f \in CallFieldNames |-> d[f]] => d = Call(d.pc, d.request, d.view, d.planned, d.done)
         /\ d = Call(d.pc, d.request, d.view, d.planned, d.done) =>
              DOMAIN d = CallFieldNames /\ d = [f \in CallFieldNames |-> d[f]]
BY DEF Call, CallFieldNames

\* With its last lock a call begins to plan.
LEMMA LockedKeeps ==
  ASSUME FileInv, NEW t \in Turns, Locked(t)
  PROVE  FileInv'
<1> DEFINE c == call[t]
<1>1. /\ c.pc = "locking" /\ Unlocked(t) = {} /\ UNCHANGED <<files, locks, ledger, known, bounds>>
      /\ CallShape(c)
  BY DEF Locked, FileInv, FileTypeOK
<1>2. /\ DOMAIN call' = Turns /\ call'[t] = Call("planning", c.request, c.view, c.planned, c.done)
      /\ \A u \in Turns \ {t} : call'[u] = call[u]
  BY <1>1, CallFields DEF Locked, FileInv, FileTypeOK, CallShape
<1>3. c.request \in Requests /\ c.planned = <<>> /\ c.done = 0 /\ Len(c.request) > 0
  BY <1>1, RequestPaths DEF CallShape
<1>4. /\ call'[t].pc = "planning" /\ call'[t].request = c.request /\ call'[t].planned = <<>>
      /\ call'[t].done = 0
  BY <1>2, <1>3 DEF Call
<1>5. CallShape(call'[t])
  <2>1. <<>> \in Seq({}) /\ Len(<<>>) = 0
    OBVIOUS
  <2> QED BY <1>2, <1>3, <1>4, <2>1 DEF CallShape, Call, Phases, HasLocks
<1>6. FileTypeOK' /\ StepsAside(t)
  BY <1>1, <1>2, <1>5 DEF FileInv, FileTypeOK, StepsAside, bounds
<1>7. LocksHeld'
  BY <1>1, <1>2, <1>3, <1>4, AllLocked DEF FileInv, FileTypeOK, LocksHeld, HasLocks
<1>8. PlanStands(t)' /\ ReadIsFresh(t)'
  BY <1>4 DEF PlanStands, ReadIsFresh
<1>9. LedgerIsFresh(t)'
  BY <1>1, <1>2 DEF FileInv, LedgerIsFresh, Writing, Key
<1> QED BY <1>6, <1>7, <1>8, <1>9, OneTurnMoves

\* What a sequence with one element more is made of.
LEMMA Appended ==
  ASSUME NEW S, NEW s \in Seq(S), NEW e
  PROVE  /\ Append(s, e) \in Seq(S \cup {e}) /\ Len(Append(s, e)) = Len(s) + 1 /\ Len(s) \in Nat
         /\ \A i \in 1..Len(s) : Append(s, e)[i] = s[i]
         /\ Append(s, e)[Len(s) + 1] = e
<1>1. s \in Seq(S \cup {e}) /\ e \in S \cup {e}
  OBVIOUS
<1> QED BY <1>1, AppendProperties

\* One more file is planned, as it is now.
OneMorePlanned(t, all) ==
  LET c == call[t]
      n == Len(c.planned) + 1
  IN /\ \E S : all \in Seq(S)
     /\ Len(all) = n
     /\ \A i \in 1..Len(c.planned) : all[i] = c.planned[i]
     /\ all[n].path = c.request[n].path
     /\ all[n].before = files[c.request[n].path].text

\* One item more is planned from the file as it is, which the call has locked.
LEMMA PlannedKeeps ==
  ASSUME FileInv, NEW t \in Turns, call[t].pc = "planning",
         NEW all, OneMorePlanned(t, all),
         NEW phase,
         \/ phase = "planning" /\ Len(all) < Len(call[t].request)
         \/ phase = "writing" /\ Len(all) = Len(call[t].request) /\ Preflight(all),
         DOMAIN call' = Turns,
         call'[t] = Call(phase, call[t].request, call[t].view, all, call[t].done),
         \A u \in Turns \ {t} : call'[u] = call[u],
         UNCHANGED <<files, locks, ledger, known, bounds>>
  PROVE  FileInv'
<1> DEFINE c == call[t]
<1>1. CallShape(c) /\ c.done = 0 /\ c.request \in Requests /\ Len(c.planned) \in Nat
  BY DEF FileInv, FileTypeOK, CallShape
<1>2. /\ call'[t].pc = phase /\ call'[t].request = c.request /\ call'[t].planned = all
      /\ call'[t].done = 0 /\ phase \in {"planning", "writing"}
  BY <1>1 DEF Call
<1>3. \A i \in 1..Len(all) : i \in 1..Len(c.planned) \/ i = Len(c.planned) + 1
  BY <1>1 DEF OneMorePlanned
<1>4. \A i \in 1..Len(all) : all[i].path = c.request[i].path
  BY <1>1, <1>3 DEF CallShape, HasLocks, OneMorePlanned
<1>5. CallShape(call'[t])
  <2>1. 0 < Len(all) /\ \E S : all \in Seq(S)
    BY <1>1 DEF OneMorePlanned
  <2> QED BY <1>1, <1>2, <1>4, <2>1 DEF CallShape, Call, Phases, HasLocks
<1>6. FileTypeOK' /\ StepsAside(t)
  BY <1>5 DEF FileInv, FileTypeOK, StepsAside, bounds
<1>7. LocksHeld'
  BY <1>2 DEF FileInv, FileTypeOK, LocksHeld, HasLocks
<1>8. PlanStands(t)'
  <2>1. ASSUME NEW i \in 1..Len(all)
        PROVE  files[all[i].path].text = all[i].before \/ files[all[i].path].by = Nobody
    <3>1. CASE i \in 1..Len(c.planned)
      <4>1. i \in (c.done + 1)..Len(c.planned) /\ all[i] = c.planned[i]
        BY <1>1, <3>1 DEF OneMorePlanned
      <4> QED BY <4>1 DEF FileInv, PlanStands, HasLocks
    <3>2. CASE i = Len(c.planned) + 1
      BY <1>4, <3>2 DEF OneMorePlanned
    <3> QED BY <1>3, <3>1, <3>2
  <2>2. call'[t].done + 1 = 1 /\ files' = files
    BY <1>2
  <2> QED BY <1>2, <2>1, <2>2 DEF PlanStands
<1>9. ReadIsFresh(t)'
  BY <1>2 DEF ReadIsFresh
<1>10. LedgerIsFresh(t)'
  <2>1. ledger'[t] = ledger[t] /\ files' = files /\ ~Writing(t)
    BY DEF Writing
  <2> QED BY <2>1 DEF FileInv, LedgerIsFresh, Key
<1> QED BY <1>6, <1>7, <1>8, <1>9, <1>10, OneTurnMoves

\* Planning keeps the invariant, whether the item is accepted or refused.
LEMMA PlanKeeps ==
  ASSUME FileInv, NEW t \in Turns, Plan(t)
  PROVE  FileInv'
<1> DEFINE c == call[t]
           op == c.request[Len(c.planned) + 1]
           Item(after) == [path |-> op.path, before |-> files[op.path].text, after |-> after]
<1>1. c.pc = "planning" /\ UNCHANGED <<files, ledger, known, bounds>> /\ CallShape(c)
  BY DEF Plan, FileInv, FileTypeOK
<1>0. c = Call(c.pc, c.request, c.view, c.planned, c.done)
  BY <1>1 DEF CallShape
<1>2. CASE End(t)
  <2>1. StepsAside(t) /\ FileTypeOK' /\ LocksHeld' /\ PlanStands(t)' /\ ReadIsFresh(t)'
    BY <1>1, <1>2, EndFacts DEF FileInv, FileTypeOK, bounds
  <2>2. LedgerIsFresh(t)'
    BY <1>1 DEF FileInv, LedgerIsFresh, Writing, Key
  <2> QED BY <2>1, <2>2, OneTurnMoves
<1>3. ASSUME NEW all, OneMorePlanned(t, all), Len(all) < Len(c.request),
             call' = [call EXCEPT ![t].planned = all], UNCHANGED locks
      PROVE  FileInv'
  <2>1. /\ DOMAIN call' = Turns /\ call'[t] = [c EXCEPT !.planned = all]
        /\ \A u \in Turns \ {t} : call'[u] = call[u]
    BY <1>3 DEF FileInv, FileTypeOK
  <2>2. [c EXCEPT !.planned = all] = Call(c.pc, c.request, c.view, all, c.done)
    <3> HIDE DEF c
    <3> QED BY <1>0, CallFields
  <2> QED BY <1>1, <1>3, <2>1, <2>2, PlannedKeeps
<1>4. ASSUME NEW all, OneMorePlanned(t, all), Len(all) = Len(c.request), Preflight(all),
             call' = [call EXCEPT ![t].planned = all, ![t].pc = "writing"], UNCHANGED locks
      PROVE  FileInv'
  <2>1. /\ DOMAIN call' = Turns /\ call'[t] = [c EXCEPT !.planned = all, !.pc = "writing"]
        /\ \A u \in Turns \ {t} : call'[u] = call[u]
    BY <1>4 DEF FileInv, FileTypeOK
  <2>2. call'[t] = Call("writing", c.request, c.view, all, c.done)
    <3> DEFINE d == call'[t]
    <3>1. DOMAIN c = CallFieldNames /\ c = [f \in CallFieldNames |-> c[f]]
      BY <1>0, CallOfFields
    <3> HIDE DEF c
    <3>2. DOMAIN d = CallFieldNames /\ d = [f \in CallFieldNames |-> d[f]]
      BY <2>1, <3>1 DEF CallFieldNames
    <3>3. d.pc = "writing" /\ d.request = c.request /\ d.view = c.view /\ d.planned = all /\ d.done = c.done
      BY <2>1, <3>1 DEF CallFieldNames
    <3> HIDE DEF d
    <3>4. d = Call(d.pc, d.request, d.view, d.planned, d.done)
      BY <3>2, CallOfFields
    <3> QED BY <3>3, <3>4 DEF d
  <2>3. /\ OneMorePlanned(t, all) /\ Len(all) = Len(c.request) /\ Preflight(all)
        /\ UNCHANGED <<files, locks, ledger, known, bounds>>
    BY <1>1, <1>4
  <2>4. DOMAIN call' = Turns /\ \A u \in Turns \ {t} : call'[u] = call[u]
    BY <2>1
  <2> QED BY <1>1, <2>2, <2>3, <2>4, PlannedKeeps
<1>5. ASSUME NEW after \in After(t, op) PROVE OneMorePlanned(t, Append(c.planned, Item(after)))
  <2>1. PICK S : c.planned \in Seq(S)
    BY <1>1 DEF CallShape
  <2>2. Item(after).path = op.path /\ Item(after).before = files[op.path].text
    OBVIOUS
  <2> DEFINE item == Item(after)
             all == Append(c.planned, item)
             n == Len(c.planned) + 1
  <2> HIDE DEF Item, item
  <2>3. /\ all \in Seq(S \cup {item}) /\ Len(all) = n
        /\ \A i \in 1..Len(c.planned) : all[i] = c.planned[i]
        /\ all[n] = item
    BY <2>1, Appended
  <2>4. all[n].path = op.path /\ all[n].before = files[op.path].text
    BY <2>2, <2>3 DEF item
  <2> HIDE DEF all
  <2>5. OneMorePlanned(t, all)
    BY <2>3, <2>4 DEF OneMorePlanned
  <2> QED BY <2>5 DEF all, item
<1>6. \/ End(t)
      \/ \E all : /\ OneMorePlanned(t, all)
                  /\ \/ /\ Len(all) < Len(c.request)
                        /\ call' = [call EXCEPT ![t].planned = all] /\ UNCHANGED locks
                     \/ /\ Len(all) = Len(c.request) /\ Preflight(all)
                        /\ call' = [call EXCEPT ![t].planned = all, ![t].pc = "writing"]
                        /\ UNCHANGED locks
  BY <1>5 DEF Plan
<1> QED BY <1>2, <1>3, <1>4, <1>6

\* What a write needs to know of the file it is about to write.
LEMMA NextItem ==
  ASSUME FileInv, NEW t \in Turns, call[t].pc = "writing"
  PROVE  LET c == call[t]
             n == c.done + 1
         IN /\ c.done \in Nat /\ n \in 1..Len(c.planned) /\ Len(c.planned) \in Nat
            /\ c.planned[n].path \in Paths /\ locks[c.planned[n].path] = t
            /\ Len(c.planned[n].after) <= MaxSize
            /\ \A i \in 1..Len(c.planned) : c.planned[i].path \in Paths
            /\ \A i \in 1..Len(c.planned) : i # n => c.planned[i].path # c.planned[n].path
<1> DEFINE c == call[t]
           n == c.done + 1
<1>1. CallShape(c) /\ c.request \in Requests /\ HasLocks(c) /\ Len(c.planned) = Len(c.request)
  BY DEF FileInv, FileTypeOK, CallShape, HasLocks
<1>2. c.done \in Nat /\ Len(c.planned) \in Nat /\ n \in 1..Len(c.planned)
  BY <1>1, RequestPaths DEF CallShape
<1>3. DOMAIN c.planned = 1..Len(c.planned)
  BY <1>1 DEF CallShape
<1>4. Len(c.planned[n].after) <= MaxSize
  BY <1>1, <1>2, <1>3 DEF CallShape, Preflight
<1>5. \A i \in 1..Len(c.planned) : c.planned[i].path = c.request[i].path
  BY <1>1 DEF CallShape
<1>6. \A i \in 1..Len(c.planned) : c.planned[i].path \in Paths
  BY <1>1, <1>5, RequestPaths
<1>7. \A i \in 1..Len(c.planned) : i # n => c.planned[i].path # c.planned[n].path
  BY <1>1, <1>2, <1>5, RequestPaths
<1>8. locks[c.planned[n].path] = t
  BY <1>1, <1>2, <1>5, RequestPaths DEF FileInv, LocksHeld
<1> QED BY <1>2, <1>4, <1>6, <1>7, <1>8

\* A write puts what was planned into a file that nobody else could write.
LEMMA WriteKeeps ==
  ASSUME FileInv, NEW t \in Turns, Write(t)
  PROVE  FileInv' /\ call'[t].pc = "verifying"
<1> DEFINE c == call[t]
           n == c.done + 1
           item == c.planned[n]
<1>1. c.pc = "writing" /\ CallShape(c) /\ Len(item.after) <= MaxSize
  BY NextItem DEF Write, FileInv, FileTypeOK
<1>2. /\ files' = [files EXCEPT ![item.path] = File(item.after, t)]
      /\ call' = [call EXCEPT ![t].done = @ + 1, ![t].pc = "verifying"]
      /\ UNCHANGED <<ledger, locks, known, bounds>>
  BY <1>1 DEF Write
<1>3. item.path \in Paths /\ locks[item.path] = t /\ n \in 1..Len(c.planned) /\ c.done \in Nat
  BY <1>1, NextItem
<1>4. /\ DOMAIN call' = Turns /\ call'[t] = [c EXCEPT !.done = n, !.pc = "verifying"]
      /\ \A u \in Turns \ {t} : call'[u] = call[u]
  BY <1>2 DEF FileInv, FileTypeOK
<1>5. call'[t] = Call("verifying", c.request, c.view, c.planned, n)
  <2> DEFINE d == call'[t]
  <2>1. DOMAIN c = CallFieldNames /\ c = [f \in CallFieldNames |-> c[f]]
    BY <1>1, CallOfFields DEF CallShape
  <2> HIDE DEF c, n
  <2>2. DOMAIN d = CallFieldNames /\ d = [f \in CallFieldNames |-> d[f]]
    BY <1>4, <2>1 DEF CallFieldNames
  <2>3. d.pc = "verifying" /\ d.request = c.request /\ d.view = c.view /\ d.planned = c.planned /\ d.done = n
    BY <1>4, <2>1 DEF CallFieldNames
  <2> HIDE DEF d
  <2>4. d = Call(d.pc, d.request, d.view, d.planned, d.done)
    BY <2>2, CallOfFields
  <2> QED BY <2>3, <2>4 DEF d
<1>6. /\ call'[t].pc = "verifying" /\ call'[t].request = c.request /\ call'[t].planned = c.planned
      /\ call'[t].done = n
  BY <1>5 DEF Call
<1>7. CallShape(call'[t])
  BY <1>1, <1>3, <1>5, <1>6 DEF CallShape, Call, Phases, HasLocks
<1>8. /\ DOMAIN files' = Paths /\ files'[item.path] = File(item.after, t)
      /\ \A p \in Paths \ {item.path} : files'[p] = files[p]
  BY <1>2, <1>3 DEF FileInv, FileTypeOK
<1>9. File(item.after, t).text = {item.after} /\ File(item.after, t).by = t
  BY DEF File
<1>10. FileTypeOK'
  BY <1>2, <1>4, <1>7, <1>8, <1>9 DEF FileInv, FileTypeOK, bounds
<1>11. StepsAside(t)
  BY <1>2, <1>3, <1>4, <1>8, <1>9 DEF StepsAside
<1>12. LocksHeld'
  BY <1>1, <1>2, <1>4, <1>6 DEF FileInv, FileTypeOK, LocksHeld, HasLocks
<1>13. PlanStands(t)'
  <2> SUFFICES ASSUME NEW i \in (n + 1)..Len(c.planned)
               PROVE  LET k == c.planned[i]
                      IN files'[k.path].text = k.before \/ files'[k.path].by = Nobody
    BY <1>6 DEF PlanStands
  <2>1. /\ c.planned[i].path \in Paths /\ c.planned[i].path # item.path
        /\ i \in (c.done + 1)..Len(c.planned)
    BY <1>1, <1>3, NextItem
  <2> QED BY <1>1, <1>8, <2>1 DEF FileInv, PlanStands, HasLocks
<1>14. ReadIsFresh(t)'
  BY <1>6 DEF ReadIsFresh
<1>15. LedgerIsFresh(t)'
  <2> DEFINE begun == {c.planned[k].path : k \in 1..n}
  <2>1. item.path \in begun /\ Started(t, c.done) \subseteq begun
    BY <1>3 DEF Started
  <2>2. Writing(t)' /\ ledger'[t] = ledger[t] /\ ~(call[t].pc = "verifying")
    BY <1>1, <1>2, <1>6 DEF Writing
  <2>3. Started(t, call[t].done)' = begun
    BY <1>6 DEF Started
  <2> SUFFICES ASSUME NEW e \in ledger[t], NEW p \in Paths, p # item.path,
                      e.key = Key([path |-> p, offset |-> e.key[2], limit |-> e.key[3]], files[p])
               PROVE  \/ e.text = files[p].text \/ files[p].by # t
                      \/ p \in begun
    BY <1>8, <2>1, <2>2, <2>3 DEF LedgerIsFresh, Key
  <2> QED BY <2>1 DEF FileInv, LedgerIsFresh
<1> QED BY <1>6, <1>10, <1>11, <1>12, <1>13, <1>14, <1>15, OneTurnMoves

\* A write that fails ends the call.
LEMMA WriteFailsKeeps ==
  ASSUME FileInv, NEW t \in Turns, WriteFails(t)
  PROVE  FileInv'
<1>1. call[t].done + 1 \in Nat /\ call[t].done <= call[t].done + 1
  BY NextItem DEF WriteFails
<1>2. mishaps' \in Nat /\ files' = files /\ Writing(t) /\ Fail(t, call[t].done + 1)
  BY DEF WriteFails, Writing, FileInv, FileTypeOK
<1> QED BY <1>1, <1>2, FailFacts

\* Verifying a write enters it into the ledger, or ends the call.
LEMMA VerifyKeeps ==
  ASSUME FileInv, NEW t \in Turns, Verify(t)
  PROVE  FileInv'
<1> DEFINE c == call[t]
<1>1. /\ c.pc = "verifying" /\ CallShape(c) /\ c.done \in 1..Len(c.planned) /\ c.done \in Nat
      /\ UNCHANGED <<files, bounds>>
  BY DEF Verify, FileInv, FileTypeOK, CallShape
<1>2. CASE Fail(t, c.done)
  <2>1. Writing(t) /\ files' = files /\ mishaps' \in Nat /\ c.done <= c.done
    BY <1>1 DEF Writing, FileInv, FileTypeOK, bounds
  <2> QED BY <1>1, <1>2, <2>1, FailFacts
<1>3. CASE /\ c.done < Len(c.planned) /\ call' = [call EXCEPT ![t].pc = "writing"]
           /\ UNCHANGED <<ledger, locks, known>>
  <2>1. /\ DOMAIN call' = Turns /\ call'[t] = Call("writing", c.request, c.view, c.planned, c.done)
        /\ \A u \in Turns \ {t} : call'[u] = call[u]
    BY <1>1, <1>3, CallFields DEF FileInv, FileTypeOK, CallShape
  <2>2. /\ call'[t].pc = "writing" /\ call'[t].request = c.request /\ call'[t].planned = c.planned
        /\ call'[t].done = c.done
    BY <2>1 DEF Call
  <2>3. CallShape(call'[t])
    BY <1>1, <1>3, <2>1, <2>2 DEF CallShape, Call, Phases, HasLocks
  <2>4. FileTypeOK' /\ StepsAside(t)
    BY <1>1, <1>3, <2>1, <2>3 DEF FileInv, FileTypeOK, StepsAside, bounds
  <2>5. LocksHeld'
    BY <1>1, <1>3, <2>1, <2>2 DEF FileInv, FileTypeOK, LocksHeld, HasLocks
  <2>6. PlanStands(t)'
    BY <1>1, <2>2 DEF FileInv, PlanStands, HasLocks
  <2>7. ReadIsFresh(t)'
    BY <2>2 DEF ReadIsFresh
  <2>8. LedgerIsFresh(t)'
    <3>1. Writing(t)' /\ Started(t, c.done)' = Started(t, c.done) /\ ledger' = ledger
      BY <1>3, <2>2 DEF Writing, Started
    <3> QED BY <1>1, <2>2, <3>1 DEF FileInv, LedgerIsFresh, Key, Started
  <2> QED BY <2>4, <2>5, <2>6, <2>7, <2>8, OneTurnMoves
<1> QED BY <1>1, <1>2, <1>3 DEF Verify

\* Other programs, and time.
LEMMA WorldKeeps ==
  ASSUME FileInv, Tick \/ OtherWrites
  PROVE  FileInv'
<1>1. UNCHANGED <<locks, ledger, known, call, mishaps>>
  BY DEF Tick, OtherWrites
<1>2. /\ DOMAIN files' = Paths
      /\ \A p \in Paths : \/ files'[p] = files[p]
                          \/ files'[p] = NoFile \/ \E x \in OtherTexts : files'[p] = File(x, Nobody)
  <2>1. CASE Tick
    BY <2>1 DEF Tick, FileInv, FileTypeOK
  <2>2. CASE OtherWrites
    BY <2>2 DEF OtherWrites, FileInv, FileTypeOK
  <2> QED BY <2>1, <2>2
<1>3. NoFile.text = {} /\ NoFile.by = Nobody
  BY DEF NoFile
<1>4. ASSUME NEW x PROVE File(x, Nobody).text = {x} /\ File(x, Nobody).by = Nobody
  BY DEF File
<1>5. \A p \in Paths : files'[p] = files[p] \/ files'[p].by = Nobody
  BY <1>2, <1>3, <1>4
<1>6. FileTypeOK'
  <2>1. ASSUME NEW p \in Paths PROVE files'[p].text = {} \/ \E x : files'[p].text = {x}
    <3>1. CASE files'[p] = files[p]
      BY <3>1 DEF FileInv, FileTypeOK
    <3>2. CASE files'[p] = NoFile
      BY <3>2, <1>3
    <3>3. ASSUME NEW x, files'[p] = File(x, Nobody) PROVE files'[p].text = {x}
      BY <3>3, <1>4
    <3> QED BY <1>2, <3>1, <3>2, <3>3
  <2> QED BY <1>1, <1>2, <2>1 DEF FileInv, FileTypeOK
<1>7. LocksHeld'
  BY <1>1 DEF FileInv, LocksHeld
<1>8. ASSUME NEW u \in Turns PROVE PlanStands(u)' /\ ReadIsFresh(u)' /\ LedgerIsFresh(u)'
  <2>1. StepsAside(Nobody) /\ u # Nobody
    BY <1>1, <1>5, FileAssumption DEF StepsAside
  <2> QED BY <2>1, OthersKept
<1> QED BY <1>6, <1>7, <1>8 DEF FileInv

\* At the start nothing is planned and nothing locked.
LEMMA FileInvInit == FileInit => FileInv
<1> SUFFICES ASSUME FileInit PROVE FileInv
  OBVIOUS
<1>1. CallShape(NoCall) /\ NoCall.pc = "idle"
  <2>1. <<>> \in Seq({})
    OBVIOUS
  <2> QED BY <2>1 DEF CallShape, NoCall, Call, Phases, HasLocks
<1>2. \A t \in Turns : call[t] = NoCall
  BY DEF FileInit
<1>3. FileTypeOK
  <2>1. \A p \in Paths : files[p] = NoFile \/ \E x : files[p] = [text |-> {x}, time |-> 0, by |-> Nobody]
    BY DEF FileInit
  <2>2. ASSUME NEW p \in Paths PROVE files[p].text = {} \/ \E x : files[p].text = {x}
    <3>1. CASE files[p] = NoFile
      BY <3>1 DEF NoFile
    <3>2. ASSUME NEW x, files[p] = [text |-> {x}, time |-> 0, by |-> Nobody] PROVE files[p].text = {x}
      BY <3>2
    <3> QED BY <2>1, <3>1, <3>2
  <2> QED BY <1>1, <2>2 DEF FileInit, FileTypeOK
<1>4. LocksHeld
  BY <1>1, <1>2 DEF FileInit, LocksHeld, HasLocks
<1>5. \A t \in Turns : PlanStands(t) /\ ReadIsFresh(t) /\ LedgerIsFresh(t)
  BY <1>1, <1>2 DEF FileInit, PlanStands, ReadIsFresh, LedgerIsFresh, HasLocks
<1> QED BY <1>3, <1>4, <1>5 DEF FileInv

\* Every step keeps the invariant.
LEMMA FileInvNext == FileInv /\ [FileNext]_fileVars => FileInv'
<1> SUFFICES ASSUME FileInv, [FileNext]_fileVars PROVE FileInv'
  OBVIOUS
<1>1. CASE UNCHANGED fileVars
  BY <1>1 DEF fileVars, FileInv, FileTypeOK, LocksHeld, PlanStands, ReadIsFresh, LedgerIsFresh,
              Writing, Started, Key
<1>2. CASE Tick \/ OtherWrites
  BY <1>2, WorldKeeps
<1>3. ASSUME NEW t \in Turns, ReadBytes(t) \/ StartWrite(t) \/ Work(t) \/ NewTurn(t)
      PROVE  FileInv'
  BY <1>3, ReadBytesKeeps, StartWriteKeeps, NewTurnKeeps, AnswerReadKeeps, LockNextPathKeeps,
     LockedKeeps, PlanKeeps, WriteKeeps, WriteFailsKeeps, VerifyKeeps DEF Work
<1> QED BY <1>1, <1>2, <1>3 DEF FileNext

\* The invariant holds of every behaviour.
LEMMA FileInvAlways == FileSpec => []FileInv
BY FileInvInit, FileInvNext, PTL DEF FileSpec

\* No turn replaces what another turn has written since it read.
THEOREM NoTurnOverwrittenHolds == FileSpec => []NoTurnOverwritten
<1>1. FileInv => NoTurnOverwritten
  BY DEF FileInv, PlanStands, NoTurnOverwritten, Writing, HasLocks
<1> QED BY <1>1, FileInvAlways, PTL

\* The ledger never answers with what a turn has itself replaced.
THEOREM OwnWritesAreSeenHolds == FileSpec => []OwnWritesAreSeen
<1>1. FileInv => OwnWritesAreSeen
  BY DEF FileInv, LedgerIsFresh, OwnWritesAreSeen, Writing, NoCall, Call
<1> QED BY <1>1, FileInvAlways, PTL

\* A call that has written ends badly only when a write fails.
THEOREM AllOrNothingHolds == FileSpec => AllOrNothing
<1>1. FileInv /\ [FileNext]_fileVars =>
        [\A t \in Turns :
           (call[t].pc = "writing" /\ call[t].done > 0 /\ call'[t] = NoCall) => mishaps' > mishaps]_fileVars
  <2> SUFFICES ASSUME FileInv, FileNext, NEW t \in Turns, call[t].pc = "writing", call'[t] = NoCall
               PROVE  mishaps' > mishaps
    BY DEF fileVars
  <2>1. call'[t] # call[t]
    BY DEF NoCall, Call
  <2>2. ~(Tick \/ OtherWrites)
    BY <2>1 DEF Tick, OtherWrites
  <2>3. PICK u \in Turns : ReadBytes(u) \/ StartWrite(u) \/ Work(u) \/ NewTurn(u)
    BY <2>2 DEF FileNext
  <2>4. u = t
    BY <2>1, <2>3 DEF FileInv, FileTypeOK, ReadBytes, StartWrite, StartCall, NewTurn, Work, AnswerRead,
                      LockNextPath, Locked, Plan, End, Write, WriteFails, Verify, Fail
  <2>5. ~Write(t)
    <3>1. NoCall.pc # "verifying"
      BY DEF NoCall, Call
    <3> QED BY <3>1, WriteKeeps
  <2>6. WriteFails(t)
    <3>1. call[t] # NoCall
      BY DEF NoCall, Call
    <3> QED BY <2>1, <2>3, <2>4, <2>5, <3>1
            DEF ReadBytes, StartWrite, StartCall, NewTurn, Work, AnswerRead, LockNextPath, Locked, Plan, Verify
  <2> QED BY <2>6 DEF WriteFails, FileInv, FileTypeOK
<1> QED BY <1>1, FileInvAlways, PTL DEF FileSpec, AllOrNothing

-----------------------------------------------------------------------------
(***************************************************************************)
(* FileEdits: what the edits of a call make of a text of any length.  What  *)
(* a recursive function computes is shown in three steps: values that       *)
(* follow its equations exist (ChainUp, ChainDown, JumpsExist), so that the *)
(* function follows them, and what they are is shown by counting up.        *)
(* Conclusions with long sequences are named (Regrouped, Grouped,           *)
(* SplicesTo, TwoAround, PlacesSplit) and cited by name.                    *)
(***************************************************************************)

\* What holds of zero and of the next number holds of all.
LEMMA CountUp ==
  ASSUME NEW S, 0 \in S, \A n \in Nat : n \in S => n + 1 \in S
  PROVE  Nat \subseteq S
<1> SUFFICES ASSUME Nat \ S # {} PROVE FALSE
  OBVIOUS
<1>1. PICK m \in Nat \ S : \A k \in Nat \ S : m <= k
  BY LeastElement
<1>2. m - 1 \in Nat /\ m - 1 \notin Nat \ S
  BY <1>1
<1> QED BY <1>1, <1>2

\* Each value is made of those where a rank is less.
MadeOfLess(D, Val, r, top, step) ==
  /\ Val # {} /\ r \in [D -> Nat] /\ top \in Nat /\ \A x \in D : r[x] < top
  /\ step \in [D -> [[D -> Val] -> Val]]
  /\ \A x \in D : \A u, v \in [D -> Val] :
       (\A y \in D : r[y] < r[x] => u[y] = v[y]) => step[x][u] = step[x][v]

\* A function may be defined so.
LEMMA RecursionExists ==
  ASSUME NEW D, NEW Val, NEW r, NEW top, NEW step, MadeOfLess(D, Val, r, top, step)
  PROVE  \E g \in [D -> Val] : \A x \in D : g[x] = step[x][g]
<1>0. /\ Val # {} /\ r \in [D -> Nat] /\ top \in Nat /\ \A x \in D : r[x] \in Nat /\ r[x] < top
      /\ step \in [D -> [[D -> Val] -> Val]]
  BY DEF MadeOfLess
<1>9. \A x \in D : \A u, v \in [D -> Val] :
        (\A y \in D : r[y] < r[x] => u[y] = v[y]) => step[x][u] = step[x][v]
  BY DEF MadeOfLess
<1> DEFINE Right(n) == {g \in [D -> Val] : \A x \in D : r[x] < n => g[x] = step[x][g]}
           Good == {n \in Nat : Right(n) # {}}
<1>1. 0 \in Good
  <2>1. PICK v \in Val : TRUE
    BY <1>0
  <2>2. [x \in D |-> v] \in [D -> Val] /\ \A x \in D : ~(r[x] < 0)
    BY <1>0
  <2>3. [x \in D |-> v] \in Right(0)
    BY <2>2
  <2> QED BY <2>3
<1>2. ASSUME NEW n \in Nat, n \in Good PROVE n + 1 \in Good
  <2>1. PICK g \in [D -> Val] : \A x \in D : r[x] < n => g[x] = step[x][g]
    BY <1>2
  <2> DEFINE h == [x \in D |-> IF r[x] = n THEN step[x][g] ELSE g[x]]
  <2>2. h \in [D -> Val]
    BY <1>0
  <2>3. \A y \in D : r[y] < n => h[y] = g[y]
    BY <1>0
  <2>4. \A y \in D : r[y] = n => h[y] = step[y][g]
    OBVIOUS
  <2> HIDE DEF h
  <2>5. ASSUME NEW x \in D, r[x] < n + 1 PROVE h[x] = step[x][h]
    <3>1. r[x] < n \/ r[x] = n
      <4>1. \A k \in Nat : k < n + 1 => k < n \/ k = n
        OBVIOUS
      <4> QED BY <1>0, <2>5, <4>1
    <3>2. \A y \in D : r[y] < r[x] => g[y] = h[y]
      BY <1>0, <2>3, <3>1
    <3>3. step[x][g] = step[x][h]
      BY <1>9, <2>2, <3>2
    <3> QED BY <2>1, <2>3, <2>4, <3>1, <3>3
  <2>6. h \in Right(n + 1)
    BY <2>2, <2>5
  <2> QED BY <2>6
<1> HIDE DEF Good
<1>3. top \in Good
  BY <1>0, <1>1, <1>2, CountUp
<1> QED BY <1>0, <1>3 DEF Good

-----------------------------------------------------------------------------
\* From one up to n, each value made of the one before.
MadeOfLast(n, Val, base, step) == n \in Nat /\ base \in Val /\ step \in [1..n -> [Val -> Val]]

\* Such values exist.
LEMMA ChainUp ==
  ASSUME NEW n, NEW Val, NEW base, NEW step, MadeOfLast(n, Val, base, step)
  PROVE  \E g \in [0..n -> Val] : g[0] = base /\ \A i \in 1..n : g[i] = step[i][g[i - 1]]
<1>0. n \in Nat /\ base \in Val /\ step \in [1..n -> [Val -> Val]]
  BY DEF MadeOfLast
<1> DEFINE r == [i \in 0..n |-> i]
           all == [i \in 0..n |-> [g \in [0..n -> Val] |-> IF i = 0 THEN base ELSE step[i][g[i - 1]]]]
<1>1. r \in [0..n -> Nat] /\ \A i \in 0..n : r[i] < n + 1 /\ r[i] = i
  BY <1>0
<1>2. all \in [0..n -> [[0..n -> Val] -> Val]]
  <2>1. ASSUME NEW i \in 0..n, NEW g \in [0..n -> Val]
        PROVE  (IF i = 0 THEN base ELSE step[i][g[i - 1]]) \in Val
    <3>1. i # 0 => i \in 1..n /\ i - 1 \in 0..n
      BY <1>0
    <3> QED BY <1>0, <3>1
  <2> QED BY <2>1
<1>3. ASSUME NEW i \in 0..n, NEW u \in [0..n -> Val], NEW v \in [0..n -> Val],
             \A y \in 0..n : y < i => u[y] = v[y]
      PROVE  all[i][u] = all[i][v]
  <2>1. i # 0 => i - 1 \in 0..n /\ i - 1 < i
    BY <1>0
  <2> QED BY <1>0, <1>3, <2>1
<1>4. \A i \in 0..n : \A g \in [0..n -> Val] : all[i][g] = IF i = 0 THEN base ELSE step[i][g[i - 1]]
  OBVIOUS
<1> HIDE DEF r, all
<1>5. \A i \in 0..n : \A u, v \in [0..n -> Val] :
        (\A y \in 0..n : r[y] < r[i] => u[y] = v[y]) => all[i][u] = all[i][v]
  BY <1>0, <1>1, <1>3
<1> DEFINE D == 0..n
           top == n + 1
<1>6. Val # {} /\ top \in Nat /\ \A i \in D : r[i] < top
  BY <1>0, <1>1
<1>9. \E g \in [D -> Val] : \A i \in D : g[i] = all[i][g]
  <2> HIDE DEF D, top
  <2>1. MadeOfLess(D, Val, r, top, all)
    BY <1>1, <1>2, <1>5, <1>6 DEF MadeOfLess, D
  <2> QED BY <2>1, RecursionExists
<1>7. PICK g \in [0..n -> Val] : \A i \in 0..n : g[i] = IF i = 0 THEN base ELSE step[i][g[i - 1]]
  BY <1>0, <1>4, <1>9
<1>8. g[0] = base /\ \A i \in 1..n : g[i] = step[i][g[i - 1]]
  BY <1>0, <1>7
<1> QED BY <1>8

\* From n + 1 down to one, each value made of those after it.
MadeOfNext(n, Val, base, step) ==
  /\ n \in Nat /\ base \in Val
  /\ step \in [1..n -> [[1..(n + 1) -> Val] -> Val]]
  /\ \A i \in 1..n : \A u, v \in [1..(n + 1) -> Val] :
       (\A y \in 1..(n + 1) : y > i => u[y] = v[y]) => step[i][u] = step[i][v]

\* Such values exist.
LEMMA ChainDown ==
  ASSUME NEW n, NEW Val, NEW base, NEW step, MadeOfNext(n, Val, base, step)
  PROVE  \E g \in [1..(n + 1) -> Val] : g[n + 1] = base /\ \A i \in 1..n : g[i] = step[i][g]
<1>0. n \in Nat /\ base \in Val /\ step \in [1..n -> [[1..(n + 1) -> Val] -> Val]]
  BY DEF MadeOfNext
<1> DEFINE D == 1..(n + 1)
           r == [i \in D |-> n + 1 - i]
           all == [i \in D |-> [g \in [D -> Val] |-> IF i = n + 1 THEN base ELSE step[i][g]]]
<1>10. \A i \in 1..n : \A u, v \in [D -> Val] :
         (\A y \in D : y > i => u[y] = v[y]) => step[i][u] = step[i][v]
  BY DEF MadeOfNext
<1>1. r \in [D -> Nat] /\ \A i \in D : r[i] < n + 1 /\ r[i] = n + 1 - i
  BY <1>0
<1>2. all \in [D -> [[D -> Val] -> Val]]
  <2>1. ASSUME NEW i \in D, NEW g \in [D -> Val]
        PROVE  (IF i = n + 1 THEN base ELSE step[i][g]) \in Val
    <3>1. i # n + 1 => i \in 1..n
      BY <1>0
    <3> QED BY <1>0, <3>1
  <2> QED BY <2>1
<1>3. \A i \in D : \A g \in [D -> Val] : all[i][g] = IF i = n + 1 THEN base ELSE step[i][g]
  OBVIOUS
<1> HIDE DEF r, all
<1>4. ASSUME NEW i \in D, NEW u \in [D -> Val], NEW v \in [D -> Val],
             \A y \in D : r[y] < r[i] => u[y] = v[y]
      PROVE  all[i][u] = all[i][v]
  <2>1. \A y \in D : y > i => u[y] = v[y]
    BY <1>0, <1>1, <1>4
  <2>2. i # n + 1 => i \in 1..n
    BY <1>0
  <2> QED BY <1>0, <1>3, <1>10, <2>1, <2>2
<1>5. \A i \in D : \A u, v \in [D -> Val] :
        (\A y \in D : r[y] < r[i] => u[y] = v[y]) => all[i][u] = all[i][v]
  BY <1>4
<1> DEFINE top == n + 1
<1>6. Val # {} /\ top \in Nat /\ \A i \in D : r[i] < top
  BY <1>0, <1>1
<1>9. \E g \in [D -> Val] : \A i \in D : g[i] = all[i][g]
  <2> HIDE DEF D, top
  <2>1. MadeOfLess(D, Val, r, top, all)
    BY <1>1, <1>2, <1>5, <1>6 DEF MadeOfLess
  <2> QED BY <2>1, RecursionExists
<1>7. PICK g \in [D -> Val] : \A i \in D : g[i] = IF i = n + 1 THEN base ELSE step[i][g]
  BY <1>3, <1>9
<1>8. g[n + 1] = base /\ \A i \in 1..n : g[i] = step[i][g]
  BY <1>0, <1>7
<1> QED BY <1>8

-----------------------------------------------------------------------------
\* g[i] is what the first i lines are together.
Joins(s, g, S) ==
  g \in [0..Len(s) -> Seq(S)] /\ g[0] = <<>> /\ \A i \in 1..Len(s) : g[i] = g[i - 1] \o s[i]

\* They exist.
LEMMA JoinsExists ==
  ASSUME NEW S, NEW s \in Seq(Seq(S))
  PROVE  \E g : Joins(s, g, S)
<1> DEFINE n == Len(s)
           Val == Seq(S)
           step == [i \in 1..n |-> [v \in Val |-> v \o s[i]]]
<1>1. n \in Nat /\ <<>> \in Val /\ \A i \in 1..n : s[i] \in Val
  BY ElementOfSeq, LenProperties, EmptySeq
<1>2. \A i \in 1..n : \A v \in Val : v \o s[i] \in Val
  BY <1>1, ConcatProperties
<1>3. step \in [1..n -> [Val -> Val]]
  BY <1>2
<1>4. \A i \in 1..n : \A v \in Val : step[i][v] = v \o s[i]
  OBVIOUS
<1> DEFINE base == <<>>
<1>9. base \in Val
  BY <1>1
<1> HIDE DEF step, n, Val
<1>5. PICK g \in [0..n -> Val] : g[0] = <<>> /\ \A i \in 1..n : g[i] = step[i][g[i - 1]]
  <2>1. \E g \in [0..n -> Val] : g[0] = base /\ \A i \in 1..n : g[i] = step[i][g[i - 1]]
    <3> HIDE DEF base
    <3>1. MadeOfLast(n, Val, base, step)
      BY <1>1, <1>3, <1>9 DEF MadeOfLast
    <3> QED BY <3>1, ChainUp
  <2> QED BY <2>1
<1>6. \A i \in 1..n : g[i - 1] \in Val
  BY <1>1
<1>7. \A i \in 1..n : g[i] = g[i - 1] \o s[i]
  BY <1>4, <1>5, <1>6
<1>8. Joins(s, g, S)
  BY <1>5, <1>7 DEF Joins, n, Val
<1> QED BY <1>8

\* The last of them is what Joined() computes.
LEMMA JoinedIs ==
  ASSUME NEW S, NEW s \in Seq(Seq(S)), NEW g, Joins(s, g, S)
  PROVE  Joined(s) = g[Len(s)] /\ Joined(s) \in Seq(S)
<1> DEFINE n == Len(s)
<1>1. n \in Nat /\ \A i \in 1..n : s[i] \in Seq(S)
  BY ElementOfSeq, LenProperties
<1>2. g \in [0..n -> Seq(S)] /\ g[0] = <<>> /\ \A i \in 1..n : g[i] = g[i - 1] \o s[i]
  BY DEF Joins
<1>3. CASE n = 0
  <2>1. s = <<>>
    BY <1>3, EmptySeq
  <2>2. Joined(s) = s
    BY <1>3 DEF Joined, FlattenSeq
  <2> QED BY <1>2, <1>3, <2>1, <2>2
<1>4. CASE n # 0
  <2> DEFINE Once(f) == [i \in 1..Len(s) |-> IF i = 1 THEN s[i] ELSE f[i - 1] \o s[i]]
             it == CHOOSE f : f = Once(f)
  <2>1. Joined(s) = it[Len(s)]
    BY <1>4 DEF Joined, FlattenSeq
  <2> DEFINE h == [i \in 1..Len(s) |-> g[i]]
  <2>2. \A i \in 1..n : g[i] = IF i = 1 THEN s[i] ELSE g[i - 1] \o s[i]
    <3>1. g[1] = s[1]
      <4> DEFINE x == s[1]
      <4>1. 1 \in 1..n /\ 1 - 1 = 0
        BY <1>1, <1>4
      <4>2. g[1] = <<>> \o x /\ x \in Seq(S)
        BY <1>1, <1>2, <4>1
      <4> HIDE DEF x
      <4>3. <<>> \o x = x
        BY <4>2, ConcatEmptySeq
      <4>4. g[1] = x
        BY <4>2, <4>3
      <4> QED BY <4>4 DEF x
    <3> QED BY <1>2, <3>1
  <2>3. \A i \in 1..n : i # 1 => i - 1 \in 1..n
    BY <1>1
  <2>4. h = Once(h)
    BY <2>2, <2>3
  <2>5. it = Once(it)
    <3> HIDE DEF Once, h
    <3> QED BY <2>4
  <2>6. \A i \in 1..n : it[i] = IF i = 1 THEN s[i] ELSE it[i - 1] \o s[i]
    <3> HIDE DEF it
    <3> QED BY <2>5
  <2> HIDE DEF it, Once, h
  <2> DEFINE Good == {k \in Nat : k \in 1..n => it[k] = g[k]}
  <2>7. 0 \in Good
    OBVIOUS
  <2>8. ASSUME NEW k \in Nat, k \in Good PROVE k + 1 \in Good
    <3>1. ASSUME k + 1 \in 1..n, k # 0 PROVE it[k + 1] = g[k + 1]
      <4>1. k \in 1..n /\ k + 1 # 1 /\ (k + 1) - 1 = k
        BY <1>1, <3>1
      <4>2. it[k + 1] = it[k] \o s[k + 1] /\ g[k + 1] = g[k] \o s[k + 1]
        BY <2>2, <2>6, <3>1, <4>1
      <4> QED BY <2>8, <4>1, <4>2
    <3>2. ASSUME k + 1 \in 1..n, k = 0 PROVE it[k + 1] = g[k + 1]
      BY <2>2, <2>6, <3>2
    <3> QED BY <3>1, <3>2
  <2> HIDE DEF Good
  <2>9. n \in Good
    BY <1>1, <2>7, <2>8, CountUp
  <2>10. it[n] = g[n]
    BY <1>1, <1>4, <2>9 DEF Good
  <2> QED BY <1>1, <1>2, <2>1, <2>10
<1> QED BY <1>3, <1>4

\* Lines are joined to a text, and one line to itself.
LEMMA JoinedFacts ==
  ASSUME NEW S
  PROVE  /\ \A s \in Seq(Seq(S)) : Joined(s) \in Seq(S)
         /\ Joined(<<>>) = <<>>
         /\ \A x \in Seq(S) : Joined(<<x>>) = x
<1>1. \A s \in Seq(Seq(S)) : Joined(s) \in Seq(S)
  BY JoinsExists, JoinedIs
<1>2. Joined(<<>>) = <<>>
  BY EmptySeq DEF Joined, FlattenSeq
<1>3. ASSUME NEW x \in Seq(S) PROVE Joined(<<x>>) = x
  <2> DEFINE g == [i \in 0..1 |-> IF i = 0 THEN <<>> ELSE x]
  <2>1. <<x>> \in Seq(Seq(S)) /\ Len(<<x>>) = 1 /\ <<x>>[1] = x /\ <<>> \in Seq(S)
    BY EmptySeq
  <2>2. g \in [0..1 -> Seq(S)] /\ g[0] = <<>> /\ g[1] = x
    BY <2>1
  <2>3. g[1] = g[0] \o x
    BY <2>2, ConcatEmptySeq
  <2> HIDE DEF g
  <2>4. \A i \in 1..1 : g[i] = g[i - 1] \o <<x>>[i]
    BY <2>1, <2>3
  <2>5. Joins(<<x>>, g, S)
    BY <2>1, <2>2, <2>4 DEF Joins
  <2> QED BY <2>1, <2>2, <2>5, JoinedIs
<1> QED BY <1>1, <1>2, <1>3

\* Joining goes part by part.
LEMMA JoinedConcat ==
  ASSUME NEW S, NEW s \in Seq(Seq(S)), NEW t \in Seq(Seq(S))
  PROVE  Joined(s \o t) = Joined(s) \o Joined(t)
<1>1. PICK a : Joins(s, a, S)
  BY JoinsExists
<1>2. PICK b : Joins(t, b, S)
  BY JoinsExists
<1> DEFINE m == Len(s)
           n == Len(t)
           x == a[m]
           g == [i \in 0..(m + n) |-> IF i <= m THEN a[i] ELSE x \o b[i - m]]
<1>3. m \in Nat /\ n \in Nat
  BY LenProperties
<1>4. s \o t \in Seq(Seq(S)) /\ Len(s \o t) = m + n
  BY ConcatProperties
<1>5. \A i \in 1..(m + n) : (s \o t)[i] = IF i <= m THEN s[i] ELSE t[i - m]
  BY ConcatProperties
<1>6. a \in [0..m -> Seq(S)] /\ a[0] = <<>> /\ \A i \in 1..m : a[i] = a[i - 1] \o s[i]
  BY <1>1 DEF Joins
<1>7. b \in [0..n -> Seq(S)] /\ b[0] = <<>> /\ \A i \in 1..n : b[i] = b[i - 1] \o t[i]
  BY <1>2 DEF Joins
<1>8. x \in Seq(S) /\ \A i \in 1..n : t[i] \in Seq(S)
  BY <1>3, <1>6, ElementOfSeq
<1> HIDE DEF m, n, x
<1>9. \A i \in 0..n : x \o b[i] \in Seq(S)
  BY <1>7, <1>8, ConcatProperties
<1>10. g \in [0..(m + n) -> Seq(S)]
  <2>1. ASSUME NEW i \in 0..(m + n) PROVE (IF i <= m THEN a[i] ELSE x \o b[i - m]) \in Seq(S)
    <3>1. CASE i <= m
      BY <1>3, <1>6, <3>1
    <3>2. CASE ~(i <= m)
      <4>1. i - m \in 0..n
        BY <1>3, <3>2
      <4> QED BY <1>9, <3>2, <4>1
    <3> QED BY <3>1, <3>2
  <2> QED BY <2>1
<1>11. \A i \in 0..(m + n) : g[i] = IF i <= m THEN a[i] ELSE x \o b[i - m]
  OBVIOUS
<1> HIDE DEF g
<1>12. g[0] = <<>>
  BY <1>3, <1>6, <1>11
<1>13. g[m] = x
  BY <1>3, <1>11 DEF x
<1>14. ASSUME NEW i \in 1..(m + n) PROVE g[i] = g[i - 1] \o (s \o t)[i]
  <2>1. CASE i <= m
    <3>1. i \in 1..m /\ i - 1 \in 0..(m + n) /\ i - 1 <= m /\ i \in 0..(m + n)
      BY <1>3, <2>1
    <3> QED BY <1>5, <1>6, <1>11, <2>1, <3>1
  <2>2. CASE i > m
    <3>1. /\ i - m \in 1..n /\ (i - m) - 1 \in 0..n /\ i \in 0..(m + n) /\ ~(i <= m)
          /\ i - 1 \in 0..(m + n) /\ (i - 1) - m = (i - m) - 1
      BY <1>3, <2>2
    <3>2. g[i] = x \o b[i - m] /\ b[i - m] = b[(i - m) - 1] \o t[i - m] /\ (s \o t)[i] = t[i - m]
      BY <1>5, <1>7, <1>11, <3>1
    <3>3. g[i - 1] = x \o b[(i - m) - 1]
      <4>1. CASE i - 1 <= m
        <5>1. i - 1 = m /\ (i - m) - 1 = 0
          BY <1>3, <2>2, <4>1
        <5> QED BY <1>7, <1>8, <1>13, <5>1, ConcatEmptySeq
      <4>2. CASE ~(i - 1 <= m)
        BY <1>11, <3>1, <4>2
      <4> QED BY <4>1, <4>2
    <3>4. b[(i - m) - 1] \in Seq(S) /\ t[i - m] \in Seq(S)
      BY <1>7, <1>8, <3>1
    <3>5. (x \o b[(i - m) - 1]) \o t[i - m] = x \o (b[(i - m) - 1] \o t[i - m])
      <4>1. \A u, v \in Seq(S) : (x \o u) \o v = x \o (u \o v)
        BY <1>8, ConcatAssociative
      <4> QED BY <3>4, <4>1
    <3> DEFINE u == b[(i - m) - 1]
               v == t[i - m]
               w == (s \o t)[i]
    <3>6. g[i] = x \o (u \o v) /\ w = v
      BY <3>2
    <3>7. g[i - 1] = x \o u /\ (x \o u) \o v = x \o (u \o v)
      BY <3>3, <3>5
    <3>8. g[i] = g[i - 1] \o w
      <4> HIDE DEF u, v, w
      <4> QED BY <3>6, <3>7
    <3> QED BY <3>8
  <2>3. i <= m \/ i > m
    BY <1>3
  <2> QED BY <2>1, <2>2, <2>3
<1>15. Joins(s \o t, g, S)
  BY <1>4, <1>10, <1>12, <1>14 DEF Joins
<1>16. Joined(s \o t) = g[m + n]
  BY <1>4, <1>15, JoinedIs
<1>17. Joined(s) = x /\ Joined(t) = b[n]
  BY <1>1, <1>2, JoinedIs DEF m, n, x
<1>18. g[m + n] = x \o b[n]
  <2>1. CASE n = 0
    BY <1>3, <1>7, <1>8, <1>13, <2>1, ConcatEmptySeq
  <2>2. CASE n # 0
    <3>1. m + n \in 0..(m + n) /\ ~(m + n <= m) /\ (m + n) - m = n
      BY <1>3, <2>2
    <3> QED BY <1>11, <3>1
  <2> QED BY <2>1, <2>2
<1> QED BY <1>16, <1>17, <1>18

-----------------------------------------------------------------------------
\* One more line, or one more atom of the last line.
LEMMA JoinedLonger ==
  ASSUME NEW S, NEW v \in Seq(Seq(S)), NEW a \in S
  PROVE  /\ \A l \in Seq(S) : Append(v, l) \in Seq(Seq(S)) /\ Joined(Append(v, l)) = Joined(v) \o l
         /\ [v EXCEPT ![Len(v)] = Append(@, a)] \in Seq(Seq(S))
         /\ Len([v EXCEPT ![Len(v)] = Append(@, a)]) = Len(v)
         /\ v # <<>> => Joined([v EXCEPT ![Len(v)] = Append(@, a)]) = Joined(v) \o <<a>>
<1>1. ASSUME NEW u \in Seq(Seq(S)), NEW l \in Seq(S)
      PROVE  Append(u, l) \in Seq(Seq(S)) /\ Joined(Append(u, l)) = Joined(u) \o l
  <2>1. Append(u, l) \in Seq(Seq(S)) /\ Append(u, l) = u \o <<l>> /\ <<l>> \in Seq(Seq(S))
    BY AppendProperties, AppendIsConcat
  <2>2. Joined(u \o <<l>>) = Joined(u) \o Joined(<<l>>)
    BY <2>1, JoinedConcat
  <2>3. Joined(<<l>>) = l
    BY JoinedFacts
  <2> QED BY <2>1, <2>2, <2>3
<1> DEFINE w == [v EXCEPT ![Len(v)] = Append(@, a)]
<1>2. CASE v = <<>>
  <2>1. w = v
    BY <1>2, EmptySeq
  <2> QED BY <1>1, <1>2, <2>1
<1>3. CASE v # <<>>
  <2>1. PICK u \in Seq(Seq(S)), l \in Seq(S) : v = Append(u, l)
    BY <1>3, SequenceEmptyOrAppend
  <2>2. Append(l, a) \in Seq(S) /\ Append(l, a) = l \o <<a>> /\ <<a>> \in Seq(S)
    BY AppendProperties, AppendIsConcat
  <2> DEFINE n == Len(u)
             z == Append(u, Append(l, a))
  <2>3. n \in Nat /\ Len(v) = n + 1 /\ \A i \in 1..n : v[i] = u[i]
    BY <2>1, LenProperties, AppendProperties
  <2>4. v[n + 1] = l
    BY <2>1, AppendProperties
  <2>5. z \in Seq(Seq(S)) /\ Len(z) = n + 1 /\ \A i \in 1..n : z[i] = u[i]
    BY <2>2, AppendProperties
  <2>6. z[n + 1] = Append(l, a)
    BY <2>2, AppendProperties
  <2>7. DOMAIN v = 1..(n + 1) /\ DOMAIN z = 1..(n + 1) /\ z = [i \in DOMAIN z |-> z[i]]
    BY <2>3, <2>5, LenProperties
  <2> HIDE DEF z, n
  <2>8. w = [i \in 1..(n + 1) |-> z[i]]
    <3>1. w = [i \in 1..(n + 1) |-> IF i = n + 1 THEN Append(v[n + 1], a) ELSE v[i]]
      BY <2>3, <2>7
    <3>2. \A i \in 1..(n + 1) : i = n + 1 \/ i \in 1..n
      BY <2>3
    <3>3. \A i \in 1..(n + 1) : z[i] = IF i = n + 1 THEN Append(v[n + 1], a) ELSE v[i]
      BY <2>3, <2>4, <2>5, <2>6, <3>2
    <3> HIDE DEF w
    <3> QED BY <3>1, <3>3
  <2>9. w = z
    BY <2>7, <2>8
  <2>10. Joined(z) = Joined(u) \o Append(l, a) /\ Joined(v) = Joined(u) \o l
    BY <1>1, <2>1, <2>2 DEF z
  <2>11. Joined(u) \in Seq(S)
    BY JoinedFacts
  <2>12. (Joined(u) \o l) \o <<a>> = Joined(u) \o (l \o <<a>>)
    BY <2>2, <2>11, ConcatAssociative
  <2>13. Joined(w) = Joined(v) \o <<a>>
    BY <2>2, <2>9, <2>10, <2>12
  <2>14. w \in Seq(Seq(S)) /\ Len(w) = Len(v)
    BY <2>3, <2>5, <2>9
  <2> HIDE DEF w
  <2>15. \A k \in Seq(S) : Append(v, k) \in Seq(Seq(S)) /\ Joined(Append(v, k)) = Joined(v) \o k
    BY <1>1
  <2> QED BY <2>13, <2>14, <2>15 DEF w
<1> QED BY <1>2, <1>3

\* The lines with the next atom of a text.
NextLines(text, i, lines) ==
  IF i > 1 /\ text[i - 1] # NL THEN [lines EXCEPT ![Len(lines)] = Append(@, text[i])]
  ELSE Append(lines, <<text[i]>>)

\* The lines of a text are together the text, and no more than it has atoms.
LEMMA LinesFacts ==
  ASSUME NEW S, NEW text \in Seq(S)
  PROVE  /\ Lines(text) \in Seq(Seq(S)) /\ Joined(Lines(text)) = text
         /\ Len(Lines(text)) <= Len(text)
<1> DEFINE n == Len(text)
           Val == Seq(Seq(S))
           base == <<>>
           step == [i \in 1..n |-> [v \in Val |-> NextLines(text, i, v)]]
           Once(f) == [i \in 0..Len(text) |->
             CASE i = 0                     -> <<>>
               [] i > 1 /\ text[i - 1] # NL -> [f[i - 1] EXCEPT ![Len(f[i - 1])] = Append(@, text[i])]
               [] OTHER                     -> Append(f[i - 1], <<text[i]>>)]
           it == CHOOSE f : f = Once(f)
<1>1. n \in Nat /\ base \in Val /\ \A i \in 1..n : text[i] \in S /\ <<text[i]>> \in Seq(S)
  BY ElementOfSeq, LenProperties, EmptySeq
<1>2. Lines(text) = it[n]
  BY DEF Lines
<1> HIDE DEF base
<1>3. ASSUME NEW i \in 1..n, NEW v \in Val PROVE NextLines(text, i, v) \in Val
  <2>1. text[i] \in S /\ <<text[i]>> \in Seq(S)
    BY <1>1
  <2>2. [v EXCEPT ![Len(v)] = Append(@, text[i])] \in Val
    BY <2>1, JoinedLonger
  <2>3. Append(v, <<text[i]>>) \in Val
    BY <2>1, AppendProperties
  <2> QED BY <2>2, <2>3 DEF NextLines
<1>4. step \in [1..n -> [Val -> Val]]
  BY <1>3
<1>5. \A i \in 1..n : \A v \in Val : step[i][v] = NextLines(text, i, v)
  OBVIOUS
<1> HIDE DEF step
<1>6. PICK g \in [0..n -> Val] : g[0] = base /\ \A i \in 1..n : g[i] = step[i][g[i - 1]]
  <2> HIDE DEF n, Val
  <2>1. MadeOfLast(n, Val, base, step)
    BY <1>1, <1>4 DEF MadeOfLast
  <2> QED BY <2>1, ChainUp
<1>7. \A i \in 1..n : i - 1 \in 0..n /\ g[i - 1] \in Val /\ g[i] = NextLines(text, i, g[i - 1])
  <2> HIDE DEF n, Val
  <2>1. \A i \in 1..n : i - 1 \in 0..n /\ i \in 0..n
    BY <1>1
  <2>2. \A i \in 1..n : g[i - 1] \in Val
    BY <2>1, <1>6
  <2> QED BY <1>5, <1>6, <2>1, <2>2
<1>8. ASSUME NEW f, NEW i \in 0..n
      PROVE  Once(f)[i] = IF i = 0 THEN <<>> ELSE NextLines(text, i, f[i - 1])
  BY <1>1, <1>8 DEF NextLines
<1>9. g = Once(g)
  <2>1. Once(g) = [i \in 0..n |-> Once(g)[i]]
    OBVIOUS
  <2>2. \A i \in 0..n : g[i] = Once(g)[i]
    <3> HIDE DEF Once
    <3>1. \A i \in 0..n : i = 0 \/ i \in 1..n
      BY <1>1
    <3> QED BY <1>6, <1>7, <1>8, <3>1 DEF base
  <2> HIDE DEF Once
  <2> QED BY <1>6, <2>1, <2>2
<1>10. it = Once(it)
  <2> HIDE DEF Once
  <2> QED BY <1>9
<1> HIDE DEF it
<1>11. it[0] = <<>> /\ \A i \in 1..n : it[i] = NextLines(text, i, it[i - 1])
  <2>1. \A i \in 0..n : it[i] = Once(it)[i]
    BY <1>10
  <2>2. 0 \in 0..n /\ \A i \in 1..n : i \in 0..n /\ i # 0
    BY <1>1
  <2> HIDE DEF Once
  <2> QED BY <1>8, <2>1, <2>2
<1> HIDE DEF Once
<1> DEFINE So(k) == /\ it[k] \in Val /\ Len(it[k]) <= k /\ Joined(it[k]) = SubSeq(text, 1, k)
                    /\ k # 0 => it[k] # <<>>
           Good == {k \in Nat : k <= n => So(k)}
<1>12. 0 \in Good
  <2>1. Joined(<<>>) = <<>> /\ Len(<<>>) = 0 /\ <<>> \in Val
    BY JoinedFacts, EmptySeq
  <2>2. SubSeq(text, 1, 0) = <<>>
    BY SubSeqEmpty
  <2>3. So(0)
    <3> DEFINE x == it[0]
    <3>1. x = <<>>
      BY <1>11
    <3>2. x \in Val /\ Len(x) <= 0 /\ Joined(x) = SubSeq(text, 1, 0)
      <4> HIDE DEF x
      <4> QED BY <2>1, <2>2, <3>1
    <3> QED BY <3>2
  <2> HIDE DEF So
  <2> QED BY <2>3
<1>13. ASSUME NEW k \in Nat, k \in Good, k + 1 <= n PROVE So(k + 1)
  <2> DEFINE i == k + 1
             v == it[k]
             a == text[i]
  <2>1. i \in 1..n /\ i - 1 = k /\ k <= n /\ k \in 0..n
    BY <1>1, <1>13
  <2>2. a \in S /\ <<a>> \in Seq(S)
    BY <1>1, <2>1
  <2>3. v \in Val /\ Len(v) \in Nat /\ Len(v) <= k /\ Joined(v) = SubSeq(text, 1, k) /\ (k # 0 => v # <<>>)
    BY <1>13, <2>1, LenProperties
  <2>4. SubSeq(text, 1, i) = SubSeq(text, 1, k) \o <<a>>
    BY <1>1, <2>1, SubSeqRecursiveSecond
  <2>5. it[i] = NextLines(text, i, v)
    BY <1>11, <2>1
  <2>6. CASE i > 1 /\ text[i - 1] # NL
    <3> DEFINE w == [v EXCEPT ![Len(v)] = Append(@, a)]
    <3>1. it[i] = w
      BY <2>5, <2>6 DEF NextLines
    <3>2. k # 0
      BY <2>1, <2>6
    <3> HIDE DEF v, a
    <3>3. w \in Val /\ Len(w) = Len(v) /\ Joined(w) = Joined(v) \o <<a>>
      BY <2>2, <2>3, <3>2, JoinedLonger
    <3> HIDE DEF w
    <3>4. Len(w) # 0
      BY <2>3, <3>2, <3>3, EmptySeq
    <3>5. w # <<>>
      BY <3>4, EmptySeq
    <3>6. Len(w) <= k + 1
      BY <2>3, <3>3
    <3>7. Joined(w) = SubSeq(text, 1, k + 1)
      BY <2>3, <2>4, <3>3
    <3> QED BY <3>1, <3>3, <3>5, <3>6, <3>7
  <2>7. CASE ~(i > 1 /\ text[i - 1] # NL)
    <3> DEFINE w == Append(v, <<a>>)
    <3>1. it[i] = w
      BY <2>5, <2>7 DEF NextLines
    <3> HIDE DEF v, a
    <3>2. w \in Val /\ Joined(w) = Joined(v) \o <<a>>
      BY <2>2, <2>3, JoinedLonger
    <3>3. w # <<>> /\ Len(w) = Len(v) + 1
      BY <2>2, <2>3, AppendProperties
    <3> HIDE DEF w
    <3>4. Len(w) <= k + 1
      BY <2>3, <3>3
    <3>5. Joined(w) = SubSeq(text, 1, k + 1)
      BY <2>3, <2>4, <3>2
    <3> QED BY <3>1, <3>2, <3>3, <3>4, <3>5
  <2> QED BY <2>6, <2>7
<1>14. \A k \in Nat : k \in Good => k + 1 \in Good
  <2> HIDE DEF So
  <2> QED BY <1>13
<1> HIDE DEF Good
<1>15. n \in Good
  BY <1>1, <1>12, <1>14, CountUp
<1>16. So(n)
  <2> HIDE DEF So
  <2> QED BY <1>1, <1>15 DEF Good
<1>17. SubSeq(text, 1, n) = text
  BY SubSeqFull
<1> QED BY <1>2, <1>16, <1>17

-----------------------------------------------------------------------------
\* The page that starts at some line.
LEMMA ViewFacts ==
  ASSUME NEW S, NEW x \in Seq(S), NEW o \in Nat \ {0}, NEW limit \in Nat \ {0}
  PROVE  LET lines == Lines(x)
             n     == Len(lines)
             page  == View(x, o, limit)
         IN \/ o > n /\ page.items = <<>> /\ page.next = 0
            \/ \E m \in o..n : /\ page.items = SubSeq(lines, o, m)
                               /\ page.next = IF m < n THEN m + 1 ELSE 0
<1> DEFINE lines == Lines(x)
           n == Len(lines)
           m == Min({(o - 1) + limit, n})
           items == SubSeq(lines, (o - 1) + 1, m)
           page == View(x, o, limit)
<1>1. lines \in Seq(Seq(S)) /\ n \in Nat
  BY LinesFacts, LenProperties
<1>2. /\ page.items = items
      /\ page.next = IF (IF (o - 1) + Len(items) < n THEN (o - 1) + Len(items) ELSE 0) = 0 THEN 0
                     ELSE (IF (o - 1) + Len(items) < n THEN (o - 1) + Len(items) ELSE 0) + 1
  BY DEF View, Page
<1> HIDE DEF page, lines
<1>3. m = IF (o - 1) + limit <= n THEN (o - 1) + limit ELSE n
  BY <1>1 DEF Min
<1>4. (o - 1) + 1 = o /\ o - 1 \in Nat
  OBVIOUS
<1>5. m \in Nat
  BY <1>1, <1>3, <1>4
<1> HIDE DEF m, n
<1>6. CASE o > n
  <2>1. m < o
    BY <1>1, <1>3, <1>6
  <2>2. items = <<>> /\ Len(items) = 0
    BY <1>4, <1>5, <2>1, SubSeqEmpty, EmptySeq
  <2> HIDE DEF items
  <2>3. ~((o - 1) + Len(items) < n)
    BY <1>1, <1>6, <2>2
  <2> QED BY <1>2, <1>6, <2>2, <2>3 DEF page, lines, n
<1>7. CASE ~(o > n)
  <2>1. m \in o..n /\ \A i \in o..m : i \in 1..n
    BY <1>1, <1>3, <1>7
  <2>2. \A i \in o..m : lines[i] \in Seq(S)
    BY <1>1, <2>1, ElementOfSeq DEF n
  <2>3. items = SubSeq(lines, o, m) /\ Len(items) = m - o + 1
    <3>1. items = SubSeq(lines, o, m)
      BY <1>4
    <3>2. Len(SubSeq(lines, o, m)) = IF o <= m THEN m - o + 1 ELSE 0
      BY <1>5, <2>2, SubSeqProperties
    <3> HIDE DEF items
    <3> QED BY <2>1, <3>1, <3>2
  <2> HIDE DEF items
  <2>4. (o - 1) + Len(items) = m /\ m # 0
    BY <2>1, <2>3
  <2>5. page.next = IF m < n THEN m + 1 ELSE 0
    BY <1>2, <2>4
  <2> QED BY <1>2, <2>1, <2>3, <2>5 DEF page, lines, n
<1> QED BY <1>6, <1>7

\* The pages of a view, of any length, are together the lines.
LEMMA PagesJoin ==
  ASSUME NEW S, NEW x \in Seq(S), NEW limit \in Nat \ {0}
  PROVE  LET from[o \in 1..(Len(x) + 1)] ==
               LET page == View(x, o, limit)
               IN page.items \o IF page.next = 0 THEN <<>> ELSE from[page.next]
         IN from[1] = Lines(x)
<1> DEFINE lines == Lines(x)
           n == Len(lines)
           N == Len(x)
           Val == Seq(Seq(S))
           Onward(u, o) == View(x, o, limit).items \o
                          IF View(x, o, limit).next = 0 THEN <<>> ELSE u[View(x, o, limit).next]
           step == [o \in 1..N |-> [u \in [1..(N + 1) -> Val] |-> Onward(u, o)]]
           base == <<>>
           Once(u) == [o \in 1..(Len(x) + 1) |->
             View(x, o, limit).items \o
             IF View(x, o, limit).next = 0 THEN <<>> ELSE u[View(x, o, limit).next]]
           it == CHOOSE u : u = Once(u)
<1>1. N \in Nat /\ lines \in Val /\ n \in Nat /\ n <= N /\ base \in Val
  BY LinesFacts, LenProperties, EmptySeq
<1>2. ASSUME NEW o \in 1..(N + 1)
      PROVE  \/ o > n /\ View(x, o, limit).items = <<>> /\ View(x, o, limit).next = 0
             \/ \E m \in o..n : /\ View(x, o, limit).items = SubSeq(lines, o, m)
                                /\ View(x, o, limit).next = IF m < n THEN m + 1 ELSE 0
  <2>1. o \in Nat \ {0}
    BY <1>1
  <2> QED BY <2>1, ViewFacts
<1> HIDE DEF lines, n, N, base
<1>3. ASSUME NEW o \in 1..(N + 1)
      PROVE  /\ View(x, o, limit).items \in Val
             /\ View(x, o, limit).next # 0 =>
                  View(x, o, limit).next \in 1..(N + 1) /\ View(x, o, limit).next > o
  <2>1. CASE View(x, o, limit).items = <<>> /\ View(x, o, limit).next = 0
    BY <1>1, <2>1 DEF base
  <2>2. CASE \E m \in o..n : /\ View(x, o, limit).items = SubSeq(lines, o, m)
                             /\ View(x, o, limit).next = IF m < n THEN m + 1 ELSE 0
    <3>1. PICK m \in o..n : /\ View(x, o, limit).items = SubSeq(lines, o, m)
                            /\ View(x, o, limit).next = IF m < n THEN m + 1 ELSE 0
      BY <2>2
    <3>2. o \in Int /\ m \in Int /\ \A i \in o..m : i \in 1..n
      BY <1>1
    <3>3. \A i \in o..m : lines[i] \in Seq(S)
      BY <1>1, <3>2, ElementOfSeq DEF n
    <3>4. SubSeq(lines, o, m) \in Val
      BY <3>2, <3>3, SubSeqProperties
    <3>5. m < n => m + 1 \in 1..(N + 1) /\ m + 1 > o
      BY <1>1
    <3> QED BY <3>1, <3>4, <3>5
  <2> QED BY <1>2, <2>1, <2>2
<1>4. ASSUME NEW o \in 1..(N + 1), NEW u \in [1..(N + 1) -> Val] PROVE Onward(u, o) \in Val
  <2> DEFINE rest == IF View(x, o, limit).next = 0 THEN <<>> ELSE u[View(x, o, limit).next]
  <2>1. rest \in Val
    BY <1>1, <1>3 DEF base
  <2> HIDE DEF rest, Val
  <2>2. \A v, w \in Val : v \o w \in Val
    BY ConcatProperties DEF Val
  <2>3. View(x, o, limit).items \o rest \in Val
    BY <1>3, <2>1, <2>2
  <2> QED BY <2>3 DEF rest
<1>5. \A o \in 1..N : o \in 1..(N + 1)
  BY <1>1
<1>6. ASSUME NEW o \in 1..N, NEW u \in [1..(N + 1) -> Val], NEW v \in [1..(N + 1) -> Val],
             \A y \in 1..(N + 1) : y > o => u[y] = v[y]
      PROVE  Onward(u, o) = Onward(v, o)
  BY <1>3, <1>5, <1>6
<1>7. MadeOfNext(N, Val, base, step)
  <2> HIDE DEF Onward
  <2>1. step \in [1..N -> [[1..(N + 1) -> Val] -> Val]]
    BY <1>4, <1>5
  <2>2. \A o \in 1..N : \A u \in [1..(N + 1) -> Val] : step[o][u] = Onward(u, o)
    OBVIOUS
  <2> HIDE DEF step
  <2>3. \A o \in 1..N : \A u, v \in [1..(N + 1) -> Val] :
          (\A y \in 1..(N + 1) : y > o => u[y] = v[y]) => step[o][u] = step[o][v]
    <3>1. ASSUME NEW o \in 1..N, NEW u \in [1..(N + 1) -> Val], NEW v \in [1..(N + 1) -> Val],
                 \A y \in 1..(N + 1) : y > o => u[y] = v[y]
          PROVE  step[o][u] = step[o][v]
      <4>1. Onward(u, o) = Onward(v, o)
        BY <1>6, <3>1
      <4> QED BY <2>2, <4>1
    <3> QED BY <3>1
  <2> QED BY <1>1, <2>1, <2>3 DEF MadeOfNext
<1>8. PICK g \in [1..(N + 1) -> Val] : g[N + 1] = base /\ \A o \in 1..N : g[o] = step[o][g]
  <2> HIDE DEF step
  <2> QED BY <1>7, ChainDown
<1>9. \A o \in 1..N : g[o] = Onward(g, o)
  <2> HIDE DEF Onward
  <2> QED BY <1>8
<1> HIDE DEF step
<1>10. g[N + 1] = Onward(g, N + 1)
  <2>1. N + 1 \in 1..(N + 1) /\ N + 1 > n /\ \A m \in (N + 1)..n : FALSE
    BY <1>1
  <2>2. View(x, N + 1, limit).items = <<>> /\ View(x, N + 1, limit).next = 0
    BY <1>2, <2>1
  <2> DEFINE e == <<>>
  <2>3. e \o e = e
    BY <1>1, ConcatEmptySeq DEF base
  <2>4. Onward(g, N + 1) = e \o e
    BY <2>2
  <2> QED BY <1>8, <2>3, <2>4 DEF base
<1>11. \A o \in 1..(N + 1) : g[o] = Onward(g, o)
  <2>1. \A o \in 1..(N + 1) : o = N + 1 \/ o \in 1..N
    BY <1>1
  <2> HIDE DEF Onward
  <2> QED BY <1>9, <1>10, <2>1
<1>12. g = Once(g)
  <2>1. Once(g) = [o \in 1..(N + 1) |-> Onward(g, o)]
    BY DEF N
  <2> HIDE DEF Onward, Once
  <2>2. g = [o \in 1..(N + 1) |-> g[o]]
    OBVIOUS
  <2> QED BY <1>11, <2>1, <2>2
<1>13. it = Once(it)
  <2> HIDE DEF Once
  <2> QED BY <1>12
<1> HIDE DEF it
<1>14. \A o \in 1..(N + 1) : it[o] = Onward(it, o)
  <2>1. Once(it) = [o \in 1..(N + 1) |-> Onward(it, o)]
    BY DEF N
  <2> HIDE DEF Onward, Once
  <2> QED BY <1>13, <2>1
<1> HIDE DEF Once
<1> DEFINE Good == {k \in Nat : \A o \in 1..(N + 1) : N + 1 - o < k => it[o] = SubSeq(lines, o, n)}
<1>15. 0 \in Good
  BY <1>1
<1>16. ASSUME NEW k \in Nat, k \in Good, NEW o \in 1..(N + 1), N + 1 - o < k + 1
       PROVE  it[o] = SubSeq(lines, o, n)
  <2>1. CASE o > n /\ View(x, o, limit).items = <<>> /\ View(x, o, limit).next = 0
    <3> DEFINE e == <<>>
    <3>1. e \o e = e
      BY <1>1, ConcatEmptySeq DEF base
    <3>2. it[o] = e \o e
      BY <1>14, <2>1
    <3>3. SubSeq(lines, o, n) = <<>>
      BY <1>1, <2>1, SubSeqEmpty
    <3> QED BY <3>1, <3>2, <3>3
  <2>2. CASE \E m \in o..n : /\ View(x, o, limit).items = SubSeq(lines, o, m)
                             /\ View(x, o, limit).next = IF m < n THEN m + 1 ELSE 0
    <3>1. PICK m \in o..n : /\ View(x, o, limit).items = SubSeq(lines, o, m)
                            /\ View(x, o, limit).next = IF m < n THEN m + 1 ELSE 0
      BY <2>2
    <3>2. o \in 1..(n + 1) /\ m \in (o - 1)..n /\ m \in o..n /\ n \in m..n
      BY <1>1
    <3>3. SubSeq(lines, o, m) \o SubSeq(lines, m + 1, n) = SubSeq(lines, o, n)
      BY <1>1, <3>2, ConcatAdjacentSubSeq DEF n
    <3>4. CASE m < n
      <4>1. m + 1 # 0 /\ m + 1 \in 1..(N + 1) /\ N + 1 - (m + 1) < k
        BY <1>1, <1>16, <3>4
      <4>2. it[m + 1] = SubSeq(lines, m + 1, n)
        BY <1>16, <4>1
      <4>3. it[o] = SubSeq(lines, o, m) \o it[m + 1]
        BY <1>14, <3>1, <3>4, <4>1
      <4> QED BY <3>3, <4>2, <4>3
    <3>5. CASE ~(m < n)
      <4> DEFINE e == <<>>
      <4>1. m = n
        BY <1>1, <3>5
      <4>2. SubSeq(lines, m + 1, n) = e
        BY <1>1, <4>1, SubSeqEmpty
      <4>3. it[o] = SubSeq(lines, o, m) \o e
        BY <1>14, <3>1, <3>5
      <4> QED BY <3>3, <4>2, <4>3
    <3> QED BY <3>4, <3>5
  <2> QED BY <1>2, <2>1, <2>2
<1>17. \A k \in Nat : k \in Good => k + 1 \in Good
  <2> HIDE DEF Onward
  <2>1. ASSUME NEW k \in Nat, k \in Good
        PROVE  \A o \in 1..(N + 1) : N + 1 - o < k + 1 => it[o] = SubSeq(lines, o, n)
    <3> HIDE DEF Good
    <3> QED BY <1>16, <2>1
  <2>2. ASSUME NEW k \in Nat, k \in Good PROVE k + 1 \in Good
    <3>1. k + 1 \in Nat
      OBVIOUS
    <3>2. \A o \in 1..(N + 1) : N + 1 - o < k + 1 => it[o] = SubSeq(lines, o, n)
      BY <2>1, <2>2
    <3> QED BY <3>1, <3>2
  <2> HIDE DEF Good
  <2> QED BY <2>2
<1> HIDE DEF Good, Onward
<1>18. N + 1 \in Good
  BY <1>1, <1>15, <1>17, CountUp
<1>19. it[1] = SubSeq(lines, 1, n)
  <2>1. 1 \in 1..(N + 1) /\ N + 1 - 1 < N + 1
    BY <1>1
  <2> QED BY <1>18, <2>1 DEF Good
<1>20. it[1] = lines
  BY <1>1, <1>19, SubSeqFull DEF n
<1> QED BY <1>20 DEF it, Once, lines

\* PagesAreWhole: whoever follows the pages of file_read sees each line once, in order.
THEOREM PagesAreWholeHolds == PagesAreWhole
<1>1. \A x \in Texts : x \in Seq(Atoms)
  BY EditsAssumption DEF EditsAssumption
<1>2. \A limit \in 1..3 : limit \in Nat \ {0}
  OBVIOUS
<1> QED BY <1>1, <1>2, PagesJoin DEF PagesAreWhole

-----------------------------------------------------------------------------
\* From the right end: past l where at is met, else past one.
Jumps(n, Val, base, at, l, hit, miss) ==
  /\ n \in Nat /\ base \in Val /\ l \in Nat \ {0} /\ \A i \in at : i \in 1..n /\ i + l <= n + 1
  /\ hit \in [Val -> Val] /\ miss \in [1..n -> [Val -> Val]]

\* Such values exist.
LEMMA JumpsExist ==
  ASSUME NEW n, NEW Val, NEW base, NEW at, NEW l, NEW hit, NEW miss,
         Jumps(n, Val, base, at, l, hit, miss)
  PROVE  \E g \in [1..(n + 1) -> Val] :
           /\ g[n + 1] = base
           /\ \A i \in 1..n : g[i] = IF i \in at THEN hit[g[i + l]] ELSE miss[i][g[i + 1]]
<1> DEFINE Onward(u, i) == IF i \in at THEN hit[u[i + l]] ELSE miss[i][u[i + 1]]
           step == [i \in 1..n |-> [u \in [1..(n + 1) -> Val] |-> Onward(u, i)]]
<1>1. /\ n \in Nat /\ base \in Val /\ l \in Nat \ {0} /\ \A i \in at : i \in 1..n /\ i + l <= n + 1
      /\ hit \in [Val -> Val] /\ miss \in [1..n -> [Val -> Val]]
  BY DEF Jumps
<1>2. \A i \in 1..n : i + 1 \in 1..(n + 1) /\ i + 1 > i /\ (i \in at => i + l \in 1..(n + 1) /\ i + l > i)
  BY <1>1
<1>3. ASSUME NEW i \in 1..n, NEW u \in [1..(n + 1) -> Val] PROVE Onward(u, i) \in Val
  BY <1>1, <1>2
<1>4. ASSUME NEW i \in 1..n, NEW u \in [1..(n + 1) -> Val], NEW v \in [1..(n + 1) -> Val],
             \A y \in 1..(n + 1) : y > i => u[y] = v[y]
      PROVE  Onward(u, i) = Onward(v, i)
  BY <1>2, <1>4
<1> HIDE DEF Onward
<1>5. step \in [1..n -> [[1..(n + 1) -> Val] -> Val]]
  BY <1>3
<1>6. \A i \in 1..n : \A u \in [1..(n + 1) -> Val] : step[i][u] = Onward(u, i)
  OBVIOUS
<1> HIDE DEF step
<1>7. ASSUME NEW i \in 1..n, NEW u \in [1..(n + 1) -> Val], NEW v \in [1..(n + 1) -> Val],
             \A y \in 1..(n + 1) : y > i => u[y] = v[y]
      PROVE  step[i][u] = step[i][v]
  <2>1. Onward(u, i) = Onward(v, i)
    BY <1>4, <1>7
  <2> QED BY <1>6, <2>1
<1>8. MadeOfNext(n, Val, base, step)
  BY <1>1, <1>5, <1>7 DEF MadeOfNext
<1>9. PICK g \in [1..(n + 1) -> Val] : g[n + 1] = base /\ \A i \in 1..n : g[i] = step[i][g]
  BY <1>8, ChainDown
<1>10. \A i \in 1..n : g[i] = Onward(g, i)
  BY <1>6, <1>9
<1> QED BY <1>9, <1>10 DEF Onward

\* What goes so from the same end is the same.
JumpAlike(n, at, l, f, g) ==
  /\ n \in Nat /\ l \in Nat \ {0} /\ \A i \in at : i + l <= n + 1
  /\ f[n + 1] = g[n + 1]
  /\ \A i \in 1..n : (f[i + 1] = g[i + 1] /\ (i \in at => f[i + l] = g[i + l])) => f[i] = g[i]

\* Two such functions that end alike are alike.
LEMMA JumpsSame ==
  ASSUME NEW n, NEW at, NEW l, NEW f, NEW g, JumpAlike(n, at, l, f, g)
  PROVE  \A i \in 1..(n + 1) : f[i] = g[i]
<1>0. /\ n \in Nat /\ l \in Nat \ {0} /\ \A i \in at : i + l <= n + 1
      /\ f[n + 1] = g[n + 1]
  BY DEF JumpAlike
<1>9. \A i \in 1..n : (f[i + 1] = g[i + 1] /\ (i \in at => f[i + l] = g[i + l])) => f[i] = g[i]
  BY DEF JumpAlike
<1> DEFINE Good == {k \in Nat : \A i \in 1..(n + 1) : n + 1 - i < k => f[i] = g[i]}
<1>1. 0 \in Good
  BY <1>0
<1>2. ASSUME NEW k \in Nat, k \in Good, NEW i \in 1..(n + 1), n + 1 - i < k + 1 PROVE f[i] = g[i]
  <2>1. CASE i # n + 1
    <3>1. i \in 1..n /\ i + 1 \in 1..(n + 1) /\ n + 1 - (i + 1) < k
      BY <1>0, <1>2, <2>1
    <3>2. i \in at => i + l \in 1..(n + 1) /\ n + 1 - (i + l) < k
      BY <1>0, <1>2, <3>1
    <3> QED BY <1>2, <1>9, <3>1, <3>2
  <2> QED BY <1>0, <2>1
<1>3. ASSUME NEW k \in Nat, k \in Good PROVE k + 1 \in Good
  <2>1. \A i \in 1..(n + 1) : n + 1 - i < k + 1 => f[i] = g[i]
    <3> HIDE DEF Good
    <3> QED BY <1>2, <1>3
  <2>2. k + 1 \in Nat
    OBVIOUS
  <2> QED BY <2>1, <2>2
<1> HIDE DEF Good
<1>4. n + 1 \in Good
  BY <1>0, <1>1, <1>3, CountUp
<1> QED BY <1>0, <1>4 DEF Good

\* Where a string occurs, there is room for it.
LEMMA OccurrenceRoom ==
  ASSUME NEW S, NEW x \in Seq(S), NEW old \in Seq(S), old # <<>>, NEW i \in Occurrences(x, old)
  PROVE  /\ Len(x) \in Nat /\ Len(old) \in Nat \ {0}
         /\ i \in 1..Len(x) /\ i + Len(old) <= Len(x) + 1
<1>1. Len(x) \in Nat /\ Len(old) \in Nat \ {0}
  BY LenProperties, EmptySeq
<1>2. i \in 1..(Len(x) - Len(old) + 1)
  BY DEF Occurrences
<1> QED BY <1>1, <1>2

\* What Replaced() computes.
Rewrites(g, S, x, old, new) ==
  /\ g \in [1..(Len(x) + 1) -> Seq(S)]
  /\ Replaced(x, old, new) = g[1] /\ g[Len(x) + 1] = <<>>
  /\ \A i \in 1..Len(x) :
       g[i] = IF i \in Occurrences(x, old) THEN new \o g[i + Len(old)] ELSE <<x[i]>> \o g[i + 1]

\* It has such a function of the positions behind it.
LEMMA ReplacedIs ==
  ASSUME NEW S, NEW x \in Seq(S), NEW old \in Seq(S), old # <<>>, NEW new \in Seq(S)
  PROVE  \E g : Rewrites(g, S, x, old, new)
<1> DEFINE n == Len(x)
           l == Len(old)
           at == Occurrences(x, old)
           Val == Seq(S)
           base == <<>>
           hit == [v \in Val |-> new \o v]
           miss == [i \in 1..n |-> [v \in Val |-> <<x[i]>> \o v]]
           Once(u) == [i \in 1..(Len(x) + 1) |->
             CASE i = Len(x) + 1            -> <<>>
               [] i \in Occurrences(x, old) -> new \o u[i + Len(old)]
               [] OTHER                     -> <<x[i]>> \o u[i + 1]]
           it == CHOOSE u : u = Once(u)
<1>1. n \in Nat /\ l \in Nat \ {0} /\ base \in Val /\ \A i \in 1..n : <<x[i]>> \in Val
  BY LenProperties, EmptySeq, ElementOfSeq
<1>2. \A i \in at : i \in 1..n /\ i + l <= n + 1
  BY OccurrenceRoom
<1>3. \A v, w \in Val : v \o w \in Val
  BY ConcatProperties
<1>4. Replaced(x, old, new) = it[1]
  BY DEF Replaced
<1>5. hit \in [Val -> Val] /\ miss \in [1..n -> [Val -> Val]]
  <2> HIDE DEF Val, n
  <2>1. new \in Val
    BY DEF Val
  <2> QED BY <1>1, <1>3, <2>1
<1>6. /\ \A v \in Val : hit[v] = new \o v
      /\ \A i \in 1..n : \A v \in Val : miss[i][v] = <<x[i]>> \o v
  OBVIOUS
<1>7. PICK g \in [1..(n + 1) -> Val] :
        /\ g[n + 1] = base
        /\ \A i \in 1..n : g[i] = IF i \in at THEN hit[g[i + l]] ELSE miss[i][g[i + 1]]
  <2> HIDE DEF n, l, at, Val, base, hit, miss
  <2>1. Jumps(n, Val, base, at, l, hit, miss)
    BY <1>1, <1>2, <1>5 DEF Jumps
  <2> QED BY <2>1, JumpsExist
<1>8. \A i \in 1..n : g[i + 1] \in Val /\ (i \in at => g[i + l] \in Val)
  <2> HIDE DEF n, l, at, Val
  <2>1. \A i \in 1..n : i + 1 \in 1..(n + 1) /\ (i \in at => i + l \in 1..(n + 1))
    BY <1>1, <1>2
  <2> QED BY <1>7, <2>1
<1>9. \A i \in 1..n : g[i] = IF i \in at THEN new \o g[i + l] ELSE <<x[i]>> \o g[i + 1]
  <2> HIDE DEF n, l, at, Val, hit, miss
  <2> QED BY <1>6, <1>7, <1>8
<1>10. g = Once(g)
  <2>1. n + 1 \notin at /\ \A i \in 1..(n + 1) : i = n + 1 \/ (i # n + 1 /\ i \in 1..n)
    BY <1>1, <1>2
  <2>2. \A i \in 1..(n + 1) : g[i] = CASE i = n + 1 -> <<>>
                                       [] i \in at  -> new \o g[i + l]
                                       [] OTHER     -> <<x[i]>> \o g[i + 1]
    <3> HIDE DEF n, l, at, Val
    <3>1. g[n + 1] = <<>>
      BY <1>7 DEF base
    <3> HIDE DEF base
    <3>2. ASSUME NEW i \in 1..(n + 1), i # n + 1
          PROVE  g[i] = IF i \in at THEN new \o g[i + l] ELSE <<x[i]>> \o g[i + 1]
      BY <1>9, <2>1, <3>2
    <3> QED BY <2>1, <3>1, <3>2
  <2> QED BY <1>7, <2>2
<1>11. it = Once(it)
  <2> HIDE DEF Once
  <2> QED BY <1>10
<1> HIDE DEF it
<1>12. it[n + 1] = <<>> /\ \A i \in 1..n : it[i] = IF i \in at THEN new \o it[i + l] ELSE <<x[i]>> \o it[i + 1]
  <2>1. n + 1 \in 1..(n + 1) /\ n + 1 \notin at /\ \A i \in 1..n : i \in 1..(n + 1) /\ i # n + 1
    BY <1>1, <1>2
  <2>2. \A i \in 1..(n + 1) : it[i] = CASE i = n + 1 -> <<>>
                                        [] i \in at  -> new \o it[i + l]
                                        [] OTHER     -> <<x[i]>> \o it[i + 1]
    BY <1>11
  <2> HIDE DEF n, l, at, Once
  <2>3. it[n + 1] = <<>>
    BY <2>1, <2>2
  <2>4. ASSUME NEW i \in 1..n PROVE it[i] = IF i \in at THEN new \o it[i + l] ELSE <<x[i]>> \o it[i + 1]
    BY <2>1, <2>2
  <2> QED BY <2>3, <2>4
<1> HIDE DEF n, l, at, Val, Once, base
<1>13. \A i \in 1..(n + 1) : it[i] = g[i]
  <2>1. it[n + 1] = g[n + 1]
    BY <1>7, <1>12 DEF base
  <2>2. ASSUME NEW i \in 1..n, it[i + 1] = g[i + 1], i \in at => it[i + l] = g[i + l] PROVE it[i] = g[i]
    BY <1>9, <1>12, <2>2
  <2>3. JumpAlike(n, at, l, it, g)
    BY <1>1, <1>2, <2>1, <2>2 DEF JumpAlike
  <2> QED BY <1>1, <2>3, JumpsSame
<1>14. it[1] = g[1]
  BY <1>1, <1>13
<1>15. Rewrites(g, S, x, old, new)
  BY <1>4, <1>7, <1>9, <1>14 DEF Rewrites, n, l, at, Val, base
<1> QED BY <1>15

\* Four parts in a row.
Regrouped(a, b, c, d) == a \o ((b \o c) \o d) = ((a \o b) \o c) \o d

\* They may be joined from the left or around the middle.
LEMMA FourParts ==
  ASSUME NEW S, NEW a \in Seq(S), NEW b \in Seq(S), NEW c \in Seq(S), NEW d \in Seq(S)
  PROVE  Regrouped(a, b, c, d)
<1>1. a \o ((b \o c) \o d) = ((a \o b) \o c) \o d
  OBVIOUS
<1> QED BY <1>1 DEF Regrouped

\* What Count() computes.
Counts(c, x, old) ==
  /\ c \in [1..(Len(x) + 1) -> Nat]
  /\ Count(x, old) = c[1] /\ c[Len(x) + 1] = 0
  /\ \A i \in 1..Len(x) :
       c[i] = IF i \in Occurrences(x, old) THEN 1 + c[i + Len(old)] ELSE c[i + 1]

\* It has such a function of the positions behind it.
LEMMA CountIs ==
  ASSUME NEW S, NEW x \in Seq(S), NEW old \in Seq(S), old # <<>>
  PROVE  \E c : Counts(c, x, old)
<1> DEFINE n == Len(x)
           l == Len(old)
           at == Occurrences(x, old)
           base == 0
           hit == [v \in Nat |-> 1 + v]
           miss == [i \in 1..n |-> [v \in Nat |-> v]]
           Once(u) == [i \in 1..(Len(x) + 1) |->
             CASE i = Len(x) + 1            -> 0
               [] i \in Occurrences(x, old) -> 1 + u[i + Len(old)]
               [] OTHER                     -> u[i + 1]]
           it == CHOOSE u : u = Once(u)
<1>1. n \in Nat /\ l \in Nat \ {0} /\ base \in Nat
  BY LenProperties, EmptySeq
<1>2. \A i \in at : i \in 1..n /\ i + l <= n + 1
  BY OccurrenceRoom
<1>3. n + 1 \notin at /\ \A i \in 1..(n + 1) : i = n + 1 \/ (i # n + 1 /\ i \in 1..n)
  BY <1>1, <1>2
<1>4. Count(x, old) = it[1]
  BY DEF Count
<1>5. hit \in [Nat -> Nat] /\ miss \in [1..n -> [Nat -> Nat]]
  OBVIOUS
<1>6. (\A v \in Nat : hit[v] = 1 + v) /\ \A i \in 1..n : \A v \in Nat : miss[i][v] = v
  OBVIOUS
<1>7. PICK g :
        /\ g \in [1..(n + 1) -> Nat]
        /\ g[n + 1] = base
        /\ \A i \in 1..n : g[i] = IF i \in at THEN hit[g[i + l]] ELSE miss[i][g[i + 1]]
  <2> HIDE DEF n, l, at, base, hit, miss
  <2>1. Jumps(n, Nat, base, at, l, hit, miss)
    BY <1>1, <1>2, <1>5 DEF Jumps
  <2> QED BY <2>1, JumpsExist
<1>8. \A i \in 1..n : g[i + 1] \in Nat /\ (i \in at => g[i + l] \in Nat)
  <2> HIDE DEF n, l, at
  <2>1. \A i \in 1..n : i + 1 \in 1..(n + 1) /\ (i \in at => i + l \in 1..(n + 1))
    BY <1>1, <1>2
  <2> QED BY <1>7, <2>1
<1>9. \A i \in 1..n : g[i] = IF i \in at THEN 1 + g[i + l] ELSE g[i + 1]
  <2> HIDE DEF n, l, at, hit, miss
  <2> QED BY <1>6, <1>7, <1>8
<1>10. g = Once(g)
  <2>1. \A i \in 1..(n + 1) : g[i] = CASE i = n + 1 -> 0
                                       [] i \in at  -> 1 + g[i + l]
                                       [] OTHER     -> g[i + 1]
    <3> HIDE DEF n, l, at
    <3>1. ASSUME NEW i \in 1..(n + 1), i # n + 1
          PROVE  g[i] = IF i \in at THEN 1 + g[i + l] ELSE g[i + 1]
      BY <1>3, <1>9, <3>1
    <3> QED BY <1>3, <1>7, <3>1
  <2> QED BY <1>7, <2>1
<1>11. it = Once(it)
  <2> HIDE DEF Once
  <2> QED BY <1>10
<1> HIDE DEF it
<1>12. it[n + 1] = 0 /\ \A i \in 1..n : it[i] = IF i \in at THEN 1 + it[i + l] ELSE it[i + 1]
  <2>1. n + 1 \in 1..(n + 1) /\ \A i \in 1..n : i \in 1..(n + 1) /\ i # n + 1
    BY <1>1
  <2>2. \A i \in 1..(n + 1) : it[i] = CASE i = n + 1 -> 0
                                        [] i \in at  -> 1 + it[i + l]
                                        [] OTHER     -> it[i + 1]
    BY <1>11
  <2> HIDE DEF n, l, at, Once
  <2>3. it[n + 1] = 0
    BY <1>3, <2>1, <2>2
  <2>4. ASSUME NEW i \in 1..n PROVE it[i] = IF i \in at THEN 1 + it[i + l] ELSE it[i + 1]
    BY <2>1, <2>2
  <2> QED BY <2>3, <2>4
<1> HIDE DEF n, l, at, Once
<1>13. \A i \in 1..(n + 1) : it[i] = g[i]
  <2>1. it[n + 1] = g[n + 1]
    BY <1>7, <1>12
  <2>2. ASSUME NEW i \in 1..n, it[i + 1] = g[i + 1], i \in at => it[i + l] = g[i + l] PROVE it[i] = g[i]
    BY <1>9, <1>12, <2>2
  <2>3. JumpAlike(n, at, l, it, g)
    BY <1>1, <1>2, <2>1, <2>2 DEF JumpAlike
  <2>4. ASSUME NEW i \in 1..(n + 1) PROVE it[i] = g[i]
    BY <2>3, JumpsSame
  <2> QED BY <2>4
<1>14. it[1] = g[1]
  BY <1>1, <1>13
<1>15. Counts(g, x, old)
  BY <1>4, <1>7, <1>9, <1>14 DEF Counts, n, l, at
<1> QED BY <1>15

\* A match counted once is the one that is replaced.
LEMMA ReplacedOnce ==
  ASSUME NEW S, NEW x \in Seq(S), NEW old \in Seq(S), old # <<>>, NEW new \in Seq(S),
         Count(x, old) = 1
  PROVE  \E i \in Occurrences(x, old) :
           Replaced(x, old, new) = SubSeq(x, 1, i - 1) \o new \o SubSeq(x, i + Len(old), Len(x))
<1> DEFINE n == Len(x)
           l == Len(old)
           at == Occurrences(x, old)
           Behind(i) == SubSeq(x, i, n)
<1>1. n \in Nat /\ l \in Nat \ {0} /\ \A i \in 1..n : x[i] \in S /\ <<x[i]>> \in Seq(S)
  BY LenProperties, EmptySeq, ElementOfSeq
<1>2. \A i \in at : i \in 1..n /\ i + l <= n + 1
  BY OccurrenceRoom
<1>12. PICK g : Rewrites(g, S, x, old, new)
  BY ReplacedIs
<1>13. PICK c : Counts(c, x, old)
  BY CountIs
<1>3. /\ g \in [1..(n + 1) -> Seq(S)] /\ Replaced(x, old, new) = g[1] /\ g[n + 1] = <<>>
      /\ \A i \in 1..n : g[i] = IF i \in at THEN new \o g[i + l] ELSE <<x[i]>> \o g[i + 1]
  BY <1>12 DEF Rewrites
<1>4. /\ c \in [1..(n + 1) -> Nat] /\ Count(x, old) = c[1] /\ c[n + 1] = 0
      /\ \A i \in 1..n : c[i] = IF i \in at THEN 1 + c[i + l] ELSE c[i + 1]
  BY <1>13 DEF Counts
<1>5. \A i, j \in Int : i >= 1 /\ j <= n => SubSeq(x, i, j) \in Seq(S)
  <2>1. ASSUME NEW i \in Int, NEW j \in Int, i >= 1, j <= n PROVE SubSeq(x, i, j) \in Seq(S)
    <3>1. \A k \in i..j : k \in 1..n
      BY <1>1, <2>1
    <3>2. \A k \in i..j : x[k] \in S
      BY <1>1, <3>1
    <3> QED BY <3>2, SubSeqProperties
  <2> QED BY <2>1
<1>6. n = Len(x)
  OBVIOUS
<1> HIDE DEF n, l, at
<1> DEFINE InPlace(i, j) == g[i] = SubSeq(x, i, j - 1) \o new \o Behind(j + l)
           So(i) == /\ c[i] = 0 => g[i] = Behind(i)
                    /\ c[i] = 1 => \E j \in at : j >= i /\ InPlace(i, j)
           Good == {k \in Nat : \A i \in 1..(n + 1) : n + 1 - i < k => So(i)}
<1>7. 0 \in Good
  BY <1>1
<1>8. ASSUME NEW k \in Nat, k \in Good, NEW i \in 1..(n + 1), n + 1 - i < k + 1 PROVE So(i)
  <2>1. CASE i = n + 1
    <3>1. Behind(i) = <<>>
      BY <1>1, <2>1, SubSeqEmpty
    <3>2. g[i] = <<>> /\ c[i] = 0
      BY <1>3, <1>4, <2>1
    <3> HIDE DEF Behind, InPlace
    <3> QED BY <3>1, <3>2
  <2>2. CASE i # n + 1 /\ i \in at
    <3>1. i \in 1..n /\ i + l \in 1..(n + 1) /\ n + 1 - (i + l) < k
      BY <1>1, <1>2, <1>8, <2>2
    <3>2. So(i + l)
      <4> HIDE DEF So
      <4> QED BY <1>8, <3>1
    <3>3. c[i + l] \in Nat /\ c[i] = 1 + c[i + l] /\ g[i] = new \o g[i + l]
      BY <1>3, <1>4, <2>2, <3>1
    <3>4. SubSeq(x, i, i - 1) = <<>>
      BY <3>1, SubSeqEmpty
    <3>5. <<>> \o new = new
      BY ConcatEmptySeq
    <3>6. c[i] # 0
      BY <3>3
    <3>7. ASSUME c[i] = 1 PROVE InPlace(i, i)
      <4>1. c[i + l] = 0
        BY <3>3, <3>7
      <4>2. g[i] = new \o Behind(i + l)
        BY <3>2, <3>3, <4>1
      <4> HIDE DEF Behind
      <4> QED BY <3>4, <3>5, <4>2
    <3>8. i >= i
      BY <3>1
    <3> HIDE DEF InPlace, Behind
    <3> QED BY <2>2, <3>6, <3>7, <3>8
  <2>3. CASE i # n + 1 /\ i \notin at
    <3>1. i \in 1..n /\ i + 1 \in 1..(n + 1) /\ n + 1 - (i + 1) < k
      BY <1>1, <1>8, <2>3
    <3>2. So(i + 1)
      <4> HIDE DEF So
      <4> QED BY <1>8, <3>1
    <3>3. c[i] = c[i + 1] /\ g[i] = <<x[i]>> \o g[i + 1]
      BY <1>3, <1>4, <2>3, <3>1
    <3>4. \A j \in i..n : <<x[i]>> \o SubSeq(x, i + 1, j) = SubSeq(x, i, j)
      BY <1>6, <3>1, SubSeqRecursiveFirst
    <3>5. ASSUME c[i] = 0 PROVE g[i] = Behind(i)
      <4>1. n \in i..n
        BY <1>1, <3>1
      <4> QED BY <3>2, <3>3, <3>4, <3>5, <4>1
    <3>6. ASSUME c[i] = 1 PROVE \E j \in at : j >= i /\ InPlace(i, j)
      <4>1. PICK j \in at : j >= i + 1 /\ InPlace(i + 1, j)
        BY <3>2, <3>3, <3>6
      <4> DEFINE a == <<x[i]>>
                 b == SubSeq(x, i + 1, j - 1)
                 e == Behind(j + l)
      <4>8. j \in 1..n /\ j + l <= n + 1
        BY <1>2
      <4>9. j >= i + 1
        BY <4>1
      <4>2. j \in 1..n /\ j + l <= n + 1 /\ j - 1 \in i..n /\ j >= i
        BY <1>1, <3>1, <4>8, <4>9
      <4>3. a \in Seq(S) /\ b \in Seq(S) /\ e \in Seq(S)
        <5>1. i + 1 \in Int /\ i + 1 >= 1 /\ j - 1 \in Int /\ j - 1 <= n /\ j + l \in Int /\ j + l >= 1
          BY <1>1, <3>1, <4>2
        <5>2. n \in Int /\ n <= n
          BY <1>1
        <5> QED BY <1>1, <1>5, <3>1, <5>1, <5>2
      <4>4. g[i] = a \o ((b \o new) \o e)
        BY <3>3, <4>1
      <4>5. a \o b = SubSeq(x, i, j - 1)
        BY <3>4, <4>2
      <4>6. a \o ((b \o new) \o e) = ((a \o b) \o new) \o e
        <5> HIDE DEF a, b, e
        <5>1. Regrouped(a, b, new, e)
          BY <4>3, FourParts
        <5> QED BY <5>1 DEF Regrouped
      <4>7. InPlace(i, j)
        <5> HIDE DEF a, b
        <5> QED BY <4>4, <4>5, <4>6
      <4> HIDE DEF InPlace
      <4> QED BY <4>2, <4>7
    <3> HIDE DEF InPlace, Behind
    <3> QED BY <3>5, <3>6
  <2> HIDE DEF So
  <2> QED BY <2>1, <2>2, <2>3
<1>9. ASSUME NEW k \in Nat, k \in Good PROVE k + 1 \in Good
  <2> HIDE DEF So
  <2>1. \A i \in 1..(n + 1) : n + 1 - i < k + 1 => So(i)
    <3> HIDE DEF Good
    <3> QED BY <1>8, <1>9
  <2>2. k + 1 \in Nat
    OBVIOUS
  <2> QED BY <2>1, <2>2
<1>10. n + 1 \in Good
  <2> HIDE DEF Good
  <2> QED BY <1>1, <1>7, <1>9, CountUp
<1>11. So(1)
  <2>1. 1 \in 1..(n + 1) /\ n + 1 - 1 < n + 1
    BY <1>1
  <2> HIDE DEF So
  <2> QED BY <1>10, <2>1
<1> QED BY <1>3, <1>4, <1>11 DEF n, l, at

\* ReplacedInPlace: a string that is replaced once was there, and all around it stays.
THEOREM ReplacedInPlaceHolds == ReplacedInPlace
<1>1. Texts \subseteq Seq(Atoms) /\ Strings \subseteq Seq(Atoms)
  BY EditsAssumption DEF EditsAssumption
<1>2. ASSUME NEW x \in Texts, NEW old \in Strings, NEW new \in Strings,
             NEW y \in AfterReplace(x, old, new, FALSE)
      PROVE  \E i \in Occurrences(x, old) :
               y = SubSeq(x, 1, i - 1) \o new \o SubSeq(x, i + Len(old), Len(x))
  <2>1. x \in Seq(Atoms) /\ old \in Seq(Atoms) /\ new \in Seq(Atoms)
    BY <1>1
  <2>2. old # <<>> /\ Count(x, old) = 1 /\ y = Replaced(x, old, new)
    BY DEF AfterReplace, Refused
  <2> QED BY <2>1, <2>2, ReplacedOnce
<1> QED BY <1>2 DEF ReplacedInPlace

-----------------------------------------------------------------------------
\* Numbered edits with new texts.
EditsOver(S) == [first : Nat \ {0}, last : Nat, new : Seq(S)]

\* What is left of the lines after line a.
Pieces(lines, edits, a) == [i \in 1..(Len(lines) + 1 - a) |-> Piece(lines, edits, a + i)]

\* What is left of one line.
LEMMA PieceType ==
  ASSUME NEW S, NEW lines \in Seq(Seq(S)), NEW edits \in SUBSET EditsOver(S), NEW i \in Nat \ {0}
  PROVE  Piece(lines, edits, i) \in Seq(S)
<1>1. \A E \in SUBSET EditsOver(S) : NewOf(E) \in Seq(S)
  BY EmptySeq DEF NewOf, EditsOver
<1>2. (IF i <= Len(lines) THEN lines[i] ELSE <<>>) \in Seq(S)
  <2>1. <<>> \in Seq(S) /\ Len(lines) \in Nat
    BY EmptySeq, LenProperties
  <2>2. i <= Len(lines) => lines[i] \in Seq(S)
    BY <2>1, ElementOfSeq
  <2> QED BY <2>1, <2>2
<1>3. Inserted(edits, i) \in SUBSET EditsOver(S) /\ {e \in Covering(edits, i) : e.first = i} \in SUBSET EditsOver(S)
  BY DEF Inserted, Covering
<1> DEFINE u == NewOf(Inserted(edits, i))
           v == IF Covering(edits, i) # {} THEN NewOf({e \in Covering(edits, i) : e.first = i})
                ELSE IF i <= Len(lines) THEN lines[i] ELSE <<>>
<1>4. u \in Seq(S) /\ v \in Seq(S)
  BY <1>1, <1>2, <1>3
<1>5. Piece(lines, edits, i) = u \o v
  BY DEF Piece
<1> HIDE DEF u, v
<1> QED BY <1>4, <1>5, ConcatProperties

\* What is left of the lines after line a, each with a text of its own.
LEMMA PiecesType ==
  ASSUME NEW S, NEW lines \in Seq(Seq(S)), NEW edits \in SUBSET EditsOver(S),
         NEW a \in 0..(Len(lines) + 1)
  PROVE  /\ Pieces(lines, edits, a) \in Seq(Seq(S))
         /\ Len(Pieces(lines, edits, a)) = Len(lines) + 1 - a
<1>1. Len(lines) \in Nat
  BY LenProperties
<1>2. Len(lines) + 1 - a \in Nat /\ \A i \in 1..(Len(lines) + 1 - a) : a + i \in Nat \ {0}
  BY <1>1
<1>3. \A i \in 1..(Len(lines) + 1 - a) : Piece(lines, edits, a + i) \in Seq(S)
  BY <1>2, PieceType
<1> DEFINE k == Len(lines) + 1 - a
           s == [i \in 1..k |-> Piece(lines, edits, a + i)]
<1>4. s \in [1..k -> Seq(S)]
  BY <1>3
<1>5. k \in Nat /\ s = Pieces(lines, edits, a)
  BY <1>2 DEF Pieces
<1> HIDE DEF s, k
<1>6. s \in Seq(Seq(S)) /\ Len(s) = k
  BY <1>4, <1>5
<1> QED BY <1>5, <1>6 DEF k

\* Before the first of them, edits leave the lines as they are.
LEMMA PiecesBefore ==
  ASSUME NEW S, NEW lines \in Seq(Seq(S)), NEW edits \in SUBSET EditsOver(S),
         NEW b \in 0..Len(lines), NEW a \in 0..b, \A e \in edits : b < e.first
  PROVE  Joined(Pieces(lines, edits, a)) = Joined(SubSeq(lines, a + 1, b)) \o Joined(Pieces(lines, edits, b))
<1> DEFINE n == Len(lines)
           s == SubSeq(lines, a + 1, b)
           t == Pieces(lines, edits, b)
           p == Pieces(lines, edits, a)
<1>1. n \in Nat /\ a \in 0..(n + 1) /\ b \in 0..(n + 1) /\ a + 1 \in Int /\ b \in Int /\ a \in Nat /\ a <= b
  BY LenProperties
<1>2. \A i \in 1..n : lines[i] \in Seq(S)
  BY ElementOfSeq, <1>1
<1>3. s \in Seq(Seq(S)) /\ Len(s) = b - a /\ \A i \in 1..(b - a) : s[i] = lines[a + i]
  <2>1. \A i \in (a + 1)..b : lines[i] \in Seq(S)
    BY <1>1, <1>2
  <2>2. /\ s \in Seq(Seq(S)) /\ Len(s) = IF a + 1 <= b THEN b - (a + 1) + 1 ELSE 0
        /\ \A i \in 1..(b - (a + 1) + 1) : s[i] = lines[(a + 1) + i - 1]
    BY <1>1, <2>1, SubSeqProperties
  <2>3. b - (a + 1) + 1 = b - a /\ \A i \in 1..(b - a) : (a + 1) + i - 1 = a + i
    BY <1>1
  <2> HIDE DEF s
  <2> QED BY <1>1, <2>2, <2>3
<1>4. t \in Seq(Seq(S)) /\ Len(t) = n + 1 - b /\ p \in Seq(Seq(S)) /\ Len(p) = n + 1 - a
  BY <1>1, PiecesType
<1>5. \A i \in 1..(n + 1 - b) : t[i] = Piece(lines, edits, b + i)
  BY DEF Pieces
<1>6. \A i \in 1..(n + 1 - a) : p[i] = Piece(lines, edits, a + i)
  BY DEF Pieces
<1>7. ASSUME NEW i \in 1..b PROVE Piece(lines, edits, i) = lines[i]
  <2>1. \A e \in edits : e.first > i
    BY <1>1, <1>7 DEF EditsOver
  <2>2. Inserted(edits, i) = {} /\ Covering(edits, i) = {}
    <3>1. \A e \in edits : e.first \in Nat
      BY DEF EditsOver
    <3> QED BY <1>1, <2>1, <3>1 DEF Inserted, Covering
  <2>3. i <= n /\ lines[i] \in Seq(S)
    BY <1>1, <1>2
  <2>4. <<>> \o lines[i] = lines[i]
    BY <2>3, ConcatEmptySeq
  <2> QED BY <2>2, <2>3, <2>4 DEF Piece, NewOf
<1> HIDE DEF n, s, t, p
<1> DEFINE w == s \o t
<1>8. w \in Seq(Seq(S)) /\ Len(w) = n + 1 - a
  <2>1. w \in Seq(Seq(S)) /\ Len(w) = Len(s) + Len(t)
    BY <1>3, <1>4, ConcatProperties
  <2> HIDE DEF w
  <2> QED BY <1>1, <1>3, <1>4, <2>1
<1>9. ASSUME NEW i \in 1..(n + 1 - a) PROVE p[i] = w[i]
  <2>1. w[i] = IF i <= b - a THEN s[i] ELSE t[i - (b - a)]
    <3>1. \A k \in 1..(Len(s) + Len(t)) : w[k] = IF k <= Len(s) THEN s[k] ELSE t[k - Len(s)]
      BY <1>3, <1>4, ConcatProperties
    <3>2. i \in 1..(Len(s) + Len(t))
      BY <1>1, <1>3, <1>4
    <3> HIDE DEF w
    <3> QED BY <1>3, <3>1, <3>2
  <2> HIDE DEF w
  <2>2. CASE i <= b - a
    <3>1. i \in 1..(b - a) /\ a + i \in 1..b
      BY <1>1, <2>2
    <3> QED BY <1>3, <1>6, <1>7, <2>1, <2>2, <3>1
  <2>3. CASE ~(i <= b - a)
    <3>1. i - (b - a) \in 1..(n + 1 - b) /\ b + (i - (b - a)) = a + i
      BY <1>1, <2>3
    <3> QED BY <1>5, <1>6, <2>1, <2>3, <3>1
  <2> QED BY <2>2, <2>3
<1>10. p = w
  <2> HIDE DEF w
  <2> QED BY <1>4, <1>8, <1>9, SeqEqual
<1>11. Joined(s \o t) = Joined(s) \o Joined(t)
  BY <1>3, <1>4, JoinedConcat
<1> QED BY <1>10, <1>11 DEF s, t, p

\* What edits do to the lines after some line is what those do that reach there.
LEMMA PiecesAfter ==
  ASSUME NEW lines, NEW edits, NEW fewer, NEW a \in Nat, Len(lines) \in Nat,
         \A i \in Nat : i > a => Piece(lines, edits, i) = Piece(lines, fewer, i)
  PROVE  Pieces(lines, edits, a) = Pieces(lines, fewer, a)
<1>1. \A i \in 1..(Len(lines) + 1 - a) : a + i \in Nat /\ a + i > a
  OBVIOUS
<1>2. \A i \in 1..(Len(lines) + 1 - a) : Piece(lines, edits, a + i) = Piece(lines, fewer, a + i)
  BY <1>1
<1> QED BY <1>2 DEF Pieces

\* One line after the other.
LEMMA PiecesFirst ==
  ASSUME NEW S, NEW lines \in Seq(Seq(S)), NEW edits \in SUBSET EditsOver(S), NEW a \in 0..Len(lines)
  PROVE  Joined(Pieces(lines, edits, a)) = Piece(lines, edits, a + 1) \o Joined(Pieces(lines, edits, a + 1))
<1> DEFINE n == Len(lines)
           x == Piece(lines, edits, a + 1)
           s == <<x>>
           t == Pieces(lines, edits, a + 1)
           p == Pieces(lines, edits, a)
           w == s \o t
<1>1. n \in Nat /\ a \in 0..(n + 1) /\ a + 1 \in 0..(n + 1) /\ a + 1 \in Nat \ {0}
  BY LenProperties
<1>2. t \in Seq(Seq(S)) /\ Len(t) = n - a /\ p \in Seq(Seq(S)) /\ Len(p) = n + 1 - a
  <2>1. t \in Seq(Seq(S)) /\ Len(t) = n + 1 - (a + 1) /\ p \in Seq(Seq(S)) /\ Len(p) = n + 1 - a
    BY <1>1, PiecesType
  <2> HIDE DEF t, p
  <2> QED BY <1>1, <2>1
<1>3. x \in Seq(S)
  BY <1>1, PieceType
<1>4. \A i \in 1..(n - a) : t[i] = Piece(lines, edits, (a + 1) + i)
  BY <1>1 DEF Pieces
<1>5. \A i \in 1..(n + 1 - a) : p[i] = Piece(lines, edits, a + i)
  BY DEF Pieces
<1>6. x = Piece(lines, edits, a + 1)
  OBVIOUS
<1> HIDE DEF n, x, t, p
<1>7. s \in Seq(Seq(S)) /\ Len(s) = 1 /\ s[1] = x
  BY <1>3
<1> HIDE DEF s
<1>8. w \in Seq(Seq(S)) /\ Len(w) = Len(s) + Len(t) /\
      \A i \in 1..(Len(s) + Len(t)) : w[i] = IF i <= Len(s) THEN s[i] ELSE t[i - Len(s)]
  BY <1>2, <1>7, ConcatProperties
<1> HIDE DEF w
<1>9. Len(w) = n + 1 - a /\ \A i \in 1..(n + 1 - a) : w[i] = IF i <= 1 THEN s[i] ELSE t[i - 1]
  <2>1. Len(s) + Len(t) = n + 1 - a
    BY <1>1, <1>2, <1>7
  <2> QED BY <1>7, <1>8, <2>1
<1>10. ASSUME NEW i \in 1..(n + 1 - a) PROVE p[i] = w[i]
  <2>1. CASE i = 1
    BY <1>5, <1>6, <1>7, <1>9, <2>1
  <2>2. CASE i # 1
    <3>1. ~(i <= 1) /\ i - 1 \in 1..(n - a) /\ (a + 1) + (i - 1) = a + i
      BY <1>1, <2>2
    <3> QED BY <1>4, <1>5, <1>9, <3>1
  <2> QED BY <2>1, <2>2
<1>11. p = w
  BY <1>2, <1>8, <1>9, <1>10, SeqEqual
<1>12. Joined(s \o t) = Joined(s) \o Joined(t)
  BY <1>2, <1>7, JoinedConcat
<1>13. Joined(s) = x
  BY <1>3, JoinedFacts DEF s
<1> QED BY <1>11, <1>12, <1>13 DEF w, x, t, p

\* Where lines were taken away nothing is left.
LEMMA PiecesBlank ==
  ASSUME NEW S, NEW lines \in Seq(Seq(S)), NEW edits \in SUBSET EditsOver(S),
         NEW b \in 0..Len(lines), NEW a \in 0..b, \A i \in (a + 1)..b : Piece(lines, edits, i) = <<>>
  PROVE  Joined(Pieces(lines, edits, a)) = Joined(Pieces(lines, edits, b))
<1> DEFINE end == Joined(Pieces(lines, edits, b))
           Good == {k \in Nat : k <= b - a => Joined(Pieces(lines, edits, b - k)) = end}
<1>1. Len(lines) \in Nat
  BY LenProperties
<1>2. 0 \in Good
  <2>1. b - 0 = b
    BY <1>1
  <2> QED BY <2>1
<1>3. ASSUME NEW k \in Nat, k \in Good PROVE k + 1 \in Good
  <2>1. ASSUME k + 1 <= b - a PROVE Joined(Pieces(lines, edits, b - (k + 1))) = end
    <3> DEFINE c == b - (k + 1)
    <3>1. c \in 0..Len(lines) /\ c + 1 = b - k /\ c + 1 \in (a + 1)..b /\ k <= b - a /\ c + 1 \in 0..(Len(lines) + 1)
      BY <1>1, <2>1
    <3> HIDE DEF c
    <3>2. Joined(Pieces(lines, edits, c)) = Piece(lines, edits, c + 1) \o Joined(Pieces(lines, edits, c + 1))
      BY <3>1, PiecesFirst
    <3> DEFINE rest == Joined(Pieces(lines, edits, c + 1))
    <3>3. rest \in Seq(S)
      BY <3>1, PiecesType, JoinedFacts
    <3>4. rest = end
      BY <1>3, <3>1
    <3> HIDE DEF rest
    <3>5. <<>> \o rest = rest
      BY <3>3, ConcatEmptySeq
    <3>6. Joined(Pieces(lines, edits, c)) = <<>> \o rest
      BY <3>1, <3>2 DEF rest
    <3> QED BY <3>4, <3>5, <3>6 DEF c
  <2>2. k + 1 \in Nat
    OBVIOUS
  <2> HIDE DEF end
  <2> QED BY <2>1, <2>2
<1>4. b - a \in Good
  <2> HIDE DEF Good
  <2>1. b - a \in Nat
    BY <1>1
  <2> QED BY <1>2, <1>3, <2>1, CountUp
<1>5. b - (b - a) = a /\ b - a <= b - a
  BY <1>1
<1> QED BY <1>4, <1>5

\* The first of several edits puts its text before what the others leave behind it.
LEMMA OneMoreEdit ==
  ASSUME NEW S, NEW lines \in Seq(Seq(S)), NEW fewer \in SUBSET EditsOver(S), NEW e \in EditsOver(S),
         e.last >= e.first - 1, e.last <= Len(lines),
         \A d \in fewer : d.first > e.first /\ d.first > e.last
  PROVE  Joined(Pieces(lines, fewer \cup {e}, e.first - 1)) = e.new \o Joined(Pieces(lines, fewer, e.last))
<1> DEFINE n == Len(lines)
           f == e.first
           l == e.last
           edits == fewer \cup {e}
           Onward(E, a) == Joined(Pieces(lines, E, a))
<1>1. n \in Nat /\ f \in Nat \ {0} /\ l \in Nat /\ e.new \in Seq(S)
  BY LenProperties DEF EditsOver
<1>2. \A d \in fewer : d.first \in Nat /\ d.last \in Nat
  BY DEF EditsOver
<1>3. edits \in SUBSET EditsOver(S)
  OBVIOUS
<1>4. NewOf({e}) = e.new /\ NewOf({}) = <<>>
  BY DEF NewOf
<1>5. ASSUME NEW i \in Nat, i > l, i > f PROVE Piece(lines, edits, i) = Piece(lines, fewer, i)
  <2>1. Inserted(edits, i) = Inserted(fewer, i)
    BY <1>1, <1>5 DEF Inserted
  <2>2. Covering(edits, i) = Covering(fewer, i)
    BY <1>1, <1>5 DEF Covering
  <2> QED BY <2>1, <2>2 DEF Piece
<1>6. \A E \in SUBSET EditsOver(S) : \A a \in 0..(n + 1) : Onward(E, a) \in Seq(S)
  BY PiecesType, JoinedFacts
<1>7. f - 1 \in 0..n /\ (f - 1) + 1 = f
  BY <1>1
<1>8. Onward(edits, f - 1) = Piece(lines, edits, f) \o Onward(edits, f)
  <2>1. Onward(edits, f - 1) = Piece(lines, edits, (f - 1) + 1) \o Onward(edits, (f - 1) + 1)
    <3> HIDE DEF f, edits
    <3> QED BY <1>3, <1>7, PiecesFirst
  <2> HIDE DEF edits, Onward
  <2> QED BY <1>7, <2>1
<1>9. CASE l >= f
  <2>1. Piece(lines, edits, f) = e.new
    <3>1. Inserted(edits, f) = {}
      BY <1>1, <1>2, <1>9 DEF Inserted
    <3>2. {d \in Covering(edits, f) : d.first = f} = {e} /\ Covering(edits, f) # {}
      BY <1>1, <1>2, <1>9 DEF Covering
    <3>3. <<>> \o e.new = e.new
      BY <1>1, ConcatEmptySeq
    <3> HIDE DEF edits, f
    <3> QED BY <1>4, <3>1, <3>2, <3>3 DEF Piece
  <2>2. ASSUME NEW i \in (f + 1)..l PROVE Piece(lines, edits, i) = <<>>
    <3>1. i > f /\ i <= l /\ \A d \in fewer : d.first > l
      BY <1>1
    <3>2. Inserted(edits, i) = {}
      BY <1>1, <1>2, <2>2, <3>1 DEF Inserted
    <3>3. {d \in Covering(edits, i) : d.first = i} = {} /\ Covering(edits, i) # {}
      BY <1>1, <1>2, <2>2, <3>1 DEF Covering
    <3>4. <<>> \o <<>> = <<>>
      OBVIOUS
    <3> HIDE DEF edits, f
    <3> QED BY <1>4, <3>2, <3>3, <3>4 DEF Piece
  <2>3. Onward(edits, f) = Onward(edits, l)
    <3>1. l \in 0..n /\ f \in 0..l
      BY <1>1, <1>9
    <3> HIDE DEF edits, f, l
    <3> QED BY <1>3, <2>2, <3>1, PiecesBlank
  <2>4. Pieces(lines, edits, l) = Pieces(lines, fewer, l)
    <3>1. \A i \in Nat : i > l => Piece(lines, edits, i) = Piece(lines, fewer, i)
      <4>1. ASSUME NEW i \in Nat, i > l PROVE i > f
        BY <1>1, <1>9, <4>1
      <4> HIDE DEF edits, l, f
      <4> QED BY <1>5, <4>1
    <3> HIDE DEF edits, l, f
    <3> QED BY <1>1, <3>1, PiecesAfter DEF n
  <2> QED BY <1>8, <2>1, <2>3, <2>4
<1>10. CASE ~(l >= f)
  <2>1. l = f - 1
    BY <1>1, <1>10
  <2> DEFINE X == IF f <= n THEN lines[f] ELSE <<>>
             R == Onward(fewer, f)
  <2>2. Covering(edits, f) = {} /\ Covering(fewer, f) = {} /\ Inserted(edits, f) = {e} /\ Inserted(fewer, f) = {}
    <3>1. \A d \in fewer : d.first > f
      BY <1>1
    <3> QED BY <1>1, <1>2, <2>1, <3>1 DEF Covering, Inserted
  <2>3. Piece(lines, edits, f) = e.new \o X /\ Piece(lines, fewer, f) = <<>> \o X
    <3> HIDE DEF edits, f
    <3> QED BY <1>4, <2>2 DEF Piece
  <2>4. X \in Seq(S) /\ R \in Seq(S)
    <3>1. f \in 0..(n + 1) /\ (f <= n => f \in 1..n)
      BY <1>1, <1>7
    <3>2. f <= n => lines[f] \in Seq(S)
      BY <3>1, ElementOfSeq
    <3>3. <<>> \in Seq(S)
      BY EmptySeq
    <3>4. R \in Seq(S)
      BY <1>6, <3>1
    <3> QED BY <3>2, <3>3, <3>4
  <2>5. Onward(edits, f) = R
    <3>1. \A i \in Nat : i > f => Piece(lines, edits, i) = Piece(lines, fewer, i)
      <4>1. ASSUME NEW i \in Nat, i > f PROVE i > l
        BY <1>1, <2>1, <4>1
      <4> HIDE DEF edits, l, f
      <4> QED BY <1>5, <4>1
    <3>2. Pieces(lines, edits, f) = Pieces(lines, fewer, f)
      <4> HIDE DEF edits, l, f
      <4> QED BY <1>1, <3>1, PiecesAfter DEF n
    <3> QED BY <3>2
  <2>6. Onward(fewer, l) = Piece(lines, fewer, f) \o R
    <3>1. Onward(fewer, f - 1) = Piece(lines, fewer, (f - 1) + 1) \o Onward(fewer, (f - 1) + 1)
      <4> HIDE DEF f
      <4> QED BY <1>7, PiecesFirst
    <3> HIDE DEF Onward
    <3> QED BY <1>7, <2>1, <3>1
  <2>7. <<>> \o X = X
    <3> HIDE DEF X
    <3> QED BY <2>4, ConcatEmptySeq
  <2>8. (e.new \o X) \o R = e.new \o (X \o R)
    <3> DEFINE new == e.new
    <3>1. new \in Seq(S)
      BY <1>1
    <3>2. (new \o X) \o R = new \o (X \o R)
      <4> HIDE DEF X, R, new
      <4> QED BY <2>4, <3>1, ConcatAssociative
    <3> QED BY <3>2
  <2>9. Onward(edits, f - 1) = (e.new \o X) \o R /\ Onward(fewer, l) = X \o R
    <3> HIDE DEF X, R, Onward, edits
    <3> QED BY <1>8, <2>3, <2>5, <2>6, <2>7
  <2> HIDE DEF X, R, Onward, edits
  <2>10. Onward(edits, f - 1) = e.new \o Onward(fewer, l)
    BY <2>8, <2>9
  <2> QED BY <2>10 DEF Onward, edits
<1> QED BY <1>9, <1>10

-----------------------------------------------------------------------------
\* The two parts of a sequence.
LEMMA Halves ==
  ASSUME NEW V, NEW a \in Seq(V), NEW t \in Seq(V)
  PROVE  /\ SubSeq(a \o t, 1, Len(a)) = a
         /\ SubSeq(a \o t, Len(a) + 1, Len(a \o t)) = t
<1> DEFINE m == Len(a)
           k == Len(t)
           w == a \o t
<1>1. m \in Nat /\ k \in Nat
  BY LenProperties
<1>2. w \in Seq(V) /\ Len(w) = m + k /\ \A i \in 1..(m + k) : w[i] = IF i <= m THEN a[i] ELSE t[i - m]
  BY ConcatProperties
<1> HIDE DEF w
<1>3. \A i \in 1..(m + k) : w[i] \in V
  BY <1>1, <1>2, ElementOfSeq
<1>4. SubSeq(w, 1, m) = a
  <2> DEFINE s == SubSeq(w, 1, m)
  <2>1. \A i \in 1..m : w[i] \in V
    BY <1>1, <1>3
  <2>2. s \in Seq(V) /\ Len(s) = IF 1 <= m THEN m - 1 + 1 ELSE 0
    BY <1>1, <2>1, SubSeqProperties
  <2>3. \A i \in 1..(m - 1 + 1) : s[i] = w[1 + i - 1]
    BY <1>1, <2>1, SubSeqProperties
  <2>4. Len(s) = m
    <3> HIDE DEF s, m
    <3> QED BY <1>1, <2>2
  <2>5. \A i \in 1..m : i \in 1..(m - 1 + 1) /\ 1 + i - 1 = i /\ i \in 1..(m + k) /\ i <= m
    BY <1>1
  <2>6. \A i \in 1..m : s[i] = a[i]
    <3> HIDE DEF s, m, k
    <3> QED BY <1>2, <2>3, <2>5
  <2>7. s \in Seq(V)
    BY <2>2
  <2>8. Len(s) = Len(a)
    BY <2>4
  <2> HIDE DEF s, m
  <2>9. \A i \in 1..Len(s) : s[i] = a[i]
    BY <2>4, <2>6
  <2>10. s = a
    BY <2>7, <2>8, <2>9, SeqEqual
  <2> QED BY <2>10 DEF s
<1>5. SubSeq(w, m + 1, m + k) = t
  <2> DEFINE s == SubSeq(w, m + 1, m + k)
  <2>1. \A i \in (m + 1)..(m + k) : w[i] \in V
    BY <1>1, <1>3
  <2>2. s \in Seq(V) /\ Len(s) = IF m + 1 <= m + k THEN (m + k) - (m + 1) + 1 ELSE 0
    <3> HIDE DEF m, k
    <3> QED BY <1>1, <2>1, SubSeqProperties
  <2>3. \A i \in 1..((m + k) - (m + 1) + 1) : s[i] = w[(m + 1) + i - 1]
    <3> HIDE DEF m, k
    <3> QED BY <1>1, <2>1, SubSeqProperties
  <2>4. Len(s) = k
    <3> HIDE DEF s, m, k
    <3> QED BY <1>1, <2>2
  <2>5. \A i \in 1..k : /\ i \in 1..((m + k) - (m + 1) + 1) /\ (m + 1) + i - 1 = m + i
                        /\ m + i \in 1..(m + k) /\ ~(m + i <= m) /\ (m + i) - m = i
    BY <1>1
  <2>6. \A i \in 1..k : s[i] = t[i]
    <3> HIDE DEF s, m, k
    <3> QED BY <1>2, <2>3, <2>5
  <2>7. s \in Seq(V)
    BY <2>2
  <2>8. Len(s) = Len(t)
    BY <2>4
  <2> HIDE DEF s, k
  <2>9. \A i \in 1..Len(s) : s[i] = t[i]
    BY <2>4, <2>6
  <2>10. s = t
    BY <2>7, <2>8, <2>9, SeqEqual
  <2> QED BY <2>10 DEF s
<1> QED BY <1>2, <1>4, <1>5 DEF w

\* What a splice leaves and takes.
TwoSplits(V, a, t, b, u, r) ==
  a \in Seq(V) /\ t \in Seq(V) /\ b \in Seq(V) /\ u \in Seq(V) /\ r = a \o t /\ r = b \o u

SplicesTo(V, r, f, l, new, a, u) ==
  Spliced(r, f, l, new) = a \o new \o u /\ Spliced(r, f, l, new) \in Seq(V)

\* A splice keeps the first part of one split and the last part of the other.
LEMMA SplicedIs ==
  ASSUME NEW V, NEW a, NEW t, NEW b, NEW u, NEW r, TwoSplits(V, a, t, b, u, r),
         NEW new \in Seq(V), NEW f \in Nat \ {0}, Len(a) = f - 1, NEW l, Len(b) = l
  PROVE  SplicesTo(V, r, f, l, new, a, u)
<1>0. a \in Seq(V) /\ t \in Seq(V) /\ b \in Seq(V) /\ u \in Seq(V) /\ r = a \o t /\ r = b \o u
  BY DEF TwoSplits
<1>1. SubSeq(r, 1, f - 1) = a
  BY <1>0, Halves
<1>2. SubSeq(r, Len(b) + 1, Len(r)) = u
  BY <1>0, Halves
<1> DEFINE w == a \o new
<1>3. w \in Seq(V)
  BY <1>0, ConcatProperties
<1>4. Spliced(r, f, l, new) = w \o u
  BY <1>1, <1>2 DEF Spliced
<1>5. w \o u \in Seq(V)
  <2> HIDE DEF w
  <2> QED BY <1>0, <1>3, ConcatProperties
<1> QED BY <1>4, <1>5 DEF SplicesTo

\* Three parts in a row, however they are joined.
Grouped(a, b, c) == (a \o b) \o c = a \o (b \o c)

\* They may be joined from the left or from the right.
LEMMA ThreeParts ==
  ASSUME NEW S, NEW a \in Seq(S), NEW b \in Seq(S), NEW c \in Seq(S)
  PROVE  Grouped(a, b, c)
BY ConcatAssociative DEF Grouped

\* The first c lines are as they were, and what follows them is what the edits leave.
SplitAt(S, lines, r, edits, c) ==
  \E t \in Seq(Seq(S)) : r = SubSeq(lines, 1, c) \o t /\ Joined(t) = Joined(Pieces(lines, edits, c))

\* So it is up to the first of the edits.
SplitUpTo(S, lines, r, edits) ==
  \A c \in 0..Len(lines) : (\A e \in edits : c < e.first) => SplitAt(S, lines, r, edits, c)

\* One more edit, before all of the others, leaves it so.
LEMMA SplitFurther ==
  ASSUME NEW S, NEW lines \in Seq(Seq(S)), NEW fewer \in SUBSET EditsOver(S), NEW e \in EditsOver(S),
         e.last >= e.first - 1, e.last <= Len(lines),
         \A d \in fewer : d.first > e.first /\ d.first > e.last,
         NEW r, SplitUpTo(S, lines, r, fewer), NEW N \in Seq(Seq(S)), Joined(N) = e.new
  PROVE  /\ Spliced(r, e.first, e.last, N) \in Seq(Seq(S))
         /\ SplitUpTo(S, lines, Spliced(r, e.first, e.last, N), fewer \cup {e})
<1> DEFINE n == Len(lines)
           f == e.first
           l == e.last
           V == Seq(S)
           edits == fewer \cup {e}
           A == SubSeq(lines, 1, f - 1)
           B == SubSeq(lines, 1, l)
           sp == Spliced(r, f, l, N)
<1>1. n \in Nat /\ f \in Nat \ {0} /\ l \in Nat /\ e.new \in Seq(S) /\ f - 1 \in 0..n /\ l \in 0..n
  BY LenProperties DEF EditsOver
<1>2. \A d \in fewer : d.first \in Nat
  BY DEF EditsOver
<1>3. N \in Seq(V) /\ Joined(N) = e.new
  OBVIOUS
<1>4. \A i \in 1..n : lines[i] \in V
  BY <1>1, ElementOfSeq
<1>5. \A i \in Int, j \in 0..n : i >= 1 => SubSeq(lines, i, j) \in Seq(V)
  <2>1. ASSUME NEW i \in Int, NEW j \in 0..n, i >= 1 PROVE SubSeq(lines, i, j) \in Seq(V)
    <3>1. \A k \in i..j : k \in 1..n /\ j \in Int
      BY <1>1, <2>1
    <3>2. \A k \in i..j : lines[k] \in V
      BY <1>4, <3>1
    <3>3. j \in Int
      BY <1>1
    <3> HIDE DEF n, V
    <3> QED BY <3>2, <3>3, SubSeqProperties
  <2> QED BY <2>1
<1>6. \A j \in 0..n : Len(SubSeq(lines, 1, j)) = j
  <2>1. ASSUME NEW j \in 0..n PROVE Len(SubSeq(lines, 1, j)) = j
    <3>1. \A k \in 1..j : lines[k] \in V
      BY <1>1, <1>4
    <3>2. Len(SubSeq(lines, 1, j)) = IF 1 <= j THEN j - 1 + 1 ELSE 0
      BY <3>1, SubSeqProperties
    <3>3. j - 1 + 1 = j /\ (~(1 <= j) => j = 0)
      BY <1>1
    <3> QED BY <3>2, <3>3
  <2> QED BY <2>1
<1>7. PICK t \in Seq(V) : r = A \o t
  <2>1. \A d \in fewer : f - 1 < d.first
    BY <1>1, <1>2
  <2>2. SplitAt(S, lines, r, fewer, f - 1)
    BY <1>1, <2>1 DEF SplitUpTo
  <2> QED BY <2>2 DEF SplitAt
<1>8. PICK u \in Seq(V) : r = B \o u /\ Joined(u) = Joined(Pieces(lines, fewer, l))
  <2>1. \A d \in fewer : l < d.first
    BY <1>1, <1>2
  <2>2. SplitAt(S, lines, r, fewer, l)
    BY <1>1, <2>1 DEF SplitUpTo
  <2> QED BY <2>2 DEF SplitAt
<1>9. A \in Seq(V) /\ B \in Seq(V) /\ Len(A) = f - 1 /\ Len(B) = l
  <2>1. 1 \in Int /\ 1 >= 1
    OBVIOUS
  <2> HIDE DEF V, n, f, l
  <2>2. A \in Seq(V) /\ B \in Seq(V)
    BY <1>1, <1>5, <2>1
  <2> QED BY <1>1, <1>6, <2>2
<1>10. sp = A \o N \o u /\ sp \in Seq(V)
  <2> DEFINE a == A
             b == B
             new == N
             first == f
             last == l
  <2>1. TwoSplits(V, a, t, b, u, r)
    BY <1>7, <1>8, <1>9 DEF TwoSplits
  <2>2. new \in Seq(V) /\ first \in Nat \ {0} /\ Len(a) = first - 1 /\ Len(b) = last
    BY <1>1, <1>3, <1>9
  <2>3. SplicesTo(V, r, first, last, new, a, u)
    <3> HIDE DEF a, b, new, first, last
    <3> QED BY <2>1, <2>2, SplicedIs
  <2> QED BY <2>3 DEF SplicesTo
<1>11. ASSUME NEW c \in 0..n, \A d \in edits : c < d.first PROVE SplitAt(S, lines, sp, edits, c)
  <2> DEFINE P == SubSeq(lines, 1, c)
             Q == SubSeq(lines, c + 1, f - 1)
             Z == (Q \o N) \o u
  <2>1. c \in 0..(f - 1) /\ c + 1 \in Int /\ c + 1 >= 1
    BY <1>1, <1>11
  <2>2. P \in Seq(V) /\ Q \in Seq(V)
    BY <1>1, <1>5, <2>1
  <2>3. P \o Q = A
    <3>1. 1 \in 1..(n + 1) /\ c \in (1 - 1)..n /\ f - 1 \in c..n
      BY <1>1, <2>1
    <3> HIDE DEF f
    <3> QED BY <3>1, ConcatAdjacentSubSeq
  <2>4. Z \in Seq(V) /\ Joined(Z) = (Joined(Q) \o e.new) \o Joined(u)
    <3> DEFINE y == Q \o N
    <3> HIDE DEF Q
    <3>1. y \in Seq(V) /\ Joined(y) = Joined(Q) \o Joined(N)
      BY <1>3, <2>2, ConcatProperties, JoinedConcat
    <3> HIDE DEF y
    <3>2. y \o u \in Seq(V) /\ Joined(y \o u) = Joined(y) \o Joined(u)
      BY <3>1, ConcatProperties, JoinedConcat
    <3> QED BY <1>3, <3>1, <3>2 DEF y
  <2>5. P \o Z = sp
    <3>1. Regrouped(P, Q, N, u)
      <4> HIDE DEF P, Q, V
      <4> QED BY <1>3, <2>2, FourParts
    <3>2. P \o Z = ((P \o Q) \o N) \o u
      BY <3>1 DEF Regrouped
    <3> HIDE DEF P, Q, Z, sp, A
    <3> QED BY <1>10, <2>3, <3>2
  <2>6. Joined(Pieces(lines, edits, c)) = Joined(Q) \o Joined(Pieces(lines, edits, f - 1))
    <3>1. \A d \in edits : f - 1 < d.first
      BY <1>1, <1>2
    <3>2. edits \in SUBSET EditsOver(S)
      OBVIOUS
    <3> HIDE DEF edits, f
    <3> QED BY <1>1, <2>1, <3>1, <3>2, PiecesBefore
  <2>7. Joined(Pieces(lines, edits, f - 1)) = e.new \o Joined(u)
    <3>1. Joined(Pieces(lines, fewer \cup {e}, e.first - 1)) = e.new \o Joined(Pieces(lines, fewer, e.last))
      <4> HIDE DEF n, f, l, V, edits, A, B, sp, P, Q, Z
      <4> QED BY OneMoreEdit
    <3> QED BY <1>8, <3>1
  <2> DEFINE q == Joined(Q)
             x == e.new
             w == Joined(u)
  <2>8. q \in Seq(S) /\ x \in Seq(S) /\ w \in Seq(S)
    BY <1>1, <2>2, JoinedFacts
  <2>9. Grouped(q, x, w)
    <3> HIDE DEF q, x, w
    <3> QED BY <2>8, ThreeParts
  <2>10. Joined(Z) = Joined(Pieces(lines, edits, c))
    <3>1. Joined(Z) = (q \o x) \o w /\ Joined(Pieces(lines, edits, c)) = q \o (x \o w)
      BY <2>4, <2>6, <2>7
    <3> HIDE DEF q, x, w, Z, edits
    <3> QED BY <2>9, <3>1 DEF Grouped
  <2> HIDE DEF P, Z, sp, edits, V
  <2>11. sp = P \o Z /\ Z \in Seq(Seq(S))
    BY <2>4, <2>5 DEF V
  <2> QED BY <2>10, <2>11 DEF SplitAt, P
<1>12. SplitUpTo(S, lines, sp, edits)
  <2> HIDE DEF edits, sp
  <2> QED BY <1>11 DEF SplitUpTo
<1> QED BY <1>10, <1>12

-----------------------------------------------------------------------------
\* Edits of line ranges as a call may give them.
Editing(S, lines, edits) ==
  lines \in Seq(Seq(S)) /\ edits \in Seq(EditsOver(S)) /\ RangesValid(edits, Len(lines))

\* Each edit begins past all of the ones before it and ends within the text.
LEMMA EditsOrdered ==
  ASSUME NEW S, NEW lines, NEW edits, Editing(S, lines, edits)
  PROVE  /\ \A j \in 1..Len(edits) : /\ edits[j] \in EditsOver(S)
                                     /\ edits[j].last >= edits[j].first - 1
                                     /\ edits[j].last <= Len(lines)
         /\ \A j, k \in 1..Len(edits) :
              j < k => edits[k].first > edits[j].first /\ edits[k].first > edits[j].last
<1> DEFINE m == Len(edits)
           n == Len(lines)
           Past(j, k) == edits[k].first > edits[j].first /\ edits[k].first > edits[j].last
<1>1. m \in Nat /\ n \in Nat /\ DOMAIN edits = 1..m /\ \A j \in 1..m : edits[j] \in EditsOver(S)
  BY LenProperties, ElementOfSeq DEF Editing
<1>2. \A j \in 1..m : edits[j].first \in Nat \ {0} /\ edits[j].last \in Nat
  BY <1>1 DEF EditsOver
<1>3. /\ \A j \in 1..m : InRange(edits[j], n)
      /\ \A k \in 2..m : Past(k - 1, k)
  BY <1>1 DEF Editing, RangesValid
<1>4. \A j \in 1..m : edits[j].last >= edits[j].first - 1 /\ edits[j].last <= n
  <2>1. ASSUME NEW j \in 1..m PROVE edits[j].last >= edits[j].first - 1 /\ edits[j].last <= n
    <3>1. InRange(edits[j], n) /\ edits[j].first \in Nat \ {0} /\ edits[j].last \in Nat
      BY <1>2, <1>3
    <3>2. /\ edits[j].last >= edits[j].first - 1
          /\ IF edits[j].first = edits[j].last + 1 THEN edits[j].first <= n + 1 ELSE edits[j].last <= n
      BY <3>1 DEF InRange
    <3> HIDE DEF n
    <3> QED BY <1>1, <3>1, <3>2
  <2> QED BY <2>1
<1> DEFINE Good == {d \in Nat : \A j, k \in 1..m : k = j + d + 1 => Past(j, k)}
<1>5. 0 \in Good
  <2>1. ASSUME NEW j \in 1..m, NEW k \in 1..m, k = j + 0 + 1 PROVE Past(j, k)
    <3>1. k \in 2..m /\ k - 1 = j
      BY <1>1, <2>1
    <3> HIDE DEF Past
    <3> QED BY <1>3, <3>1
  <2> QED BY <2>1
<1>6. ASSUME NEW d \in Nat, d \in Good PROVE d + 1 \in Good
  <2>1. ASSUME NEW j \in 1..m, NEW k \in 1..m, k = j + (d + 1) + 1 PROVE Past(j, k)
    <3>1. k \in 2..m /\ k - 1 \in 1..m /\ k - 1 = j + d + 1
      BY <1>1, <2>1
    <3>2. Past(j, k - 1) /\ Past(k - 1, k)
      <4> HIDE DEF Past
      <4>1. \A b \in 1..m : b = j + d + 1 => Past(j, b)
        BY <1>6
      <4> QED BY <1>3, <3>1, <4>1
    <3> QED BY <1>2, <3>1, <3>2
  <2>2. d + 1 \in Nat
    OBVIOUS
  <2> HIDE DEF Past
  <2> QED BY <2>1, <2>2
<1> HIDE DEF Good
<1>7. Nat \subseteq Good
  BY <1>5, <1>6, CountUp
<1>8. ASSUME NEW j \in 1..m, NEW k \in 1..m, j < k PROVE Past(j, k)
  <2> DEFINE d == k - j - 1
  <2>1. d \in Nat /\ k = j + d + 1
    BY <1>1, <1>8
  <2> HIDE DEF d, Past
  <2> QED BY <1>7, <2>1 DEF Good
<1> QED BY <1>1, <1>4, <1>8

-----------------------------------------------------------------------------
\* The edits from the j-th on.
EditsFrom(edits, j) == {edits[k] : k \in j..Len(edits)}

\* One edit, applied to what those after it leave.
AppliedAt(g, edits, j) == Spliced(g[j + 1], edits[j].first, edits[j].last, Lines(edits[j].new))

\* g[j]: the lines after the edits from the j-th on, as far as these are lines.
AppliesBack(S, g, lines, edits) ==
  /\ g[Len(edits) + 1] = lines
  /\ \A j \in 1..Len(edits) : AppliedAt(g, edits, j) \in Seq(Seq(S)) => g[j] = AppliedAt(g, edits, j)

\* Without edits the pieces are the lines.
LEMMA NoEdits ==
  ASSUME NEW S, NEW lines \in Seq(Seq(S))
  PROVE  SplitUpTo(S, lines, lines, {})
<1> DEFINE n == Len(lines)
<1>1. n \in Nat /\ \A i \in 1..n : lines[i] \in Seq(S)
  BY LenProperties, ElementOfSeq
<1>2. {} \in SUBSET EditsOver(S)
  OBVIOUS
<1>3. Joined(Pieces(lines, {}, n)) = <<>>
  <2> DEFINE nil == <<>>
  <2>1. Joined(Pieces(lines, {}, n)) = Piece(lines, {}, n + 1) \o Joined(Pieces(lines, {}, n + 1))
    <3>1. n \in 0..Len(lines)
      BY <1>1
    <3> HIDE DEF n, nil
    <3> QED BY <1>2, <3>1, PiecesFirst
  <2>2. nil \o nil = nil
    BY ConcatEmptySeq, EmptySeq
  <2>3. Piece(lines, {}, n + 1) = nil \o nil
    <3>1. Inserted({}, n + 1) = {} /\ Covering({}, n + 1) = {}
      BY DEF Inserted, Covering
    <3>2. ~(n + 1 <= Len(lines))
      BY <1>1
    <3> QED BY <3>1, <3>2 DEF Piece, NewOf
  <2>4. Pieces(lines, {}, n + 1) = nil
    <3>1. n + 1 \in 0..(n + 1) /\ n + 1 - (n + 1) = 0
      BY <1>1
    <3>2. Pieces(lines, {}, n + 1) \in Seq(Seq(S)) /\ Len(Pieces(lines, {}, n + 1)) = 0
      BY <1>2, <3>1, PiecesType
    <3> QED BY <3>2, EmptySeq
  <2>5. Joined(nil) = nil
    BY JoinedFacts
  <2> HIDE DEF nil
  <2>6. Joined(Pieces(lines, {}, n)) = nil
    BY <2>1, <2>2, <2>3, <2>4, <2>5
  <2> QED BY <2>6 DEF nil
<1>4. ASSUME NEW c \in 0..n PROVE SplitAt(S, lines, lines, {}, c)
  <2> DEFINE t == SubSeq(lines, c + 1, n)
  <2>1. \A i \in (c + 1)..n : i \in 1..n
    BY <1>1
  <2>2. c + 1 \in Int /\ n \in Int /\ \A i \in (c + 1)..n : lines[i] \in Seq(S)
    BY <1>1, <2>1
  <2>3. t \in Seq(Seq(S))
    <3> HIDE DEF n
    <3> QED BY <2>2, SubSeqProperties
  <2>4. SubSeq(lines, 1, c) \o t = SubSeq(lines, 1, n)
    <3>1. 1 \in 1..(n + 1) /\ c \in (1 - 1)..n /\ n \in c..n
      BY <1>1
    <3> QED BY <3>1, ConcatAdjacentSubSeq
  <2>5. SubSeq(lines, 1, n) = lines
    BY SubSeqFull
  <2>6. Joined(Pieces(lines, {}, c)) = Joined(t)
    <3> DEFINE x == Joined(t)
               nil == <<>>
    <3>1. n \in 0..n /\ c \in 0..n
      BY <1>1
    <3>2. Joined(Pieces(lines, {}, c)) = x \o Joined(Pieces(lines, {}, n))
      BY <1>2, <3>1, PiecesBefore
    <3>3. x \in Seq(S)
      BY <2>3, JoinedFacts
    <3> HIDE DEF x
    <3>4. x \o nil = x
      BY <3>3, ConcatEmptySeq
    <3>5. Joined(Pieces(lines, {}, c)) = x \o nil
      BY <1>3, <3>2
    <3> QED BY <3>4, <3>5 DEF x
  <2> HIDE DEF t
  <2>7. lines = SubSeq(lines, 1, c) \o t
    BY <2>4, <2>5
  <2> QED BY <2>3, <2>6, <2>7 DEF SplitAt
<1> QED BY <1>4 DEF SplitUpTo

\* What is left at every edit on the way.
LEMMA EditsBack ==
  ASSUME NEW S, NEW lines, NEW edits, Editing(S, lines, edits), NEW g, AppliesBack(S, g, lines, edits)
  PROVE  /\ \A j \in 1..(Len(edits) + 1) :
              g[j] \in Seq(Seq(S)) /\ SplitUpTo(S, lines, g[j], EditsFrom(edits, j))
         /\ \A j \in 1..Len(edits) : g[j] = AppliedAt(g, edits, j)
<1> DEFINE m == Len(edits)
           Val == Seq(Seq(S))
           Right(j) == g[j] \in Val /\ SplitUpTo(S, lines, g[j], EditsFrom(edits, j))
           Good == {d \in Nat : \A j \in 1..(m + 1) : j = m + 1 - d => Right(j)}
<1>1. m \in Nat /\ lines \in Val /\ edits \in Seq(EditsOver(S))
  BY LenProperties DEF Editing
<1>2. Right(m + 1)
  <2>1. g[m + 1] = lines
    BY DEF AppliesBack
  <2>2. EditsFrom(edits, m + 1) = {}
    BY <1>1 DEF EditsFrom
  <2> QED BY <1>1, <2>1, <2>2, NoEdits
<1>3. ASSUME NEW j \in 1..m, Right(j + 1) PROVE Right(j) /\ g[j] = AppliedAt(g, edits, j)
  <2> DEFINE e == edits[j]
             fewer == EditsFrom(edits, j + 1)
             r == g[j + 1]
  <2>1. /\ e \in EditsOver(S) /\ e.last >= e.first - 1 /\ e.last <= Len(lines)
        /\ \A k \in 1..m : j < k => edits[k].first > e.first /\ edits[k].first > e.last
    BY EditsOrdered
  <2>2. \A k \in (j + 1)..m : k \in 1..m /\ j < k
    BY <1>1
  <2>3. \A k \in (j + 1)..m : edits[k] \in EditsOver(S)
    BY <1>1, <2>2, ElementOfSeq
  <2>4. fewer \in SUBSET EditsOver(S) /\ \A d \in fewer : d.first > e.first /\ d.first > e.last
    BY <2>1, <2>2, <2>3 DEF EditsFrom
  <2>5. EditsFrom(edits, j) = fewer \cup {e}
    <3>1. \A k : k \in j..m <=> k = j \/ k \in (j + 1)..m
      BY <1>1
    <3> QED BY <3>1 DEF EditsFrom
  <2>6. SplitUpTo(S, lines, r, fewer)
    BY <1>3
  <2>7. /\ Spliced(r, e.first, e.last, Lines(e.new)) \in Val
        /\ SplitUpTo(S, lines, Spliced(r, e.first, e.last, Lines(e.new)), fewer \cup {e})
    <3> DEFINE N == Lines(e.new)
    <3>1. N \in Val /\ Joined(N) = e.new
      BY <2>1, LinesFacts DEF EditsOver
    <3> HIDE DEF e, fewer, r, N
    <3>2. /\ Spliced(r, e.first, e.last, N) \in Val
          /\ SplitUpTo(S, lines, Spliced(r, e.first, e.last, N), fewer \cup {e})
      BY <1>1, <2>1, <2>4, <2>6, <3>1, SplitFurther
    <3> QED BY <3>2 DEF N
  <2>8. AppliedAt(g, edits, j) = Spliced(r, e.first, e.last, Lines(e.new))
    BY DEF AppliedAt
  <2>9. g[j] = AppliedAt(g, edits, j)
    BY <2>7, <2>8 DEF AppliesBack
  <2> HIDE DEF r, e, fewer
  <2> QED BY <2>5, <2>7, <2>8, <2>9
<1>4. 0 \in Good
  <2> HIDE DEF Right
  <2> QED BY <1>1, <1>2
<1>5. ASSUME NEW d \in Nat, d \in Good PROVE d + 1 \in Good
  <2>1. ASSUME NEW j \in 1..(m + 1), j = m + 1 - (d + 1) PROVE Right(j)
    <3>1. j \in 1..m /\ j + 1 \in 1..(m + 1) /\ j + 1 = m + 1 - d
      BY <1>1, <2>1
    <3> HIDE DEF Right
    <3>2. Right(j + 1)
      BY <1>5, <3>1
    <3> QED BY <1>3, <3>1, <3>2
  <2>2. d + 1 \in Nat
    OBVIOUS
  <2> HIDE DEF Right
  <2> QED BY <2>1, <2>2
<1> HIDE DEF Good
<1>6. Nat \subseteq Good
  BY <1>4, <1>5, CountUp
<1>7. ASSUME NEW j \in 1..(m + 1) PROVE Right(j)
  <2> DEFINE d == m + 1 - j
  <2>1. d \in Nat /\ j = m + 1 - d
    BY <1>1
  <2> HIDE DEF d, Right
  <2> QED BY <1>6, <2>1 DEF Good
<1>8. ASSUME NEW j \in 1..m PROVE g[j] = AppliedAt(g, edits, j)
  <2>1. j + 1 \in 1..(m + 1)
    BY <1>1
  <2> HIDE DEF Right
  <2> QED BY <1>3, <1>7, <2>1
<1> QED BY <1>7, <1>8

-----------------------------------------------------------------------------
\* Edited lines join to the pieces.
LEMMA SplitAtStart ==
  ASSUME NEW S, NEW lines \in Seq(Seq(S)), NEW edits \in SUBSET EditsOver(S),
         NEW r, SplitUpTo(S, lines, r, edits)
  PROVE  Joined(r) = Joined(Pieces(lines, edits, 0))
<1> DEFINE nil == <<>>
<1>1. 0 \in 0..Len(lines)
  BY LenProperties
<1>2. \A e \in edits : 0 < e.first
  BY DEF EditsOver
<1>3. SplitAt(S, lines, r, edits, 0)
  BY <1>1, <1>2 DEF SplitUpTo
<1>4. PICK t \in Seq(Seq(S)) : r = SubSeq(lines, 1, 0) \o t /\ Joined(t) = Joined(Pieces(lines, edits, 0))
  BY <1>3 DEF SplitAt
<1>5. SubSeq(lines, 1, 0) = nil
  BY SubSeqEmpty
<1>6. nil \o t = t
  BY ConcatEmptySeq
<1> HIDE DEF nil
<1>7. r = t
  BY <1>4, <1>5, <1>6
<1> QED BY <1>4, <1>7

-----------------------------------------------------------------------------
\* The lines that edits of line ranges leave join to the pieces put together.
LEMMA RangesFacts ==
  ASSUME NEW S, NEW lines, NEW edits, Editing(S, lines, edits)
  PROVE  /\ RangesApplied(edits, lines) \in Seq(Seq(S))
         /\ Joined(RangesApplied(edits, lines)) = Joined(Pieces(lines, ToSet(edits), 0))
         /\ SplitUpTo(S, lines, RangesApplied(edits, lines), ToSet(edits))
<1> DEFINE m == Len(edits)
           D == 1..(m + 1)
           Val == Seq(Seq(S))
           step == [j \in 1..m |-> [u \in [1..(m + 1) -> Val] |->
                      IF AppliedAt(u, edits, j) \in Val THEN AppliedAt(u, edits, j) ELSE <<>>]]
           Body(u, j) ==
             IF j = Len(edits) + 1 THEN lines
             ELSE Spliced(u[j + 1], edits[j].first, edits[j].last, Lines(edits[j].new))
           Once(u) == [j \in 1..(Len(edits) + 1) |-> Body(u, j)]
           it == CHOOSE u : u = Once(u)
<1>1. m \in Nat /\ lines \in Val /\ edits \in Seq(EditsOver(S)) /\ DOMAIN edits = 1..m
  BY LenProperties DEF Editing
<1>2. \A j \in 1..m : \A u, v \in [1..(m + 1) -> Val] :
        (\A y \in 1..(m + 1) : y > j => u[y] = v[y]) => AppliedAt(u, edits, j) = AppliedAt(v, edits, j)
  <2>1. ASSUME NEW j \in 1..m, NEW u \in [1..(m + 1) -> Val], NEW v \in [1..(m + 1) -> Val],
               \A y \in 1..(m + 1) : y > j => u[y] = v[y]
        PROVE  AppliedAt(u, edits, j) = AppliedAt(v, edits, j)
    <3>1. j + 1 \in 1..(m + 1) /\ j + 1 > j
      BY <1>1
    <3>2. u[j + 1] = v[j + 1]
      BY <2>1, <3>1
    <3> QED BY <3>2 DEF AppliedAt
  <2> QED BY <2>1
<1>3. step \in [1..m -> [[1..(m + 1) -> Val] -> Val]]
  <2>1. <<>> \in Val
    BY EmptySeq
  <2> HIDE DEF Val
  <2> QED BY <2>1
<1>4. \A j \in 1..m : \A u \in [1..(m + 1) -> Val] :
        step[j][u] = IF AppliedAt(u, edits, j) \in Val THEN AppliedAt(u, edits, j) ELSE <<>>
  OBVIOUS
<1> HIDE DEF step
<1>5. MadeOfNext(m, Val, lines, step)
  <2>1. ASSUME NEW j \in 1..m, NEW u \in [1..(m + 1) -> Val], NEW v \in [1..(m + 1) -> Val],
               \A y \in 1..(m + 1) : y > j => u[y] = v[y]
        PROVE  step[j][u] = step[j][v]
    <3> HIDE DEF Val, m
    <3>1. AppliedAt(u, edits, j) = AppliedAt(v, edits, j)
      BY <1>2, <2>1
    <3> QED BY <1>4, <3>1
  <2> HIDE DEF Val, m
  <2> QED BY <1>1, <1>3, <2>1 DEF MadeOfNext
<1>6. PICK g \in [1..(m + 1) -> Val] : g[m + 1] = lines /\ \A j \in 1..m : g[j] = step[j][g]
  BY <1>5, ChainDown
<1>7. AppliesBack(S, g, lines, edits)
  <2>1. \A j \in 1..m : AppliedAt(g, edits, j) \in Val => g[j] = AppliedAt(g, edits, j)
    BY <1>4, <1>6
  <2> QED BY <1>6, <2>1 DEF AppliesBack
<1>8. \A j \in 1..m : g[j] = AppliedAt(g, edits, j)
  BY <1>7, EditsBack
<1>9. \A u : \A j \in 1..m : Body(u, j) = AppliedAt(u, edits, j)
  <2>1. \A j \in 1..m : j # m + 1
    BY <1>1
  <2> QED BY <2>1 DEF AppliedAt
<1>10. \A u : Body(u, m + 1) = lines
  OBVIOUS
<1> HIDE DEF Body
<1>11. g = Once(g)
  <2>1. \A j \in D : g[j] = Body(g, j)
    <3>1. \A j \in D : j = m + 1 \/ j \in 1..m
      BY <1>1
    <3> QED BY <1>6, <1>8, <1>9, <1>10, <3>1
  <2>2. Once(g) = [j \in D |-> Body(g, j)]
    OBVIOUS
  <2>3. g = [j \in D |-> g[j]]
    OBVIOUS
  <2> HIDE DEF Once, D
  <2> QED BY <2>1, <2>2, <2>3
<1>12. it = Once(it)
  <2> HIDE DEF Once
  <2> QED BY <1>11
<1> HIDE DEF it
<1>13. \A j \in D : it[j] = Body(it, j)
  <2>1. Once(it) = [j \in D |-> Body(it, j)]
    OBVIOUS
  <2> HIDE DEF Once, D
  <2> QED BY <1>12, <2>1
<1> HIDE DEF Once
<1>14. AppliesBack(S, it, lines, edits)
  <2>1. m + 1 \in D /\ \A j \in 1..m : j \in D
    BY <1>1
  <2> QED BY <1>9, <1>10, <1>13, <2>1 DEF AppliesBack
<1>15. it[1] \in Val /\ SplitUpTo(S, lines, it[1], EditsFrom(edits, 1))
  <2>1. 1 \in 1..(m + 1)
    BY <1>1
  <2> QED BY <1>14, <2>1, EditsBack
<1>16. EditsFrom(edits, 1) = ToSet(edits)
  BY <1>1 DEF EditsFrom, ToSet
<1>17. RangesApplied(edits, lines) = it[1]
  BY DEF RangesApplied, it, Once, Body
<1> DEFINE r == RangesApplied(edits, lines)
<1>18. r \in Val /\ SplitUpTo(S, lines, r, ToSet(edits))
  BY <1>15, <1>16, <1>17
<1>19. Joined(r) = Joined(Pieces(lines, ToSet(edits), 0))
  <2> HIDE DEF r
  <2>1. \A e \in ToSet(edits) : e \in EditsOver(S)
    <3>1. \A j \in 1..m : edits[j] \in EditsOver(S)
      BY <1>1, ElementOfSeq
    <3> QED BY <1>1, <3>1 DEF ToSet
  <2>2. ToSet(edits) \in SUBSET EditsOver(S)
    BY <2>1
  <2> QED BY <1>1, <1>18, <2>2, SplitAtStart
<1> QED BY <1>18, <1>19

\* What the edits leave, as one would define it at once.
LEMMA RebuiltIs ==
  ASSUME NEW lines, Len(lines) \in Nat, NEW edits
  PROVE  Rebuilt(lines, edits) = Joined(Pieces(lines, ToSet(edits), 0))
<1> DEFINE n == Len(lines)
<1>1. n + 1 - 0 = n + 1 /\ \A i \in 1..(n + 1) : 0 + i = i
  OBVIOUS
<1>2. [i \in 1..(n + 1 - 0) |-> Piece(lines, ToSet(edits), 0 + i)]
        = [i \in 1..(n + 1) |-> Piece(lines, ToSet(edits), i)]
  BY <1>1
<1>3. Rebuilt(lines, edits) = FlattenSeq([i \in 1..(n + 1 - 0) |-> Piece(lines, ToSet(edits), 0 + i)])
  BY <1>2 DEF Rebuilt
<1> QED BY <1>3 DEF Joined, Pieces

\* RangesRebuild: applied from the last to the first, the ranges mean the lines that
\* were numbered when the call read the file.
THEOREM RangesRebuildHolds == RangesRebuild
<1>1. ASSUME NEW x \in Texts, NEW edits \in Ranges, NEW y \in AfterRanges(x, edits)
      PROVE  y = Rebuilt(Lines(x), edits)
  <2> DEFINE lines == Lines(x)
  <2>1. x \in Seq(Atoms) /\ edits \in Seq(EditsOver(Atoms))
    BY EditsAssumption DEF EditsAssumption, EditsOver
  <2>2. lines \in Seq(Seq(Atoms)) /\ Len(lines) \in Nat
    BY <2>1, LinesFacts, LenProperties
  <2>3. RangesValid(edits, Len(lines)) /\ y = Joined(RangesApplied(edits, lines))
    BY <1>1 DEF AfterRanges, Refused
  <2> HIDE DEF lines
  <2>4. Editing(Atoms, lines, edits)
    BY <2>1, <2>2, <2>3 DEF Editing
  <2>5. y = Rebuilt(lines, edits)
    BY <2>2, <2>3, <2>4, RangesFacts, RebuiltIs
  <2> QED BY <2>5 DEF lines
<1> QED BY <1>1 DEF RangesRebuild

-----------------------------------------------------------------------------
\* r is part between a and c.
Around(V, r, a, part, c) ==
  a \in Seq(V) /\ part \in Seq(V) /\ c \in Seq(V) /\ r = (a \o part) \o c

\* How long such a text is, and that the part is in it.
LEMMA AroundFacts ==
  ASSUME NEW V, NEW r, NEW a, NEW part, NEW c, Around(V, r, a, part, c)
  PROVE  /\ r \in Seq(V) /\ Len(a) \in Nat /\ Len(part) \in Nat /\ Len(c) \in Nat
         /\ Len(r) = Len(a) + Len(part) + Len(c)
         /\ \A i \in 1..Len(part) : r[Len(a) + i] = part[i]
<1>0. a \in Seq(V) /\ part \in Seq(V) /\ c \in Seq(V) /\ r = (a \o part) \o c
  BY DEF Around
<1> DEFINE w == a \o part
<1>1. /\ w \in Seq(V) /\ Len(w) = Len(a) + Len(part)
      /\ \A i \in 1..(Len(a) + Len(part)) : w[i] = IF i <= Len(a) THEN a[i] ELSE part[i - Len(a)]
  BY <1>0, ConcatProperties
<1>2. r = w \o c
  BY <1>0
<1>3. Len(a) \in Nat /\ Len(part) \in Nat /\ Len(c) \in Nat
  BY <1>0, LenProperties
<1> HIDE DEF w
<1>4. /\ r \in Seq(V) /\ Len(r) = Len(w) + Len(c)
      /\ \A i \in 1..(Len(w) + Len(c)) : r[i] = IF i <= Len(w) THEN w[i] ELSE c[i - Len(w)]
  <2>1. w \in Seq(V) /\ c \in Seq(V)
    BY <1>0, <1>1
  <2>2. /\ w \o c \in Seq(V) /\ Len(w \o c) = Len(w) + Len(c)
        /\ \A i \in 1..(Len(w) + Len(c)) : (w \o c)[i] = IF i <= Len(w) THEN w[i] ELSE c[i - Len(w)]
    BY <2>1, ConcatProperties
  <2> QED BY <1>2, <2>2
<1>5. ASSUME NEW i \in 1..Len(part) PROVE r[Len(a) + i] = part[i]
  <2>1. /\ Len(a) + i \in 1..(Len(w) + Len(c)) /\ Len(a) + i <= Len(w)
        /\ Len(a) + i \in 1..(Len(a) + Len(part)) /\ ~(Len(a) + i <= Len(a)) /\ Len(a) + i - Len(a) = i
    BY <1>1, <1>3
  <2> QED BY <1>1, <1>4, <2>1
<1> QED BY <1>1, <1>3, <1>4, <1>5

\* There it occurs.
LEMMA AroundOccurs ==
  ASSUME NEW V, NEW r, NEW a, NEW part, NEW c, Around(V, r, a, part, c)
  PROVE  Len(a) + 1 \in Occurrences(r, part)
<1> DEFINE i == Len(a) + 1
           j == i + Len(part) - 1
           s == SubSeq(r, i, j)
           k == Len(part)
<1>1. /\ r \in Seq(V) /\ part \in Seq(V) /\ Len(a) \in Nat /\ k \in Nat /\ Len(c) \in Nat
      /\ Len(r) = Len(a) + k + Len(c)
      /\ \A d \in 1..k : r[Len(a) + d] = part[d]
  BY AroundFacts DEF Around
<1>2. i \in 1..(Len(r) - k + 1)
  BY <1>1
<1>3. i \in Int /\ j \in Int /\ \A d \in i..j : d \in 1..Len(r)
  BY <1>1
<1>4. \A d \in i..j : r[d] \in V
  BY <1>1, <1>3, ElementOfSeq
<1>5. s \in Seq(V) /\ Len(s) = IF i <= j THEN j - i + 1 ELSE 0
  <2> HIDE DEF i, j
  <2> QED BY <1>3, <1>4, SubSeqProperties
<1>6. \A d \in 1..(j - i + 1) : s[d] = r[i + d - 1]
  <2> HIDE DEF i, j
  <2> QED BY <1>3, <1>4, SubSeqProperties
<1>7. Len(s) = k
  <2> HIDE DEF s
  <2> QED BY <1>1, <1>5
<1>8. \A d \in 1..k : d \in 1..(j - i + 1) /\ i + d - 1 = Len(a) + d
  BY <1>1
<1> HIDE DEF i, j, s
<1>9. \A d \in 1..k : s[d] = part[d]
  BY <1>1, <1>6, <1>8
<1>10. s = part
  BY <1>1, <1>5, <1>7, <1>9, SeqEqual
<1> QED BY <1>2, <1>10 DEF Occurrences, s, i, j

\* What replaces it stands in its place.
LEMMA AroundSpliced ==
  ASSUME NEW V, NEW r, NEW a, NEW part, NEW c, Around(V, r, a, part, c), NEW new \in Seq(V)
  PROVE  Around(V, Spliced(r, Len(a) + 1, Len(a) + Len(part), new), a, new, c)
<1>0. a \in Seq(V) /\ part \in Seq(V) /\ c \in Seq(V) /\ r = (a \o part) \o c
  BY DEF Around
<1> DEFINE f == Len(a) + 1
           l == Len(a) + Len(part)
           b == a \o part
           t == part \o c
<1>1. Len(a) \in Nat /\ f \in Nat \ {0} /\ Len(a) = f - 1
  BY <1>0, LenProperties
<1>2. b \in Seq(V) /\ Len(b) = l /\ t \in Seq(V)
  BY <1>0, ConcatProperties
<1>3. (a \o part) \o c = a \o (part \o c)
  BY <1>0, ConcatAssociative
<1>4. r = a \o t /\ r = b \o c
  BY <1>0, <1>3
<1> HIDE DEF f, l, b, t
<1>5. TwoSplits(V, a, t, b, c, r)
  BY <1>0, <1>2, <1>4 DEF TwoSplits
<1>6. SplicesTo(V, r, f, l, new, a, c)
  BY <1>1, <1>2, <1>5, SplicedIs
<1> QED BY <1>0, <1>6 DEF Around, SplicesTo, f, l

\* A part is found between what is before it and what is behind it.
LEMMA OccursAround ==
  ASSUME NEW V, NEW r \in Seq(V), NEW part \in Seq(V), NEW i \in Occurrences(r, part)
  PROVE  /\ Around(V, r, SubSeq(r, 1, i - 1), part, SubSeq(r, i + Len(part), Len(r)))
         /\ i \in 1..(Len(r) - Len(part) + 1) /\ Len(SubSeq(r, 1, i - 1)) = i - 1
         /\ SubSeq(r, 1, i - 1) \o part = SubSeq(r, 1, i + Len(part) - 1)
<1> DEFINE n == Len(r)
           k == Len(part)
           j == i + k - 1
<1>1. n \in Nat /\ k \in Nat /\ i \in 1..(n - k + 1) /\ SubSeq(r, i, j) = part
  BY LenProperties DEF Occurrences
<1>2. \A d \in 1..n : r[d] \in V
  BY ElementOfSeq
<1>3. /\ \A d \in 1..(i - 1) : d \in 1..n
      /\ \A d \in (i + k)..n : d \in 1..n
      /\ i - 1 \in Int /\ i + k \in Int /\ n \in Int
  BY <1>1
<1>4. SubSeq(r, 1, i - 1) \in Seq(V) /\ Len(SubSeq(r, 1, i - 1)) = IF 1 <= i - 1 THEN i - 1 - 1 + 1 ELSE 0
  <2> DEFINE m == i - 1
  <2>1. m \in Int /\ \A d \in 1..m : r[d] \in V
    BY <1>2, <1>3
  <2> HIDE DEF m
  <2>2. SubSeq(r, 1, m) \in Seq(V) /\ Len(SubSeq(r, 1, m)) = IF 1 <= m THEN m - 1 + 1 ELSE 0
    BY <2>1, SubSeqProperties
  <2> QED BY <2>2 DEF m
<1>5. SubSeq(r, i + k, n) \in Seq(V)
  <2> DEFINE m == i + k
  <2>1. m \in Int /\ \A d \in m..n : r[d] \in V
    BY <1>2, <1>3
  <2> HIDE DEF m
  <2>2. SubSeq(r, m, n) \in Seq(V)
    BY <1>3, <2>1, SubSeqProperties
  <2> QED BY <2>2 DEF m
<1>6. Len(SubSeq(r, 1, i - 1)) = i - 1
  <2>1. i - 1 - 1 + 1 = i - 1 /\ (~(1 <= i - 1) => i - 1 = 0)
    BY <1>1
  <2> QED BY <1>4, <2>1
<1>7. SubSeq(r, 1, i - 1) \o SubSeq(r, i, j) = SubSeq(r, 1, j)
  <2>1. 1 \in 1..(n + 1) /\ i - 1 \in (1 - 1)..n /\ j \in (i - 1)..n /\ (i - 1) + 1 = i
    BY <1>1
  <2>2. SubSeq(r, 1, i - 1) \o SubSeq(r, (i - 1) + 1, j) = SubSeq(r, 1, j)
    <3> HIDE DEF j
    <3> QED BY <2>1, ConcatAdjacentSubSeq
  <2> QED BY <2>1, <2>2
<1>8. SubSeq(r, 1, j) \o SubSeq(r, i + k, n) = r
  <2>1. 1 \in 1..(n + 1) /\ j \in (1 - 1)..n /\ n \in j..n /\ j + 1 = i + k
    BY <1>1
  <2>2. SubSeq(r, 1, j) \o SubSeq(r, j + 1, n) = SubSeq(r, 1, n)
    <3> HIDE DEF j
    <3> QED BY <2>1, ConcatAdjacentSubSeq
  <2> QED BY <2>1, <2>2, SubSeqFull
<1> HIDE DEF j
<1>9. (SubSeq(r, 1, i - 1) \o part) \o SubSeq(r, i + k, n) = r
  BY <1>1, <1>7, <1>8
<1>10. SubSeq(r, 1, i - 1) \o part = SubSeq(r, 1, j)
  BY <1>1, <1>7
<1>11. Around(V, r, SubSeq(r, 1, i - 1), part, SubSeq(r, i + k, n))
  BY <1>4, <1>5, <1>9 DEF Around
<1> QED BY <1>1, <1>6, <1>10, <1>11 DEF j

\* A hunk replaces the one place where its context is.
LEMMA HunkIs ==
  ASSUME NEW V, NEW r, NEW a, NEW c, NEW hunk, Around(V, r, a, hunk.before, c),
         hunk.after \in Seq(V), NEW z \in HunkApplied(r, hunk)
  PROVE  Around(V, z, a, hunk.after, c)
<1> DEFINE part == hunk.before
<1>1. PICK at \in UniqueIndex(r, part) : z = Spliced(r, at, at + Len(part) - 1, hunk.after)
  BY DEF HunkApplied
<1>2. at = Len(a) + 1
  BY AroundOccurs DEF UniqueIndex
<1>3. at + Len(part) - 1 = Len(a) + Len(part)
  <2>1. Len(a) \in Nat /\ Len(part) \in Nat
    BY AroundFacts
  <2> DEFINE d == Len(a)
             k == Len(part)
  <2> HIDE DEF d, k
  <2>2. d \in Nat /\ k \in Nat => (d + 1) + k - 1 = d + k
    OBVIOUS
  <2> QED BY <1>2, <2>1, <2>2 DEF d, k
<1>4. z = Spliced(r, Len(a) + 1, Len(a) + Len(part), hunk.after)
  BY <1>1, <1>2, <1>3
<1> QED BY <1>4, AroundSpliced

-----------------------------------------------------------------------------
\* What a list of two hunks leaves.
LEMMA HunksInTurn ==
  ASSUME NEW x, NEW h, NEW k, NEW y \in AfterHunks(x, <<h, k>>)
  PROVE  \E v \in HunkApplied(Lines(x), h) : \E w \in HunkApplied(v, k) : y = Joined(w)
<1> DEFINE hunks == <<h, k>>
           Body(u, j) ==
             IF j = 0 THEN {Lines(x)} ELSE UNION {HunkApplied(lines, hunks[j]) : lines \in u[j - 1]}
           Once(u) == [j \in 0..Len(hunks) |-> Body(u, j)]
           it == CHOOSE u : u = Once(u)
           F0 == {Lines(x)}
           F1 == UNION {HunkApplied(lines, h) : lines \in F0}
           F2 == UNION {HunkApplied(lines, k) : lines \in F1}
           g == [j \in 0..2 |-> IF j = 0 THEN F0 ELSE IF j = 1 THEN F1 ELSE F2]
<1>1. Len(hunks) = 2 /\ hunks[1] = h /\ hunks[2] = k /\ hunks # <<>>
  OBVIOUS
<1>2. \A u : Once(u) = [j \in 0..2 |-> Body(u, j)]
  BY <1>1
<1>3. \A u : /\ Body(u, 0) = F0
             /\ Body(u, 1) = UNION {HunkApplied(lines, h) : lines \in u[0]}
             /\ Body(u, 2) = UNION {HunkApplied(lines, k) : lines \in u[1]}
  BY <1>1
<1>4. \A j : j \in 0..2 <=> j = 0 \/ j = 1 \/ j = 2
  OBVIOUS
<1>5. g[0] = F0 /\ g[1] = F1 /\ g[2] = F2 /\ g = [j \in 0..2 |-> g[j]]
  BY <1>4
<1> HIDE DEF g, Body, Once
<1>6. g = Once(g)
  <2>1. Body(g, 0) = F0 /\ Body(g, 1) = F1 /\ Body(g, 2) = F2
    BY <1>3, <1>5
  <2>2. \A j \in 0..2 : g[j] = Body(g, j)
    <3> HIDE DEF F0, F1, F2
    <3> QED BY <1>4, <1>5, <2>1
  <2>3. Once(g) = [j \in 0..2 |-> Body(g, j)]
    BY <1>2
  <2> QED BY <1>5, <2>2, <2>3
<1>7. it = Once(it)
  BY <1>6
<1> HIDE DEF it
<1>8. \A j \in 0..2 : it[j] = Body(it, j)
  <2>1. Once(it) = [j \in 0..2 |-> Body(it, j)]
    BY <1>2
  <2> QED BY <1>7, <2>1
<1>9. it[0] = Body(it, 0) /\ it[1] = Body(it, 1) /\ it[2] = Body(it, 2)
  BY <1>4, <1>8
<1>10. it[2] = F2
  BY <1>3, <1>9
<1>11. AfterHunks(x, hunks) = {Joined(lines) : lines \in it[2]}
  <2>1. AfterHunks(x, hunks) = {Joined(lines) : lines \in it[Len(hunks)]}
    BY <1>1 DEF AfterHunks, it, Once, Body
  <2> QED BY <1>1, <2>1
<1>12. PICK w \in F2 : y = Joined(w)
  BY <1>10, <1>11
<1> QED BY <1>12

-----------------------------------------------------------------------------
\* Two parts of a sequence, one behind the other.
TwoAround(V, r, a, p, m, q, c) ==
  /\ a \in Seq(V) /\ p \in Seq(V) /\ m \in Seq(V) /\ q \in Seq(V) /\ c \in Seq(V)
  /\ Around(V, r, (a \o p) \o m, q, c)

\* The first of them has the second one behind it.
LEMMA FirstOfTwo ==
  ASSUME NEW V, NEW r, NEW a, NEW p, NEW m, NEW q, NEW c, TwoAround(V, r, a, p, m, q, c)
  PROVE  Around(V, r, a, p, (m \o q) \o c)
<1>0. /\ a \in Seq(V) /\ p \in Seq(V) /\ m \in Seq(V) /\ q \in Seq(V) /\ c \in Seq(V)
      /\ r = (((a \o p) \o m) \o q) \o c
  BY DEF TwoAround, Around
<1> DEFINE ap == a \o p
           mq == m \o q
<1>1. ap \in Seq(V) /\ mq \in Seq(V)
  BY <1>0, ConcatProperties
<1> HIDE DEF ap
<1>2. Regrouped(ap, m, q, c)
  BY <1>0, <1>1, FourParts
<1>3. mq \o c \in Seq(V)
  <2> HIDE DEF mq
  <2> QED BY <1>0, <1>1, ConcatProperties
<1>4. r = (a \o p) \o (mq \o c)
  <2>1. ap \o ((m \o q) \o c) = ((ap \o m) \o q) \o c
    BY <1>2 DEF Regrouped
  <2> QED BY <1>0, <2>1 DEF ap
<1> QED BY <1>0, <1>3, <1>4 DEF Around

\* The first one replaced.
LEMMA FirstReplaced ==
  ASSUME NEW V, NEW r, NEW a, NEW p, NEW m, NEW q, NEW c, TwoAround(V, r, a, p, m, q, c),
         NEW new \in Seq(V), NEW z, Around(V, z, a, new, (m \o q) \o c)
  PROVE  TwoAround(V, z, a, new, m, q, c)
<1>0. /\ a \in Seq(V) /\ new \in Seq(V) /\ m \in Seq(V) /\ q \in Seq(V) /\ c \in Seq(V)
      /\ z = (a \o new) \o ((m \o q) \o c)
  BY DEF TwoAround, Around
<1> DEFINE ap == a \o new
           apm == ap \o m
<1>1. ap \in Seq(V)
  BY <1>0, ConcatProperties
<1> HIDE DEF ap
<1>2. Regrouped(ap, m, q, c)
  BY <1>0, <1>1, FourParts
<1>3. apm \in Seq(V)
  BY <1>0, <1>1, ConcatProperties
<1>4. z = (apm \o q) \o c
  <2>1. ap \o ((m \o q) \o c) = ((ap \o m) \o q) \o c
    BY <1>2 DEF Regrouped
  <2> QED BY <1>0, <2>1 DEF ap
<1>5. Around(V, z, apm, q, c)
  <2> HIDE DEF apm
  <2> QED BY <1>0, <1>3, <1>4 DEF Around
<1> QED BY <1>0, <1>5 DEF TwoAround, ap

\* The second one replaced.
LEMMA SecondReplaced ==
  ASSUME NEW V, NEW r, NEW a, NEW p, NEW m, NEW q, NEW c, TwoAround(V, r, a, p, m, q, c),
         NEW new \in Seq(V), NEW z, Around(V, z, (a \o p) \o m, new, c)
  PROVE  TwoAround(V, z, a, p, m, new, c)
BY DEF TwoAround

\* In whatever order, two replaced parts leave the same.
LEMMA TwoReplaced ==
  ASSUME NEW V, NEW z, NEW w, NEW a, NEW p, NEW m, NEW q, NEW c,
         TwoAround(V, z, a, p, m, q, c), TwoAround(V, w, a, p, m, q, c)
  PROVE  z = w
BY DEF TwoAround, Around

\* Two hunks, in the order of the file and against it.
LEMMA HunksReplaced ==
  ASSUME NEW V, NEW r, NEW a, NEW m, NEW c, NEW h, NEW k,
         TwoAround(V, r, a, h.before, m, k.before, c), h.after \in Seq(V), k.after \in Seq(V)
  PROVE  /\ \A v \in HunkApplied(r, h) : \A w \in HunkApplied(v, k) :
              TwoAround(V, w, a, h.after, m, k.after, c)
         /\ \A v \in HunkApplied(r, k) : \A w \in HunkApplied(v, h) :
              TwoAround(V, w, a, h.after, m, k.after, c)
<1>1. ASSUME NEW v \in HunkApplied(r, h), NEW w \in HunkApplied(v, k)
      PROVE  TwoAround(V, w, a, h.after, m, k.after, c)
  <2>1. Around(V, v, a, h.after, (m \o k.before) \o c)
    BY FirstOfTwo, HunkIs
  <2>2. TwoAround(V, v, a, h.after, m, k.before, c)
    BY <2>1, FirstReplaced
  <2>3. Around(V, v, (a \o h.after) \o m, k.before, c)
    BY <2>2 DEF TwoAround
  <2>4. Around(V, w, (a \o h.after) \o m, k.after, c)
    BY <2>3, HunkIs
  <2> QED BY <2>2, <2>4, SecondReplaced
<1>2. ASSUME NEW v \in HunkApplied(r, k), NEW w \in HunkApplied(v, h)
      PROVE  TwoAround(V, w, a, h.after, m, k.after, c)
  <2>1. Around(V, r, (a \o h.before) \o m, k.before, c)
    BY DEF TwoAround
  <2>2. Around(V, v, (a \o h.before) \o m, k.after, c)
    BY <2>1, HunkIs
  <2>3. TwoAround(V, v, a, h.before, m, k.after, c)
    BY <2>2, SecondReplaced
  <2>4. Around(V, w, a, h.after, (m \o k.after) \o c)
    BY <2>3, FirstOfTwo, HunkIs
  <2> QED BY <2>3, <2>4, FirstReplaced
<1> QED BY <1>1, <1>2

-----------------------------------------------------------------------------
\* Two places in a text, apart from each other.
TwoPlaces(V, r, p, a, q, b) ==
  /\ r \in Seq(V) /\ p \in Seq(V) /\ q \in Seq(V) /\ p # <<>> /\ q # <<>>
  /\ a \in Occurrences(r, p) /\ b \in Occurrences(r, q) /\ a + Len(p) - 1 < b

\* What is before, between and behind them.
PlacesSplit(V, r, p, a, q, b) ==
  /\ TwoAround(V, r, SubSeq(r, 1, a - 1), p, SubSeq(r, a + Len(p), b - 1),
               q, SubSeq(r, b + Len(q), Len(r)))
  /\ (SubSeq(r, 1, a - 1) \o p) \o SubSeq(r, a + Len(p), b - 1) = SubSeq(r, 1, b - 1)

\* Places apart split the text so.
LEMMA PlacesApart ==
  ASSUME NEW V, NEW r, NEW p, NEW a, NEW q, NEW b, TwoPlaces(V, r, p, a, q, b)
  PROVE  PlacesSplit(V, r, p, a, q, b)
<1>0. /\ r \in Seq(V) /\ p \in Seq(V) /\ q \in Seq(V)
      /\ a \in Occurrences(r, p) /\ b \in Occurrences(r, q) /\ a + Len(p) - 1 < b
  BY DEF TwoPlaces
<1> DEFINE n == Len(r)
           A == SubSeq(r, 1, a - 1)
           f == a + Len(p)
           g == b - 1
           M == SubSeq(r, f, g)
           B == SubSeq(r, 1, g)
           C == SubSeq(r, b + Len(q), n)
<1>1. /\ a \in 1..(n - Len(p) + 1) /\ b \in 1..(n - Len(q) + 1)
      /\ n \in Nat /\ Len(p) \in Nat /\ Len(q) \in Nat
  BY <1>0, LenProperties, OccursAround
<1>2. A \in Seq(V)
  <2> DEFINE T == SubSeq(r, a + Len(p), n)
  <2>1. Around(V, r, A, p, T)
    BY <1>0, OccursAround
  <2> HIDE DEF A, T
  <2> QED BY <2>1 DEF Around
<1>10. A \o p = SubSeq(r, 1, a + Len(p) - 1)
  BY <1>0, OccursAround
<1>3. Around(V, r, B, q, C)
  BY <1>0, OccursAround
<1>4. M \in Seq(V)
  <2>1. f \in Int /\ g \in Int /\ \A d \in f..g : d \in 1..n
    BY <1>0, <1>1
  <2>2. \A d \in f..g : r[d] \in V
    BY <1>0, <2>1, ElementOfSeq
  <2> HIDE DEF f, g
  <2> QED BY <2>1, <2>2, SubSeqProperties
<1>5. SubSeq(r, 1, a + Len(p) - 1) \o M = B
  <2>1. 1 \in 1..(n + 1) /\ f - 1 \in (1 - 1)..n /\ g \in (f - 1)..n /\ (f - 1) + 1 = f
    BY <1>0, <1>1
  <2>2. SubSeq(r, 1, f - 1) \o SubSeq(r, (f - 1) + 1, g) = SubSeq(r, 1, g)
    <3> DEFINE e == f - 1
    <3> HIDE DEF e, g
    <3> QED BY <1>0, <2>1, ConcatAdjacentSubSeq
  <2> DEFINE e == a + Len(p) - 1
  <2>3. f - 1 = e
    BY <1>1
  <2> HIDE DEF e, f, g
  <2>4. SubSeq(r, 1, e) \o SubSeq(r, f, g) = SubSeq(r, 1, g)
    BY <2>1, <2>2, <2>3
  <2> QED BY <2>4 DEF e
<1> HIDE DEF A, M, B, C, f, g
<1>6. (A \o p) \o M = B
  BY <1>5, <1>10
<1>7. q \in Seq(V) /\ C \in Seq(V)
  BY <1>3 DEF Around
<1>8. Around(V, r, (A \o p) \o M, q, C)
  BY <1>3, <1>6
<1>9. TwoAround(V, r, A, p, M, q, C)
  BY <1>0, <1>2, <1>4, <1>7, <1>8 DEF TwoAround
<1> QED BY <1>6, <1>9 DEF PlacesSplit, A, M, B, C, f, g

\* One replaced part as an edit of the lines where it was.
EditOf(i, part, new) == [first |-> i, last |-> i + Len(part) - 1, new |-> Joined(new)]

\* It is an edit within the text.
LEMMA EditOfFacts ==
  ASSUME NEW S, NEW r \in Seq(Seq(S)), NEW part \in Seq(Seq(S)), part # <<>>, NEW new \in Seq(Seq(S)),
         NEW i \in Occurrences(r, part)
  PROVE  /\ EditOf(i, part, new) \in EditsOver(S)
         /\ EditOf(i, part, new).last >= EditOf(i, part, new).first - 1
         /\ EditOf(i, part, new).last <= Len(r)
<1>1. /\ i \in 1..(Len(r) - Len(part) + 1) /\ Len(r) \in Nat /\ Len(part) \in Nat
  BY OccursAround, LenProperties
<1>2. Joined(new) \in Seq(S)
  BY JoinedFacts
<1>3. i \in Nat \ {0} /\ i + Len(part) - 1 \in Nat /\ i + Len(part) - 1 >= i - 1 /\ i + Len(part) - 1 <= Len(r)
  BY <1>1
<1> QED BY <1>2, <1>3 DEF EditOf, EditsOver

\* Two parts replaced are the pieces the two edits make.
LEMMA PlacesRebuilt ==
  ASSUME NEW S, NEW r, NEW p, NEW a, NEW q, NEW b, TwoPlaces(Seq(S), r, p, a, q, b),
         NEW pnew \in Seq(Seq(S)), NEW qnew \in Seq(Seq(S)), NEW w,
         TwoAround(Seq(S), w, SubSeq(r, 1, a - 1), pnew, SubSeq(r, a + Len(p), b - 1),
                   qnew, SubSeq(r, b + Len(q), Len(r)))
  PROVE  Joined(w) = Rebuilt(r, <<EditOf(a, p, pnew), EditOf(b, q, qnew)>>)
<1> DEFINE V == Seq(S)
           A == SubSeq(r, 1, a - 1)
           M == SubSeq(r, a + Len(p), b - 1)
           B == SubSeq(r, 1, b - 1)
           C == SubSeq(r, b + Len(q), Len(r))
           d == EditOf(a, p, pnew)
           e == EditOf(b, q, qnew)
           v == Spliced(r, e.first, e.last, qnew)
           u == Spliced(v, d.first, d.last, pnew)
<1>0. /\ r \in Seq(V) /\ p \in Seq(V) /\ q \in Seq(V) /\ p # <<>> /\ q # <<>>
      /\ a \in Occurrences(r, p) /\ b \in Occurrences(r, q) /\ a + Len(p) - 1 < b
  BY DEF TwoPlaces
<1>1. /\ a \in 1..(Len(r) - Len(p) + 1) /\ b \in 1..(Len(r) - Len(q) + 1)
      /\ Len(r) \in Nat /\ Len(p) \in Nat /\ Len(q) \in Nat /\ Len(A) = a - 1 /\ Len(B) = b - 1
  <2> HIDE DEF V, A, B
  <2>1. a \in 1..(Len(r) - Len(p) + 1) /\ Len(A) = a - 1
    BY <1>0, OccursAround DEF A
  <2>2. b \in 1..(Len(r) - Len(q) + 1) /\ Len(B) = b - 1
    BY <1>0, OccursAround DEF B
  <2>3. Len(r) \in Nat /\ Len(p) \in Nat /\ Len(q) \in Nat
    BY <1>0, LenProperties
  <2> QED BY <2>1, <2>2, <2>3
<1>2. /\ d \in EditsOver(S) /\ d.last >= d.first - 1 /\ d.last <= Len(r)
      /\ e \in EditsOver(S) /\ e.last >= e.first - 1 /\ e.last <= Len(r)
  <2> HIDE DEF V
  <2>1. r \in Seq(Seq(S)) /\ p \in Seq(Seq(S)) /\ q \in Seq(Seq(S))
    BY <1>0 DEF V
  <2> QED BY <1>0, <2>1, EditOfFacts
<1>3. /\ d.first = a /\ d.last = a + Len(p) - 1 /\ d.new = Joined(pnew)
      /\ e.first = b /\ e.last = b + Len(q) - 1 /\ e.new = Joined(qnew)
  BY DEF EditOf
<1>4. TwoAround(V, r, A, p, M, q, C)
  BY PlacesApart DEF PlacesSplit
<1>5. Around(V, v, B, qnew, C)
  <2>1. Around(V, r, B, q, C)
    BY <1>0, OccursAround
  <2>2. Len(B) + 1 = e.first /\ Len(B) + Len(q) = e.last
    BY <1>1, <1>3
  <2>3. Around(V, Spliced(r, Len(B) + 1, Len(B) + Len(q), qnew), B, qnew, C)
    <3> HIDE DEF B, C, e
    <3> QED BY <2>1, AroundSpliced
  <2> HIDE DEF e, B, C
  <2> QED BY <2>2, <2>3
<1>6. B = (A \o p) \o M
  <2>1. PlacesSplit(Seq(S), r, p, a, q, b)
    BY PlacesApart
  <2> HIDE DEF V, d, e, u, v
  <2> QED BY <2>1, Zenon DEF PlacesSplit
<1>7. TwoAround(V, v, A, p, M, qnew, C)
  <2> HIDE DEF A, M, B, C, v, V
  <2>1. Around(V, v, (A \o p) \o M, qnew, C)
    BY <1>5, <1>6
  <2>2. qnew \in Seq(V)
    BY DEF V
  <2> QED BY <1>4, <2>1, <2>2, SecondReplaced
<1>8. TwoAround(V, u, A, pnew, M, qnew, C)
  <2>1. Len(A) + 1 = d.first /\ Len(A) + Len(p) = d.last
    BY <1>1, <1>3
  <2> HIDE DEF A, M, B, C, v, V, d, e
  <2>2. pnew \in Seq(V)
    BY DEF V
  <2>3. Around(V, v, A, p, (M \o qnew) \o C)
    BY <1>7, FirstOfTwo
  <2>4. Around(V, Spliced(v, Len(A) + 1, Len(A) + Len(p), pnew), A, pnew, (M \o qnew) \o C)
    BY <2>2, <2>3, AroundSpliced
  <2>5. Around(V, u, A, pnew, (M \o qnew) \o C)
    BY <2>1, <2>4
  <2> HIDE DEF u
  <2> QED BY <1>7, <2>2, <2>5, FirstReplaced
<1>9. u = w
  <2> HIDE DEF A, M, C, u
  <2> QED BY <1>8, TwoReplaced DEF A, M, C
<1>10. SplitUpTo(S, r, v, {e})
  <2>1. SplitUpTo(S, r, r, {})
    BY <1>0, NoEdits
  <2> DEFINE fewer == {}
  <2>2. fewer \in SUBSET EditsOver(S) /\ \A x \in fewer : x.first > e.first /\ x.first > e.last
    OBVIOUS
  <2>3. fewer \cup {e} = {e}
    OBVIOUS
  <2>4. SplitUpTo(S, r, Spliced(r, e.first, e.last, qnew), fewer \cup {e})
    <3>1. SplitUpTo(S, r, r, fewer)
      BY <2>1
    <3> HIDE DEF e, fewer
    <3> QED BY <1>0, <1>2, <1>3, <2>2, <3>1, SplitFurther
  <2> HIDE DEF e, fewer
  <2> QED BY <2>3, <2>4
<1>11. SplitUpTo(S, r, u, {e, d})
  <2> DEFINE fewer == {e}
  <2>1. e.first > d.first /\ e.first > d.last
    BY <1>0, <1>1, <1>3
  <2>2. fewer \in SUBSET EditsOver(S) /\ \A x \in fewer : x.first > d.first /\ x.first > d.last
    BY <1>2, <2>1
  <2>3. SplitUpTo(S, r, Spliced(v, d.first, d.last, pnew), fewer \cup {d})
    <3> HIDE DEF v, d, e
    <3>1. SplitUpTo(S, r, v, fewer)
      BY <1>10
    <3> HIDE DEF fewer
    <3> QED BY <1>0, <1>2, <1>3, <2>2, <3>1, SplitFurther
  <2>4. fewer \cup {d} = {e, d}
    OBVIOUS
  <2> HIDE DEF fewer, v, d
  <2> QED BY <2>3, <2>4
<1> HIDE DEF u, d, e
<1>12. Joined(u) = Joined(Pieces(r, {e, d}, 0))
  <2>1. {e, d} \in SUBSET EditsOver(S)
    BY <1>2
  <2> QED BY <1>0, <1>11, <2>1, SplitAtStart
<1>13. ToSet(<<d, e>>) = {e, d}
  <2>1. DOMAIN <<d, e>> = {1, 2} /\ <<d, e>>[1] = d /\ <<d, e>>[2] = e
    OBVIOUS
  <2> QED BY <2>1 DEF ToSet
<1>14. Rebuilt(r, <<d, e>>) = Joined(Pieces(r, {e, d}, 0))
  BY <1>1, <1>13, RebuiltIs
<1> QED BY <1>9, <1>12, <1>14 DEF d, e

\* HunksAtOnce: two hunks whose places are plain and apart leave both replaced, in
\* whatever order the patch has them and whatever the first one brings in.
THEOREM HunksAtOnceHolds == HunksAtOnce
<1> DEFINE At(lines, hunk) == CHOOSE i \in Occurrences(lines, hunk.before) : TRUE
           Edit(lines, hunk) == [first |-> At(lines, hunk), last |-> At(lines, hunk) + Len(hunk.before) - 1,
                                 new |-> Joined(hunk.after)]
<1>1. ASSUME NEW x \in Texts, NEW h \in Hunks, NEW k \in Hunks,
             h.before # <<>>, k.before # <<>>,
             Cardinality(Occurrences(Lines(x), h.before)) = 1,
             Cardinality(Occurrences(Lines(x), k.before)) = 1,
             Edit(Lines(x), h).last < Edit(Lines(x), k).first,
             NEW y \in AfterHunks(x, <<h, k>>) \cup AfterHunks(x, <<k, h>>)
      PROVE  y = Rebuilt(Lines(x), <<Edit(Lines(x), h), Edit(Lines(x), k)>>)
  <2> DEFINE V == Seq(Atoms)
             r == Lines(x)
             a == At(r, h)
             b == At(r, k)
             A == SubSeq(r, 1, a - 1)
             M == SubSeq(r, a + Len(h.before), b - 1)
             C == SubSeq(r, b + Len(k.before), Len(r))
  <2>1. /\ x \in Seq(Atoms)
        /\ h.before \in Seq(V) /\ h.after \in Seq(V) /\ k.before \in Seq(V) /\ k.after \in Seq(V)
    BY EditsAssumption DEF EditsAssumption
  <2>2. r \in Seq(V)
    BY <2>1, LinesFacts
  <2>3. Occurrences(r, h.before) # {} /\ Occurrences(r, k.before) # {}
    <3>1. Cardinality({}) = 0
      BY FS_EmptySet
    <3>2. Cardinality(Occurrences(r, h.before)) # 0 /\ Cardinality(Occurrences(r, k.before)) # 0
      BY <1>1
    <3> HIDE DEF r
    <3> QED BY <3>1, <3>2
  <2>4. a \in Occurrences(r, h.before) /\ b \in Occurrences(r, k.before)
    BY <2>3
  <2>5. a + Len(h.before) - 1 < b
    BY <1>1
  <2>6. Edit(r, h) = EditOf(a, h.before, h.after) /\ Edit(r, k) = EditOf(b, k.before, k.after)
    BY DEF EditOf
  <2>7. PICK w : /\ y = Joined(w)
                 /\ \/ \E v \in HunkApplied(r, h) : w \in HunkApplied(v, k)
                    \/ \E v \in HunkApplied(r, k) : w \in HunkApplied(v, h)
    BY <1>1, HunksInTurn
  <2> HIDE DEF r, a, b, V
  <2>8. TwoPlaces(V, r, h.before, a, k.before, b)
    BY <1>1, <2>1, <2>2, <2>4, <2>5 DEF TwoPlaces
  <2>9. TwoAround(V, r, A, h.before, M, k.before, C)
    BY <2>8, PlacesApart DEF PlacesSplit
  <2>10. TwoAround(V, w, A, h.after, M, k.after, C)
    <3> HIDE DEF A, M, C
    <3> QED BY <2>1, <2>7, <2>9, HunksReplaced
  <2>11. Joined(w) = Rebuilt(r, <<EditOf(a, h.before, h.after), EditOf(b, k.before, k.after)>>)
    <3> DEFINE p == h.before
               q == k.before
               pnew == h.after
               qnew == k.after
    <3>1. TwoPlaces(Seq(Atoms), r, p, a, q, b) /\ pnew \in Seq(Seq(Atoms)) /\ qnew \in Seq(Seq(Atoms))
      BY <2>1, <2>8 DEF V
    <3>2. TwoAround(Seq(Atoms), w, SubSeq(r, 1, a - 1), pnew, SubSeq(r, a + Len(p), b - 1),
                    qnew, SubSeq(r, b + Len(q), Len(r)))
      BY <2>10 DEF V
    <3> HIDE DEF p, q, pnew, qnew
    <3>3. Joined(w) = Rebuilt(r, <<EditOf(a, p, pnew), EditOf(b, q, qnew)>>)
      BY <3>1, <3>2, PlacesRebuilt
    <3> QED BY <3>3 DEF p, q, pnew, qnew
  <2> QED BY <2>6, <2>7, <2>11 DEF r
<1> HIDE DEF Edit
<1>2. HunksAtOnce <=>
        \A x \in Texts, h \in Hunks, k \in Hunks :
          (/\ h.before # <<>> /\ k.before # <<>>
           /\ Cardinality(Occurrences(Lines(x), h.before)) = 1
           /\ Cardinality(Occurrences(Lines(x), k.before)) = 1
           /\ Edit(Lines(x), h).last < Edit(Lines(x), k).first) =>
             \A y \in AfterHunks(x, <<h, k>>) \cup AfterHunks(x, <<k, h>>) :
               y = Rebuilt(Lines(x), <<Edit(Lines(x), h), Edit(Lines(x), k)>>)
  BY DEF HunksAtOnce, Edit
<1> QED BY <1>1, <1>2

\* All of that together.
LEMMA EditsAreExactHolds == EditsAreExact
BY RangesRebuildHolds, HunksAtOnceHolds, ReplacedInPlaceHolds, PagesAreWholeHolds DEF EditsAreExact

\* When files are written, the numbers, contexts and strings a turn gave stand for the
\* text at their place and no other, for texts and edits of any length.
THEOREM EditsWhatWasMeantHolds == FileSpec => []EditsWhatWasMeant
<1>1. EditsWhatWasMeant
  BY EditsAreExactHolds DEF EditsWhatWasMeant
<1> QED BY <1>1, PTL

-----------------------------------------------------------------------------
(***************************************************************************)
(* LoopCoordinator.                                                        *)
(***************************************************************************)

USE LoopAssumption DEF LoopPriority, NoPriority, Location

(* Type correctness. *)

\* A yield check keeps the request set and the check counter typed.
LEMMA CheckYieldType ==
  ASSUME TypeOK, NEW l \in Loops, CheckYield(l)
  PROVE  /\ pendingYield' \subseteq LoopPriority
         /\ checks' \in [Loops -> 0..MaxChecks]
<1>1. pendingYield' \subseteq LoopPriority
  BY DEF TypeOK, CheckYield, ConsumeRequests
<1>2. checks[l] + 1 \in 0..MaxChecks
  BY DEF TypeOK, CheckYield
<1> QED BY <1>1, <1>2 DEF TypeOK, CheckYield

\* No operation leaves the declared state space of the coordinator.
THEOREM TypeCorrect == Spec => []TypeOK
<1>1. Init => TypeOK
  BY DEF Init, TypeOK
<1>2. TypeOK /\ [Next]_vars => TypeOK'
  <2> SUFFICES ASSUME TypeOK, [Next]_vars PROVE TypeOK'
    OBVIOUS
  <2> USE DEF TypeOK
  <2>1. CASE UNCHANGED vars
    BY <2>1 DEF vars
  <2>2. CASE ExpireRequest
    BY <2>2 DEF ExpireRequest
  <2>3. ASSUME NEW l \in Loops, LoopStep(l) PROVE TypeOK'
    <3>1. CASE Enqueue(l)
      BY <3>1 DEF Enqueue, Waiters
    <3>2. CASE Acquire(l)
      BY <3>2 DEF Acquire, StartHold, SetHolder
    <3>3. CASE TryAcquire(l)
      BY <3>3 DEF TryAcquire, StartHold, SetHolder
    <3>4. CASE Refuse(l)
      BY <3>4 DEF Refuse
    <3>5. CASE Release(l)
      BY <3>5 DEF Release, ClearHolder
    <3>6. CASE YieldKeep(l)
      BY <3>6, CheckYieldType DEF YieldKeep
    <3>7. CASE YieldRelease(l)
      BY <3>7, CheckYieldType DEF YieldRelease, ClearHolder
    <3>8. CASE Resume(l)
      BY <3>8 DEF Resume, SetHolder
    <3> QED BY <2>3, <3>1, <3>2, <3>3, <3>4, <3>5, <3>6, <3>7, <3>8
               DEF LoopStep
  <2> QED BY <2>1, <2>2, <2>3 DEF Next
<1> QED BY <1>1, <1>2, PTL DEF Spec

-----------------------------------------------------------------------------
(* Mutual exclusion.  The invariant needs HolderIsRunning (an acquirer that *)
(* sees no holder sees nobody inside) and ReservationIsLive rides along.    *)

LockInv == MutualExclusion /\ HolderIsRunning /\ ReservationIsLive

LEMMA LockInvInit == Init => LockInv
BY DEF Init, LockInv, MutualExclusion, HolderIsRunning, ReservationIsLive,
       Holding

\* A loop that enters a free lock is alone inside, with its own name recorded.
LEMMA EnterFree ==
  ASSUME TypeOK, LockInv, NEW l \in Loops, holder = NoName,
         pc' = [pc EXCEPT ![l] = "holding"], SetHolder(l)
  PROVE  /\ Holding' = {l}
         /\ MutualExclusion' /\ HolderIsRunning'
<1>1. Holding = {}
  BY DEF LockInv, HolderIsRunning, Holding
<1>2. Holding' = {l}
  BY <1>1 DEF Holding, TypeOK
<1>3. MutualExclusion'
  BY <1>2 DEF MutualExclusion
<1>4. HolderIsRunning'
  BY <1>2 DEF HolderIsRunning, SetHolder
<1> QED BY <1>2, <1>3, <1>4

\* A loop that leaves the lock leaves it free.
LEMMA LeaveFree ==
  ASSUME TypeOK, LockInv, NEW l \in Loops, pc[l] = "holding",
         NEW to \in Location \ {"holding"}, pc' = [pc EXCEPT ![l] = to],
         ClearHolder
  PROVE  /\ Holding = {l} /\ Holding' = {}
         /\ MutualExclusion' /\ HolderIsRunning'
<1>1. Holding = {l}
  BY DEF LockInv, MutualExclusion, Holding
<1>2. Holding' = {}
  BY <1>1 DEF Holding, TypeOK
<1> QED BY <1>1, <1>2 DEF MutualExclusion, HolderIsRunning, ClearHolder

\* Steps that move nobody in or out keep the first two conjuncts.
LEMMA SameHolding ==
  ASSUME LockInv, Holding' = Holding, UNCHANGED <<holder, holderPriority>>
  PROVE  MutualExclusion' /\ HolderIsRunning'
BY DEF LockInv, MutualExclusion, HolderIsRunning

LEMMA LockInvNext == TypeOK /\ LockInv /\ [Next]_vars => LockInv'
<1> SUFFICES ASSUME TypeOK, LockInv, [Next]_vars PROVE LockInv'
  OBVIOUS
<1> USE DEF LockInv
<1>1. CASE UNCHANGED vars
  BY <1>1, SameHolding DEF vars, Holding, ReservationIsLive, Yielding
<1>2. CASE ExpireRequest
  BY <1>2, SameHolding
     DEF ExpireRequest, Holding, ReservationIsLive, Yielding
<1>3. ASSUME NEW l \in Loops, LoopStep(l) PROVE LockInv'
  <2>1. CASE Enqueue(l)
    <3>1. Holding' = Holding
      BY <2>1 DEF Enqueue, Holding, TypeOK
    <3> QED BY <2>1, <3>1, SameHolding
               DEF Enqueue, ReservationIsLive, Yielding, TypeOK
  <2>2. CASE Acquire(l)
    <3>1. MutualExclusion' /\ HolderIsRunning'
      BY <2>2, EnterFree DEF Acquire, CanAcquire, StartHold
    <3>2. ReservationIsLive'
      BY <2>2 DEF Acquire, ReservationIsLive, Yielding, TypeOK
    <3> QED BY <3>1, <3>2
  <2>3. CASE TryAcquire(l)
    <3>1. MutualExclusion' /\ HolderIsRunning'
      BY <2>3, EnterFree DEF TryAcquire, StartHold
    <3>2. ReservationIsLive'
      BY <2>3 DEF TryAcquire, ReservationIsLive, Yielding, TypeOK
    <3> QED BY <3>1, <3>2
  <2>4. CASE Refuse(l)
    BY <2>4, SameHolding DEF Refuse, Holding, ReservationIsLive, Yielding
  <2>5. CASE Release(l)
    <3>1. holder = Name[l]
      BY <2>5 DEF Release, HolderIsRunning, Holding
    <3>2. MutualExclusion' /\ HolderIsRunning'
      BY <2>5, <3>1, LeaveFree DEF Release
    <3>3. ReservationIsLive'
      BY <2>5 DEF Release, ReservationIsLive, Yielding, TypeOK
    <3> QED BY <3>2, <3>3
  <2>6. CASE YieldKeep(l)
    BY <2>6, SameHolding DEF YieldKeep, Holding, ReservationIsLive, Yielding
  <2>7. CASE YieldRelease(l)
    <3>1. PICK to \in {"handover", "pausing"} :
            pc[l] = "holding" /\ pc' = [pc EXCEPT ![l] = to]
      BY <2>7 DEF YieldRelease, CheckYield
    <3>2. MutualExclusion' /\ HolderIsRunning'
      BY <2>7, <3>1, LeaveFree DEF YieldRelease
    <3>3. ReservationIsLive'
      BY <2>7, <3>1 DEF YieldRelease, ReservationIsLive, Yielding, TypeOK
    <3> QED BY <3>2, <3>3
  <2>8. CASE Resume(l)
    <3>1. MutualExclusion' /\ HolderIsRunning'
      BY <2>8, EnterFree DEF Resume
    <3>2. ReservationIsLive'
      BY <2>8 DEF Resume, ReservationIsLive
    <3> QED BY <3>1, <3>2
  <2> QED BY <1>3, <2>1, <2>2, <2>3, <2>4, <2>5, <2>6, <2>7, <2>8
             DEF LoopStep
<1> QED BY <1>1, <1>2, <1>3 DEF Next

\* The lock invariant holds throughout.
THEOREM LockInvariant == Spec => []LockInv
BY TypeCorrect, LockInvInit, LockInvNext, PTL DEF Spec

\* At most one loop of the Subject runs at any time.
THEOREM MutualExclusionHolds == Spec => []MutualExclusion
<1>1. LockInv => MutualExclusion
  BY DEF LockInv
<1> QED BY <1>1, LockInvariant, PTL

\* The lock is never left taken by a loop that is not running.
THEOREM HolderIsRunningHolds == Spec => []HolderIsRunning
<1>1. LockInv => HolderIsRunning
  BY DEF LockInv
<1> QED BY <1>1, LockInvariant, PTL

\* No yield reservation outlives the yield that made it.
THEOREM ReservationIsLiveHolds == Spec => []ReservationIsLive
<1>1. LockInv => ReservationIsLive
  BY DEF LockInv
<1> QED BY <1>1, LockInvariant, PTL
-----------------------------------------------------------------------------
(* The order of entry.                                                      *)

\* Scheduled loops enter by priority, then in order of arrival.
THEOREM QueueOrderHolds == Spec => QueueOrder
<1>1. TypeOK /\ [Next]_vars => EntersInOrder
  <2> SUFFICES ASSUME TypeOK, [Next]_vars, NEW l \in Loops, NEW w \in Loops,
                      pc[l] = "waiting", pc'[l] = "holding",
                      pc[w] = "waiting", w # l
               PROVE  Before(l, w)
    BY DEF EntersInOrder
  <2>1. Acquire(l)
    BY DEF Next, LoopStep, vars, TypeOK, ExpireRequest, Enqueue, Acquire,
           TryAcquire, Refuse, Release, YieldKeep, YieldRelease, CheckYield,
           Resume, Yielding
  <2>2. CASE w \in EligibleWaiters
    BY <2>1, <2>2 DEF Acquire, CanAcquire
  <2>3. CASE w \notin EligibleWaiters
    <3>1. /\ yieldingHolder \in Loops
          /\ Priority[l] < Priority[yieldingHolder]
      BY <2>1, <2>3
         DEF Acquire, CanAcquire, EligibleWaiters, Waiters, TypeOK
    <3>2. ~(Priority[w] < Priority[yieldingHolder])
      BY <2>3, <3>1 DEF EligibleWaiters, Waiters
    <3> QED BY <3>1, <3>2 DEF Before
  <2> QED BY <2>2, <2>3
<1> QED BY <1>1, TypeCorrect, PTL DEF Spec, QueueOrder

-----------------------------------------------------------------------------
(* The slot of a yielder.  It holds because all yielders of the system have *)
(* one priority, so that no yield nests in another.                         *)

OneYielderPriority == \A y, z \in Yielders : Priority[y] = Priority[z]

SlotInv ==
  \A y, m \in Loops :
    Yielding(y) => /\ y \in Yielders
                   /\ yieldingHolder = y
                   /\ m \in Yielders /\ m # y => pc[m] # "holding"

LEMMA SlotInvNext ==
  ASSUME OneYielderPriority
  PROVE  TypeOK /\ LockInv /\ SlotInv /\ [Next]_vars => SlotInv'
<1> SUFFICES ASSUME TypeOK, LockInv, SlotInv, [Next]_vars PROVE SlotInv'
  OBVIOUS
<1> USE DEF SlotInv, Yielding, TypeOK
<1>1. CASE UNCHANGED vars
  BY <1>1 DEF vars
<1>2. CASE ExpireRequest
  BY <1>2 DEF ExpireRequest
<1>3. ASSUME NEW l \in Loops, LoopStep(l) PROVE SlotInv'
  <2>1. CASE Enqueue(l)
    BY <2>1 DEF Enqueue
  <2>2. CASE Acquire(l)
    <3>1. ASSUME NEW y \in Loops, Yielding(y) PROVE l \notin Yielders
      BY <2>2, <3>1 DEF Acquire, CanAcquire, OneYielderPriority
    <3>2. /\ \A y \in Loops : Yielding(y)' <=> Yielding(y)
          /\ \A m \in Loops \ {l} : pc'[m] = pc[m]
          /\ yieldingHolder' = yieldingHolder
      BY <2>2 DEF Acquire
    <3>3. ASSUME NEW y \in Loops, NEW m \in Loops, Yielding(y)'
          PROVE  /\ y \in Yielders /\ yieldingHolder' = y
                 /\ m \in Yielders /\ m # y => pc'[m] # "holding"
      <4>1. CASE m = l
        BY <3>1, <3>2, <3>3, <4>1
      <4>2. CASE m # l
        BY <3>2, <3>3, <4>2
      <4> QED BY <4>1, <4>2
    <3> QED BY <3>3
  <2>3. CASE TryAcquire(l)
    BY <2>3 DEF TryAcquire
  <2>4. CASE Refuse(l)
    BY <2>4 DEF Refuse
  <2>5. CASE Release(l)
    BY <2>5 DEF Release
  <2>6. CASE YieldKeep(l)
    BY <2>6 DEF YieldKeep
  <2>7. CASE YieldRelease(l)
    <3>1. \A m \in Loops : pc[m] = "holding" => m = l
      BY <2>7 DEF YieldRelease, CheckYield, LockInv, MutualExclusion, Holding
    <3>2. \A y \in Loops : ~Yielding(y)
      BY <2>7 DEF YieldRelease, CheckYield
    <3> QED BY <2>7, <3>1, <3>2 DEF YieldRelease, CheckYield
  <2>8. CASE Resume(l)
    BY <2>8 DEF Resume
  <2> QED BY <1>3, <2>1, <2>2, <2>3, <2>4, <2>5, <2>6, <2>7, <2>8
             DEF LoopStep
<1> QED BY <1>1, <1>2, <1>3 DEF Next

\* If all loops that yield have one priority, no queued loop of an equal or
\* lower priority gets in ahead of a loop that yields.
THEOREM YieldSlotKeptHolds ==
  ASSUME OneYielderPriority
  PROVE  Spec => YieldSlotKept
<1>1. Init => SlotInv
  BY DEF Init, SlotInv, Yielding
<1>2. TypeOK /\ LockInv /\ SlotInv /\ [Next]_vars => SlotInv'
  BY SlotInvNext
<1>3. TypeOK /\ SlotInv /\ [Next]_vars => PassesYielders
  <2> SUFFICES ASSUME TypeOK, SlotInv, [Next]_vars,
                      NEW y \in Loops, NEW l \in Loops, Yielding(y),
                      pc[l] = "waiting", pc'[l] = "holding"
               PROVE  Priority[l] < Priority[y]
    BY DEF PassesYielders
  <2>1. Acquire(l)
    BY DEF Next, LoopStep, vars, TypeOK, ExpireRequest, Enqueue, Acquire,
           TryAcquire, Refuse, Release, YieldKeep, YieldRelease, CheckYield,
           Resume, Yielding
  <2>2. yieldingHolder = y /\ y # NoLoop
    BY DEF SlotInv
  <2> QED BY <2>1, <2>2 DEF Acquire, CanAcquire
<1> QED BY <1>1, <1>2, <1>3, TypeCorrect, LockInvariant, PTL
           DEF Spec, YieldSlotKept

\* Both together: who enters next.
THEOREM EntryOrderHolds ==
  ASSUME OneYielderPriority
  PROVE  Spec => EntryOrder
<1>1. EntersInOrder /\ PassesYielders => (EntersInOrder /\ PassesYielders)
  OBVIOUS
<1> QED BY <1>1, QueueOrderHolds, YieldSlotKeptHolds, PTL DEF QueueOrder, YieldSlotKept, EntryOrder

-----------------------------------------------------------------------------
(* Refinement of the plain lock.                                            *)

\* Every step of the coordinator is an entry, an exit, or no step at all of
\* the plain lock of the Subject.
THEOREM Refinement == Spec => ImplementsSubjectLock
<1>1. Init => Lock!Init
  BY DEF Init, Lock!Init, Holding
<1>2. TypeOK /\ LockInv /\ [Next]_vars => [Lock!Next]_Holding
  <2> SUFFICES ASSUME TypeOK, LockInv, [Next]_vars
               PROVE  [Lock!Next]_Holding
    OBVIOUS
  <2>1. CASE UNCHANGED vars
    BY <2>1 DEF vars, Holding
  <2>2. CASE ExpireRequest
    BY <2>2 DEF ExpireRequest, Holding
  <2>3. ASSUME NEW l \in Loops, LoopStep(l) PROVE [Lock!Next]_Holding
    <3>1. CASE Acquire(l) \/ TryAcquire(l) \/ Resume(l)
      <4>1. holder = NoName /\ SetHolder(l)
              /\ pc' = [pc EXCEPT ![l] = "holding"]
        BY <3>1 DEF Acquire, CanAcquire, TryAcquire, Resume, StartHold
      <4>2. Holding = {}
        BY <4>1 DEF LockInv, HolderIsRunning, Holding
      <4>3. Holding' = {l}
        BY <4>1, EnterFree
      <4> QED BY <4>2, <4>3 DEF Lock!Next, Lock!Enter
    <3>2. CASE Release(l) \/ YieldRelease(l)
      <4>1. PICK to \in Location \ {"holding"} :
              pc[l] = "holding" /\ pc' = [pc EXCEPT ![l] = to]
        BY <3>2 DEF Release, YieldRelease, CheckYield
      <4>2. ClearHolder
        BY <3>2, <4>1
           DEF Release, YieldRelease, LockInv, HolderIsRunning, Holding
      <4>3. Holding = {l} /\ Holding' = {}
        BY <4>1, <4>2, LeaveFree
      <4> QED BY <4>3 DEF Lock!Next, Lock!Leave
    <3>3. CASE Enqueue(l) \/ Refuse(l) \/ YieldKeep(l)
      <4>1. Holding' = Holding
        BY <3>3 DEF Enqueue, Refuse, YieldKeep, Holding, TypeOK
      <4> QED BY <4>1
    <3> QED BY <2>3, <3>1, <3>2, <3>3 DEF LoopStep
  <2> QED BY <2>1, <2>2, <2>3 DEF Next
<1> QED BY <1>1, <1>2, TypeCorrect, LockInvariant, PTL
           DEF Spec, ImplementsSubjectLock, Lock!Spec

=============================================================================
