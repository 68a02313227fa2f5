------------------------- MODULE CounterpartsProps -------------------------
(***************************************************************************)
(* What the routing of counterparts promises.                              *)
(***************************************************************************)
EXTENDS Counterparts

Turns ==
  [at: Stages, session: Sessions, source: Sources, ref: Ids \union {None},
   kind: Kinds, found: Nat \union {None}]

\* Types; also what a turn at each stage has settled.
TypeOK ==
  /\ log \in Seq(Events)
  /\ view \in [Ids -> Ids \union {None}]
  /\ bindings \in [Sessions -> [counterpart: Ids \union {None}, source: Sources]]
  /\ turn \in [Processes -> {NoTurn} \union Turns]
  /\ turns \in 0..MaxTurns
  /\ snapshots \in [Sessions -> [Kinds -> Nat \union {None}]]
  /\ summaries \in Seq([about: Ids \union {None}, active: BOOLEAN])

\* The sessions that a user with an identity has bound.
ByUser(s) ==
  bindings[s] # Unbound /\ bindings[s].source.kind = "user_message" /\ bindings[s].source.identity # None

\* Two users share a counterpart, and with it beliefs and a profile, exactly
\* when they are one: whoever takes the default counterpart over keeps it,
\* a later user never gets it, and the same user comes back to the same
\* counterpart, although the event and its view are two transactions and a
\* turn may be killed between them and leave the view behind for ever.
UsersApart ==
  \A s, t \in Sessions:
    ByUser(s) /\ ByUser(t) =>
      (bindings[s].counterpart = bindings[t].counterpart
        <=> bindings[s].source.identity = bindings[t].source.identity)

\* What the prompt of a session begins with is never rewritten, whatever
\* summaries are written later and whoever speaks in the session: it only
\* grows, by a summary of the agent itself and by a profile of the very
\* counterpart the session is bound to.
PrefixIsOwn ==
  [][\A s \in Sessions:
       /\ \A kind \in Kinds:
            snapshots[s][kind] # None => snapshots'[s][kind] = snapshots[s][kind]
       /\ snapshots'[s]["self_memory"] # None => summaries'[snapshots'[s]["self_memory"]].about = None
       /\ snapshots'[s]["profile"] # None =>
            /\ bindings'[s].counterpart # None
            /\ summaries'[snapshots'[s]["profile"]].about = bindings'[s].counterpart]_vars
=============================================================================
