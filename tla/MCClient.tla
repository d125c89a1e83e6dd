------------------------------ MODULE MCClient ------------------------------
(***************************************************************************)
(* What a client keeps, checked in one run: the outbox with its retry      *)
(* table, the engine below it, the keys of its encrypted conversations and *)
(* the mount that shows them. They share no state here: a behaviour is one *)
(* of one part, the others stay as they begin. (The outbox writes through  *)
(* the operations of KVStore, which the engine implements.)                *)
(***************************************************************************)
EXTENDS Outbox, Engine, E2ee, Mount

VARIABLE part  \* the part that runs

\* Two days of one conversation.
TwoDays == {[peer |-> "n", day |-> "n"], [peer |-> "n", day |-> "d"]}

\* Directories and entries spelled plainly: /, /contacts, /contacts/n,
\* /history/n, /history/n/n, /n and /n/n; and entries of the same directories
\* through a slash at the end, a bare name and doubled slashes.
PlainPaths == {<<"", "">>, <<"", "contacts">>, <<"", "contacts", "n">>, <<"", "history", "n">>,
               <<"", "history", "n", "n">>, <<"", "n">>, <<"", "n", "n">>}
OddPaths == {<<"", "contacts", "">>, <<"contacts">>, <<"contacts", "n">>,
             <<"", "", "contacts", "", "n">>, <<"n">>, <<"">>}
CallerPaths == PlainPaths \cup OddPaths

ClientInit ==
  /\ part \in {"outbox", "engine", "e2ee", "mount"}
  /\ Init /\ EngineInit /\ E2eeInit
  /\ IF part = "mount" THEN MountInit
     ELSE memfs = EmptyFs /\ cache = EmptyLru /\ used = <<>> /\ missed = {}

ClientNext ==
  \/ part = "outbox" /\ Next /\ UNCHANGED <<engineVars, e2eeVars, mountVars>>
  \/ part = "engine" /\ EngineNext /\ UNCHANGED <<vars, e2eeVars, mountVars>>
  \/ part = "e2ee" /\ E2eeNext /\ UNCHANGED <<vars, engineVars, mountVars>>
  \/ part = "mount" /\ MountNext /\ UNCHANGED <<vars, engineVars, e2eeVars>>

ClientSpec ==
  ClientInit
  /\ [][ClientNext /\ UNCHANGED part]_<<vars, engineVars, e2eeVars, mountVars, part>>
=============================================================================
