------------------------------ MODULE MCParts ------------------------------
(***************************************************************************)
(* Parts that keep a state of their own and share none of it, checked in   *)
(* one run: the tables behind the REST interface, the view of the terminal *)
(* client, the pieces of the transport and the instruments of the          *)
(* benchmarks. A behaviour is one of one part; the others stay as they     *)
(* begin.                                                                  *)
(***************************************************************************)
EXTENDS Friends, Accounts, Groups, Files, ChatView, SeqWindow, Codec, Backoff, WeakLink,
        Histogram

VARIABLE part  \* the part that runs

Parts == {"friends", "accounts", "groups", "files", "chat", "window", "codec", "backoff",
          "link", "histogram"}

(***************************************************************************)
(* Frames of every command, with numbers of one, two and three groups,     *)
(* empty and non-empty texts, batches of none and of two messages, alone   *)
(* and two in a row.                                                       *)
(***************************************************************************)
Txt(n, t) == [nums |-> n, text |-> t]
Frames1 ==
  {[cmd |-> "Handshake", seq |-> 1, body |-> Txt(<<9>>, <<3, 15>>)],
   [cmd |-> "HandshakeAck", seq |-> 127, body |-> Txt(<<0>>, <<>>)],
   [cmd |-> "Ping", seq |-> 0, body |-> <<>>],
   [cmd |-> "Msg", seq |-> 8, body |-> Txt(<<0, 7, 64, 127>>, <<8>>)],
   [cmd |-> "MsgAck", seq |-> 7, body |-> Txt(<<127, 63>>, <<>>)],
   [cmd |-> "SyncReq", seq |-> 64, body |-> Txt(<<8>>, <<>>)],
   [cmd |-> "SyncResp", seq |-> 2, body |-> <<>>],
   [cmd |-> "SyncResp", seq |-> 3,
    body |-> <<Txt(<<1, 2, 8, 3>>, <<>>), Txt(<<1, 2, 9, 127>>, <<15, 0>>)>>]}
FramePairs ==
  {<<m, n>> : m \in {x \in Frames1 : x.cmd \in {"HandshakeAck", "Ping", "SyncReq"}},
              n \in {x \in Frames1 : x.cmd \in {"Ping", "MsgAck", "Handshake"}}}
PartMessages == {<<m>> : m \in Frames1} \cup FramePairs

PartsInit ==
  /\ part \in Parts
  /\ FriendsInit /\ AccountsInit /\ GroupsInit /\ FilesInit /\ ChatInit
  /\ Init /\ BackoffInit /\ HistInit
  /\ IF part = "codec" THEN CodecInit
     ELSE /\ sent = <<>> /\ stream = <<>> /\ fed = 0
          /\ decoder = NewDecoder /\ frames = <<>>
  /\ LinkInit
  /\ part # "link" => jitter = 0 /\ ~lossy

webVars == <<friendVars, accountVars, groupVars, fileVars>>
toolVars == <<backoffVars, linkVars, histVars>>

PartsNext ==
  \/ /\ part = "friends" /\ FriendsNext
     /\ UNCHANGED <<accountVars, groupVars, fileVars, chatVars, vars, codecVars, toolVars>>
  \/ /\ part = "accounts" /\ AccountsNext
     /\ UNCHANGED <<friendVars, groupVars, fileVars, chatVars, vars, codecVars, toolVars>>
  \/ /\ part = "groups" /\ GroupsNext
     /\ UNCHANGED <<friendVars, accountVars, fileVars, chatVars, vars, codecVars, toolVars>>
  \/ /\ part = "files" /\ FilesNext
     /\ UNCHANGED <<friendVars, accountVars, groupVars, chatVars, vars, codecVars, toolVars>>
  \/ /\ part = "chat" /\ ChatNext
     /\ UNCHANGED <<webVars, vars, codecVars, toolVars>>
  \/ /\ part = "window" /\ Next
     /\ UNCHANGED <<webVars, chatVars, codecVars, toolVars>>
  \/ /\ part = "codec" /\ CodecNext
     /\ UNCHANGED <<webVars, chatVars, vars, toolVars>>
  \/ /\ part = "backoff" /\ BackoffNext
     /\ UNCHANGED <<webVars, chatVars, vars, codecVars, linkVars, histVars>>
  \/ /\ part = "link" /\ LinkNext
     /\ UNCHANGED <<webVars, chatVars, vars, codecVars, backoffVars, histVars>>
  \/ /\ part = "histogram" /\ HistNext
     /\ UNCHANGED <<webVars, chatVars, vars, codecVars, backoffVars, linkVars>>

PartsSpec ==
  PartsInit /\ [][PartsNext /\ UNCHANGED part]_<<webVars, chatVars, vars, codecVars, toolVars, part>>
=============================================================================
