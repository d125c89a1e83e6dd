------------------------------ MODULE MCTasks -------------------------------
(***************************************************************************)
(* The tasks and threads that wait for each other through channels, locks  *)
(* and joins, checked in one run: the callers of the id generator, the     *)
(* tasks of a connection, the WebSocket tasks and the threads of the SDK.  *)
(* They share no state here: a behaviour is one of one part, the others    *)
(* stay as they begin, and only the part that runs is scheduled fairly.    *)
(***************************************************************************)
EXTENDS Snowflake, Gateway, WsLoop, Sdk

VARIABLE part  \* the part that runs

taskParts == <<vars, gatewayVars, wsVars, sdkVars, part>>

TasksInit ==
  /\ part \in {"ids", "gateway", "ws", "sdk"}
  /\ Init /\ GatewayInit /\ WsInit /\ SdkInit
  /\ part # "ids" => clock = [m \in Machines |-> 0]
  /\ part # "gateway" => role = "server"
  /\ part # "sdk" => serverUp

TasksNext ==
  \/ part = "ids" /\ Next /\ UNCHANGED <<gatewayVars, wsVars, sdkVars>>
  \/ part = "gateway" /\ GatewayNext /\ UNCHANGED <<vars, wsVars, sdkVars>>
  \/ part = "ws" /\ WsNext /\ UNCHANGED <<vars, gatewayVars, sdkVars>>
  \/ part = "sdk" /\ SdkNext /\ UNCHANGED <<vars, gatewayVars, wsVars>>

(***************************************************************************)
(* Fairness, WsFairness, GatewayFairness and SdkFairness. The tasks of the *)
(* first two have nothing to do before somebody calls; the others are      *)
(* started by their initial state.                                         *)
(***************************************************************************)
TasksFairness ==
  /\ Fairness
  /\ WsFairness
  /\ WF_gatewayVars(part = "gateway" /\ ReadLoop)
  /\ WF_gatewayVars(part = "gateway" /\ WriterRuns)
  /\ WF_gatewayVars(part = "gateway" /\ Heartbeat)
  /\ WF_gatewayVars(part = "gateway" /\ Join)
  /\ WF_gatewayVars(part = "gateway" /\ Business)
  /\ SdkFairness

TasksSpec ==
  TasksInit /\ [][TasksNext /\ UNCHANGED part]_taskParts /\ TasksFairness
=============================================================================
