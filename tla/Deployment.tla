----------------------------- MODULE Deployment -----------------------------
(***************************************************************************)
(* The whole installation: the two chains, the watcher's server with its   *)
(* loop and its endpoints, the dashboard in a browser, and the end-to-end  *)
(* script. Each of them is a stranger to the others, after the same        *)
(* subscription.                                                           *)
(***************************************************************************)
EXTENDS TestFlow, WatcherPage

deployment_vars == << vars, flow_vars, page_vars >>

DeploymentInit == Init /\ FlowInit /\ PageInit

\* The chains and the polling loop go on as in Watcher.
Background ==
    /\ \/ RemoteStep
       \/ HubBlock
       \/ Include
       \/ Tick
       \/ ListSubscriptions
       \/ Step("loop")
       \/ CallFails("loop")
       \/ Flush
    /\ UNCHANGED << flow_vars, page_vars >>

DeploymentNext ==
    \/ Background
    \/ FlowNext /\ UNCHANGED page_vars
    \/ PageNext /\ UNCHANGED flow_vars

(***************************************************************************)
(* The calls of the server return, with an answer or an error, and so do   *)
(* those of the browser. The chains need not go on, nor the script.        *)
(***************************************************************************)
ClientFairness ==
    /\ \A t \in Requests : WF_deployment_vars(RequestStep(t) /\ UNCHANGED flow_vars)
    /\ \A p \in Askers : WF_deployment_vars(StatusArrives(p) /\ UNCHANGED flow_vars)

DeploymentSpec == DeploymentInit /\ [][DeploymentNext]_deployment_vars /\ ClientFairness

=============================================================================
