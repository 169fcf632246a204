----------------------------- MODULE CloudBridge -----------------------------
(***************************************************************************)
(* cloud_bridge.c and cloud_rest.c: the second MQTT client, to the         *)
(* manufacturer's cloud.  Its topics contain the model of the stove, which *)
(* comes from the cached configuration or, once per boot, from the REST    *)
(* interface; without it the client connects but neither subscribes nor    *)
(* publishes.  The cloud forgets the subscriptions of a lost connection.   *)
(***************************************************************************)
EXTENDS Naturals

VARIABLES
  cloud,       \* the client: "none", "down", or "up" once connected
  model,       \* s_stove_model is known
  subscribed,  \* the cloud's broker holds the six IN subscriptions
  pub_task     \* s_pub_task runs

cloudVars == <<cloud, model, subscribed, pub_task>>

CloudInit ==
  /\ cloud = "none"
  /\ model = FALSE
  /\ subscribed = FALSE
  /\ pub_task = FALSE

(* cloud_rest_fetch_stove_info, reduced to what comes of it: the login,    *)
(* the list of stoves and the command that reveals the model can each      *)
(* fail; without the model the function still succeeds.                    *)
FetchOutcomes(account) == IF account THEN {"failed", "no model", "model"} ELSE {"failed"}

(* cloud_bridge_start with the configuration conf and the secrets of the   *)
(* stove present or not; fetched tells whether the model was cached now.   *)
StartCloud(conf, secrets, fetched) ==
  IF conf.cloud /\ secrets
    THEN /\ cloud' = "down"
         /\ model' = (conf.cached \/ fetched)
         /\ UNCHANGED <<subscribed, pub_task>>
    ELSE UNCHANGED cloudVars

(* Mutant: the subscription moved into the start of the task. *)
SubscribesOnce == model /\ ~pub_task

Subscribes == model

(* MQTT_EVENT_CONNECTED *)
CloudConnected(reachable) ==
  /\ cloud = "down"
  /\ reachable
  /\ cloud' = "up"
  /\ subscribed' = Subscribes
  /\ pub_task' = (pub_task \/ model)
  /\ UNCHANGED model

CloudDisconnected(reachable) ==
  /\ cloud = "up"
  /\ ~reachable
  /\ cloud' = "down"
  /\ subscribed' = FALSE
  /\ UNCHANGED <<model, pub_task>>

CloudReset ==
  /\ cloud' = "none"
  /\ model' = FALSE
  /\ subscribed' = FALSE
  /\ pub_task' = FALSE

(* A message of the cloud arrives, and one of the task's gets out. *)
CloudHears(reachable) == cloud = "up" /\ reachable /\ subscribed
CloudTells(reachable) == cloud = "up" /\ reachable /\ pub_task
==============================================================================
