----------------------------- MODULE MqttBridge ------------------------------
(***************************************************************************)
(* mqtt_bridge.c: the session with the user's MQTT broker.  The client of  *)
(* esp-mqtt runs the event handler in its own task; publish_task publishes *)
(* the state from another; POST /api/mqtt/test opens a second, short-lived *)
(* client from the web server's task.                                      *)
(*                                                                         *)
(* The broker keeps announcements and the availability as retained         *)
(* messages.  It learns of a lost connection only after the keepalive, or  *)
(* when the same client id connects again, and publishes the last will     *)
(* then.  On one connection messages arrive in the order they were sent;   *)
(* what a broken connection leaves unacknowledged esp-mqtt sends again     *)
(* over the next one, in any interleaving with new messages, or drops      *)
(* after a while.                                                          *)
(***************************************************************************)
EXTENDS MqttContract

CONSTANTS
  Types,      \* the stoves considered
  MaxTests    \* bound: tests of the broker's settings

ASSUME TypesAssumption == Types \subseteq StoveTypes
ASSUME MqttBoundAssumption == MaxTests \in Nat

VARIABLES
  conn,      \* the client: "none", "down", or "up" as far as it knows
  mqtt_bit,  \* MQTT_CONNECTED_BIT
  rcvd,      \* messages of this connection's discovery the broker has
  old,       \* the first message of an earlier discovery to be sent again
  testing,   \* the test client: "idle", "opening" or "ok"
  type,      \* mn_detected_stove_type
  sessions,  \* broker: whose connection each client id is
  avail,     \* broker: the retained availability
  retained,  \* broker: the retained announcements
  values,    \* the items published on each topic over this connection
  tests

deviceVars == <<conn, mqtt_bit, rcvd, old, testing, type>>
brokerVars == <<sessions, avail, retained, values>>
mqttVars == <<deviceVars, brokerVars, tests>>

MainId == "mac"

(* Mutant: the test client takes the default client id too. *)
SameId == "mac"

TestId == "test"

ClientIds == {MainId, TestId}

(* The discovery: its sections, then the availability. *)
Last == LastSection + 1
NoOld == Last + 1

NoValues == [t \in Topics |-> {}]

Legacy == ChronoDeletes \union {Id("binary_sensor", "cloud_enabled", 0), Water.id, CloudSwitch.id}

(* An earlier firmware has announced what this one does not. *)
MqttInit ==
  /\ conn = "none"
  /\ mqtt_bit = FALSE
  /\ rcvd = 0
  /\ old = NoOld
  /\ testing = "idle"
  /\ type \in Types
  /\ sessions = [i \in ClientIds |-> "none"]
  /\ avail = "none"
  /\ retained = Legacy
  /\ values = NoValues
  /\ tests = 0

(* Messages get through: the broker and the client mean the same           *)
(* connection, and the network carries it.                                 *)
Alive(reachable) == conn = "up" /\ sessions[MainId] = "bridge" /\ reachable

Smaller(i, j) == IF i < j THEN i ELSE j

------------------------------------------------------------------------------
(* The broker *)

(* Mutant: the client was configured without a last will. *)
NoWill == avail

LastWill == "offline"

(* A client id that connects again ends the session it has. *)
Connect(id, who) ==
  /\ sessions' = [sessions EXCEPT ![id] = who]
  /\ avail' = IF sessions[id] = "bridge" THEN LastWill ELSE avail

(* One and a half times the keepalive without a sign of the bridge. *)
Expire(reachable) ==
  /\ sessions[MainId] = "bridge"
  /\ ~Alive(reachable)
  /\ sessions' = [sessions EXCEPT ![MainId] = "none"]
  /\ avail' = LastWill
  /\ UNCHANGED <<deviceVars, retained, values, tests>>

(* Message i of the discovery takes effect. *)
Apply(i, account) ==
  IF i = Last THEN avail' = "online" /\ UNCHANGED retained
  ELSE /\ retained' = (retained \ Deleted[i][type][account]) \union AnnouncedIds[i][type][account]
       /\ UNCHANGED avail

Deliver(reachable, account) ==
  /\ Alive(reachable)
  /\ rcvd < Last
  /\ rcvd' = rcvd + 1
  /\ Apply(rcvd + 1, account)
  /\ UNCHANGED <<conn, mqtt_bit, old, testing, type, sessions, values, tests>>

DeliverOld(reachable, account) ==
  /\ Alive(reachable)
  /\ old <= Last
  /\ old' = old + 1
  /\ Apply(old, account)
  /\ UNCHANGED <<conn, mqtt_bit, rcvd, testing, type, sessions, values, tests>>

DropOld ==
  /\ old <= Last
  /\ old' = NoOld
  /\ UNCHANGED <<conn, mqtt_bit, rcvd, testing, type, brokerVars, tests>>

------------------------------------------------------------------------------
(* The bridge *)

(* mqtt_bridge_start *)
StartMqtt ==
  /\ conn' = "down"
  /\ UNCHANGED <<mqtt_bit, rcvd, old, testing, type, brokerVars, tests>>

(* What the handler of the connection has sent before it returns: all of   *)
(* the discovery, or nothing when it is switched off.                      *)
Announce(discovery) == IF discovery THEN 0 ELSE Last

(* MQTT_EVENT_CONNECTED: the bit, the subscription, the discovery. *)
MqttConnected(reachable, discovery) ==
  /\ conn = "down"
  /\ reachable
  /\ conn' = "up"
  /\ mqtt_bit' = TRUE
  /\ Connect(MainId, "bridge")
  /\ rcvd' = Announce(discovery)
  /\ values' = NoValues
  /\ UNCHANGED <<old, testing, type, retained, tests>>

(* MQTT_EVENT_DISCONNECTED: the client's pings or writes fail. *)
MqttDisconnected(reachable) ==
  /\ conn = "up"
  /\ ~Alive(reachable)
  /\ conn' = "down"
  /\ mqtt_bit' = FALSE
  /\ old' = IF rcvd < Last THEN Smaller(old, rcvd + 1) ELSE old
  /\ rcvd' = 0
  /\ UNCHANGED <<testing, type, brokerVars, tests>>

(* publish_task and mqtt_bridge_publish_state *)
PublishState(reachable) ==
  /\ mqtt_bit
  /\ Alive(reachable)
  /\ values' = Published[type]
  /\ UNCHANGED <<deviceVars, sessions, avail, retained, tests>>

(* Whatever the cause: the connection is not closed, the broker goes on    *)
(* with it until the keepalive.                                            *)
MqttReset ==
  /\ conn' = "none"
  /\ mqtt_bit' = FALSE
  /\ rcvd' = 0
  /\ old' = NoOld
  /\ testing' = "idle"
  /\ UNCHANGED <<type, sessions, avail, retained, values, tests>>

------------------------------------------------------------------------------
(* mqtt_bridge_test: connected within five seconds or not, the client is   *)
(* stopped and destroyed.                                                  *)
StartTest ==
  /\ testing = "idle"
  /\ tests < MaxTests
  /\ tests' = tests + 1
  /\ testing' = "opening"
  /\ UNCHANGED <<conn, mqtt_bit, rcvd, old, type, brokerVars>>

TestConnected(reachable) ==
  /\ testing = "opening"
  /\ reachable
  /\ testing' = "ok"
  /\ Connect(TestId, "test")
  /\ UNCHANGED <<conn, mqtt_bit, rcvd, old, type, retained, values, tests>>

EndTest ==
  /\ testing # "idle"
  /\ testing' = "idle"
  /\ sessions' = [i \in ClientIds |-> IF sessions[i] = "test" THEN "none" ELSE sessions[i]]
  /\ UNCHANGED <<conn, mqtt_bit, rcvd, old, type, avail, retained, values, tests>>

------------------------------------------------------------------------------
(* All that the bridge may ever announce. *)
KnownEntities == Entities["I_IDRO"][TRUE]

KnownIds == Ids(KnownEntities)
==============================================================================
