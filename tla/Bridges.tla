------------------------------- MODULE Bridges -------------------------------
(***************************************************************************)
(* The Wi-Fi, the MQTT bridge and the cloud bridge as app_main puts them   *)
(* together: the bridges are started once per boot, and only if the Wi-Fi  *)
(* came within a minute; then each follows the Wi-Fi on its own.  All of   *)
(* it may be reset at any moment, and come back with other settings.       *)
(***************************************************************************)
EXTENDS MqttBridge, WifiBridge, CloudBridge

CONSTANTS
  Settings,    \* configurations considered, see Setting
  MaxResets    \* bound: resets

Setting == [provisioned : BOOLEAN, discovery : BOOLEAN, account : BOOLEAN, cloud : BOOLEAN,
            cached : BOOLEAN]

ASSUME SettingsAssumption == Settings \subseteq Setting
ASSUME BridgesBoundAssumption == MaxResets \in Nat

VARIABLES
  conf,     \* the stored configuration, as far as the bridges look at it
  phase,    \* where app_main is
  resets

vars == <<wifiVars, cloudVars, mqttVars, conf, phase, resets>>
mainVars == <<conf, phase, resets>>

Init ==
  /\ WifiInit
  /\ CloudInit
  /\ MqttInit
  /\ conf \in Settings
  /\ phase = "start"
  /\ resets = 0

------------------------------------------------------------------------------
(* app_main *)

(* A safe boot, or an empty host, leaves the bridges out. *)
StartNetwork ==
  /\ phase = "start"
  /\ StartWifi(conf.provisioned)
  /\ phase' = "loop" \/ (conf.provisioned /\ phase' = "wait")
  /\ UNCHANGED <<cloudVars, mqttVars, conf, resets>>

WifiTimeout ==
  /\ phase = "wait"
  /\ ~wifi_bit
  /\ phase' = "loop"
  /\ UNCHANGED <<wifiVars, cloudVars, mqttVars, conf, resets>>

WifiCame ==
  /\ phase = "wait"
  /\ wifi_bit
  /\ StartMqtt
  /\ phase' = "cloud"
  /\ UNCHANGED <<wifiVars, cloudVars, conf, resets>>

(* cloud_bridge_start, which stores what it fetched. *)
StartTheCloud ==
  /\ phase = "cloud"
  /\ phase' = "loop"
  /\ \E secrets \in BOOLEAN, outcome \in FetchOutcomes(conf.account) :
       LET fetched == ~conf.cached /\ outcome = "model" /\ Reachable
       IN /\ StartCloud(conf, secrets, fetched)
          /\ conf' = [conf EXCEPT !.cached = @ \/ (conf.cloud /\ secrets /\ fetched)]
  /\ UNCHANGED <<wifiVars, mqttVars, resets>>

Reset ==
  /\ resets < MaxResets
  /\ resets' = resets + 1
  /\ phase' = "start"
  /\ conf' \in {conf} \union Settings
  /\ WifiReset
  /\ CloudReset
  /\ MqttReset

AppMain == StartNetwork \/ WifiTimeout \/ WifiCame \/ StartTheCloud

------------------------------------------------------------------------------
WifiStep == (Station \/ Fade \/ Return) /\ UNCHANGED <<cloudVars, mqttVars, mainVars>>

CloudStep ==
  /\ CloudConnected(Reachable) \/ CloudDisconnected(Reachable)
  /\ UNCHANGED <<wifiVars, mqttVars, mainVars>>

BridgeStep ==
  /\ \/ MqttConnected(Reachable, conf.discovery)
     \/ MqttDisconnected(Reachable)
     \/ PublishState(Reachable)
  /\ UNCHANGED <<wifiVars, cloudVars, mainVars>>

BrokerStep ==
  /\ \/ Expire(Reachable)
     \/ Deliver(Reachable, conf.account)
     \/ DeliverOld(Reachable, conf.account)
     \/ DropOld
  /\ UNCHANGED <<wifiVars, cloudVars, mainVars>>

TestStep ==
  /\ StartTest \/ TestConnected(Reachable) \/ EndTest
  /\ UNCHANGED <<wifiVars, cloudVars, mainVars>>

Next ==
  AppMain \/ Reset \/ WifiStep \/ CloudStep \/ BridgeStep \/ BrokerStep \/ TestStep

(* The boot goes on, the access point comes back, the handlers run, the    *)
(* broker counts its keepalive and the network carries what was sent.      *)
Fairness ==
  /\ WF_vars(AppMain)
  /\ WF_vars(Station /\ UNCHANGED <<cloudVars, mqttVars, mainVars>>)
  /\ WF_vars(Return /\ UNCHANGED <<cloudVars, mqttVars, mainVars>>)
  /\ WF_vars(CloudStep)
  /\ WF_vars(MqttConnected(Reachable, conf.discovery)
               /\ UNCHANGED <<wifiVars, cloudVars, mainVars>>)
  /\ WF_vars(MqttDisconnected(Reachable)
               /\ UNCHANGED <<wifiVars, cloudVars, mainVars>>)
  /\ WF_vars(PublishState(Reachable)
               /\ UNCHANGED <<wifiVars, cloudVars, mainVars>>)
  /\ WF_vars(Deliver(Reachable, conf.account)
               /\ UNCHANGED <<wifiVars, cloudVars, mainVars>>)

Spec == Init /\ [][Next]_vars

FairSpec == Spec /\ Fairness

------------------------------------------------------------------------------
TypeOK ==
  /\ air \in BOOLEAN /\ wifi_bit \in BOOLEAN /\ known \in BOOLEAN
  /\ sta \in {"off", "connecting", "up", "waiting"}
  /\ cloud \in {"none", "down", "up"}
  /\ model \in BOOLEAN /\ subscribed \in BOOLEAN /\ pub_task \in BOOLEAN
  /\ conn \in {"none", "down", "up"}
  /\ mqtt_bit \in BOOLEAN
  /\ rcvd \in 0..Last
  /\ old \in 1..NoOld
  /\ testing \in {"idle", "opening", "ok"}
  /\ type \in Types
  /\ sessions \in [ClientIds -> {"none", "bridge", "test"}]
  /\ avail \in {"none", "online", "offline"}
  /\ retained \subseteq KnownIds \union Legacy
  /\ \A t \in Topics : values[t] \in {{}, Published[type][t]}
  /\ conf \in Setting
  /\ phase \in {"start", "wait", "cloud", "loop"}

Discovered == Alive(Reachable) /\ conf.discovery /\ rcvd = Last

(* The retained availability tells whether the bridge is there: "online"   *)
(* for as long as a connection lasts whose discovery has arrived, and not  *)
(* "online" once the broker has given the connection up, however last      *)
(* wills, messages sent again, resets and reconnections fall.              *)
Availability ==
  /\ Discovered => avail = "online"
  /\ sessions[MainId] # "bridge" => avail # "online"

(* After a discovery the broker holds the announcements of this stove and  *)
(* this configuration, all of them, and none of another stove's, of an     *)
(* earlier firmware's, or of an account that is gone.                      *)
EntitiesCurrent == Discovered => retained = EntityIds[type][conf.account]

(* Whatever Home Assistant was told to read from a topic is in what is     *)
(* published there.                                                        *)
EntitiesFed ==
  Discovered =>
    \A e \in KnownEntities :
      e.id \in retained /\ e.topic # "" /\ values[e.topic] # {} => e.reads \subseteq values[e.topic]

(* Only a lost network or a reset costs the bridge its session: a test of  *)
(* the broker's settings at any moment does not.                           *)
SessionKept ==
  [][sessions[MainId] = "bridge" /\ sessions'[MainId] # "bridge" => ~Alive(Reachable)]_vars

(* The state behind the three.  The bits the other tasks wait for are true *)
(* to the connections, the bridges run over a network that was configured, *)
(* and the cloud's client is subscribed and tells whenever it is connected *)
(* and knows the model.                                                    *)
LinksInv ==
  /\ wifi_bit <=> sta = "up"
  /\ mqtt_bit <=> conn = "up"
  /\ phase = "wait" \/ conn # "none" => known
  /\ phase \in {"start", "wait"} => conn = "none"
  /\ phase = "start" => sta = "off"
  /\ phase = "cloud" => conn # "none"
  /\ phase # "loop" => cloud = "none"
  /\ cloud # "none" => conn # "none"
  /\ cloud = "none" => ~model
  /\ pub_task => model
  /\ subscribed <=> cloud = "up" /\ model
  /\ subscribed => pub_task

(* Of the sessions: each client id belongs to one client, and a discovery  *)
(* that arrived over a session counts as long as the session, whether or   *)
(* not the network carries anything just now.                              *)
Announcing == conn = "up" /\ sessions[MainId] = "bridge" /\ conf.discovery

SessionInv ==
  /\ sessions[MainId] # "test" /\ sessions[TestId] # "bridge"
  /\ sessions[MainId] # "bridge" => avail # "online"
  /\ Announcing /\ rcvd = Last => avail = "online"

(* Of the announcements: nothing is retained that a discovery would leave  *)
(* alone, and what a section announced and deleted stays so, old messages  *)
(* sent again notwithstanding.                                             *)
RetainedInv ==
  /\ retained \subseteq EntityIds[type][TRUE] \union Legacy
  /\ Announcing =>
       \A i \in Sections : i <= rcvd =>
         /\ AnnouncedIds[i][type][conf.account] \subseteq retained
         /\ Deleted[i][type][conf.account] \intersect retained = {}

BridgesInv == TypeOK /\ LinksInv /\ SessionInv /\ RetainedInv

(* A bridge that was started is in the end connected again, available and  *)
(* publishing, however often the network went away and whatever was going  *)
(* on then; until a reset.                                                 *)
Recovers ==
  (conn # "none") ~>
    \/ conn = "none"
    \/ /\ Alive(Reachable)
       /\ conf.discovery => avail = "online"
       /\ values = Published[type]

(* A cloud bridge that knows the model hears the cloud again after a lost  *)
(* connection, and tells it the state.                                     *)
CloudRecovers ==
  (cloud # "none" /\ model) ~>
    (cloud = "none" \/ (CloudHears(Reachable) /\ CloudTells(Reachable)))
==============================================================================
