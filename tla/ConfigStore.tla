----------------------------- MODULE ConfigStore -----------------------------
(***************************************************************************)
(* The configuration: one NVS namespace, "openxflame", and two copies of   *)
(* it in memory.  app_main loads its static cfg at boot and hands it by    *)
(* reference to the web server (g_cfg), to the snapshot and to the cloud   *)
(* bridge; mqtt_bridge_start copies it into local_cfg, which nothing       *)
(* brings up to date afterwards.  Three tasks save: the HTTP server and    *)
(* app_main (which caches what the cloud's REST interface answered) save   *)
(* cfg, the MQTT client's task saves local_cfg.  config_nvs_save writes    *)
(* every field, one nvs_set_* after the other, without a lock, and a reset *)
(* can fall between any two of them.                                       *)
(*                                                                         *)
(* A field of the model stands for the fields of app_config_t that are     *)
(* read, posted and saved alike; values are strings, "" an empty one.      *)
(* cfg.safe_mode_next_boot is left out: nothing in the code ever sets it.  *)
(***************************************************************************)
EXTENDS Integers, Sequences

CONSTANTS
  Names,      \* what a user can type in an identity field, not empty
  Forms,      \* the bodies of POST /api/config: [PostFields -> value or "left out"]
  MaxPosts,   \* bound: POSTs that change the configuration
  MaxCmds,    \* bound: MQTT commands that save
  MaxFetches  \* bound: successful fetches of the stove's model

(* The order of config_nvs_save.  "ssid" and "host" stand for the strings  *)
(* GET_STR_KEEP_EMPTY guards, "opt" for numbers and switches of the form,  *)
(* "cons" for pellet_consumption_p1..p5, "maint" for the two counters at   *)
(* reset, "tc2" for the cloud account, "cache" for tc2_stove_id and        *)
(* tc2_stove_model, "spec" for the stove's and the pellets' data.          *)
Keys == {"prov", "ssid", "host", "opt", "cons", "cloud", "maint", "tc2", "cache", "spec"}

(* Mutant: the order without one of the fields. *)
SaveOrderShort ==
  <<"prov", "ssid", "host", "opt", "cons", "cloud", "maint", "tc2", "cache">>

SaveOrder ==
  <<"prov", "ssid", "host", "opt", "cons", "cloud", "maint", "tc2", "cache", "spec">>

Identity == {"ssid", "host", "tc2"}
PostFields == Identity \union {"opt", "cons", "cloud", "spec"}

LeftOut == "left out"
Absent == "absent"
Levels == {"0", "1"}
Switch == {"off", "on"}

FieldValues == Names \union {""} \union Levels \union Switch \union {"model"}

ASSUME FormAssumption ==
  /\ Names \intersect {"", LeftOut, Absent} = {}
  /\ Forms \subseteq [PostFields -> FieldValues \union {LeftOut}]
ASSUME BoundAssumption == MaxPosts \in Nat /\ MaxCmds \in Nat /\ MaxFetches \in Nat

Tasks == {"main", "httpd", "mqtt"}

VARIABLES
  nvs,        \* [Keys -> value], Absent for a key never written or erased
  cfg,        \* app_main's cfg, which is g_cfg of the web server
  local_cfg,  \* the copy of the MQTT bridge
  bridged,    \* mqtt_bridge_start has run in this boot
  phase,      \* where app_main is
  save,       \* [Tasks -> 0..Len(SaveOrder)], the next field to write, 0 = none
  leaving,    \* tasks that wait to call esp_restart
  astray,     \* history: keys last written from a local_cfg, or erased, that differed
  posts, cmds, fetches

copies == <<cfg, local_cfg>>
bounds == <<posts, cmds, fetches>>
vars == <<nvs, copies, bridged, phase, save, leaving, astray, bounds>>

(* pellet_consumption_p1..p5 follow from the stove's data at every load.   *)
Derived(spec) == spec

Default == [k \in Keys |->
  CASE k \in Identity \union {"cache"} -> ""
    [] k \in {"prov", "cloud"} -> "off"
    [] OTHER -> "0"]

(* What a read of the key gives: the default stays when there is no key.   *)
Stored(store, k) == IF store[k] = Absent THEN Default[k] ELSE store[k]

(* config_nvs_load *)
Loaded(store) ==
  [k \in Keys |-> IF k = "cons" THEN Derived(Stored(store, "spec")) ELSE Stored(store, k)]

Init ==
  /\ nvs = [k \in Keys |-> Absent]
  /\ cfg = Default
  /\ local_cfg = Default
  /\ bridged = FALSE
  /\ phase = "decide"
  /\ save = [t \in Tasks |-> 0]
  /\ leaving = {}
  /\ astray = {}
  /\ posts = 0
  /\ cmds = 0
  /\ fetches = 0

(* A task handles one thing at a time. *)
Free(t) == save[t] = 0 /\ t \notin leaving

------------------------------------------------------------------------------
(* config_nvs_save, by any task *)

CopyOf(t) == IF t = "mqtt" THEN local_cfg ELSE cfg

BeginSave(t) == save' = [save EXCEPT ![t] = 1]

SaveField(t) ==
  LET k == SaveOrder[save[t]]
      last == save[t] = Len(SaveOrder)
  IN /\ save[t] # 0
     /\ nvs' = [nvs EXCEPT ![k] = CopyOf(t)[k]]
     /\ save' = [save EXCEPT ![t] = IF last THEN 0 ELSE @ + 1]
     /\ astray' = IF CopyOf(t)[k] = cfg[k] THEN astray \ {k} ELSE astray \union {k}
     /\ UNCHANGED <<copies, bridged, phase, leaving, bounds>>

------------------------------------------------------------------------------
(* The web server *)

(* Mutant: GET_STR for every string, an empty one wipes the field. *)
PostedWiping(form, k) ==
  IF k \notin PostFields \/ form[k] = LeftOut THEN cfg[k] ELSE form[k]

(* Mutant: an item is taken without a look whether the body has it. *)
PostedBlindly(form, k) == IF k \notin PostFields THEN cfg[k] ELSE form[k]

(* A field of the form: an empty string leaves an identity field alone.    *)
Posted(form, k) ==
  IF k \notin PostFields \/ form[k] = LeftOut \/ (k \in Identity /\ form[k] = "")
    THEN cfg[k] ELSE form[k]

(* New credentials of the cloud invalidate what was cached for the old.    *)
PostedCache(form) == IF form["tc2"] \notin {"", LeftOut} THEN "" ELSE cfg["cache"]

Provisioned(form) == IF Posted(form, "ssid") # "" THEN "on" ELSE cfg["prov"]

PostConfig ==
  /\ Free("httpd")
  /\ posts < MaxPosts
  /\ posts' = posts + 1
  /\ \E form \in Forms :
       cfg' = [k \in Keys |-> CASE k = "cache" -> PostedCache(form)
                                [] k = "prov" -> Provisioned(form)
                                [] OTHER -> Posted(form, k)]
  /\ BeginSave("httpd")
  /\ UNCHANGED <<nvs, local_cfg, bridged, phase, leaving, cmds, fetches, astray>>

(* POST /api/maint/reset_service and reset_cleaning: the counters' zero is *)
(* taken from the snapshot.                                                *)
PostMaintReset ==
  /\ Free("httpd")
  /\ posts < MaxPosts
  /\ posts' = posts + 1
  /\ \E hours \in Levels : cfg' = [cfg EXCEPT !["maint"] = hours]
  /\ BeginSave("httpd")
  /\ UNCHANGED <<nvs, local_cfg, bridged, phase, leaving, cmds, fetches, astray>>

Erase(store) == [k \in Keys |-> Absent]

(* config_nvs_reset, then half a second later a restart: the copies in     *)
(* memory stay, and a save of another task may still be under way or come. *)
PostFactory ==
  /\ Free("httpd")
  /\ posts < MaxPosts
  /\ posts' = posts + 1
  /\ nvs' = Erase(nvs)
  /\ astray' = {k \in Keys : Default[k] # cfg[k]}
  /\ leaving' = leaving \union {"httpd"}
  /\ UNCHANGED <<copies, bridged, phase, save, cmds, fetches>>

Httpd == PostConfig \/ PostMaintReset \/ PostFactory

------------------------------------------------------------------------------
(* The MQTT bridge, with the copy it took when it started *)

Command == Free("mqtt") /\ bridged /\ cmds < MaxCmds

CmdMaintReset ==
  /\ Command
  /\ cmds' = cmds + 1
  /\ \E hours \in Levels : local_cfg' = [local_cfg EXCEPT !["maint"] = hours]
  /\ BeginSave("mqtt")
  /\ UNCHANGED <<nvs, cfg, bridged, phase, leaving, posts, fetches, astray>>

(* "cloud_toggle": refused without an account, ignored when nothing        *)
(* changes, and a restart once saved.                                      *)
CmdCloudToggle ==
  /\ Command
  /\ cmds' = cmds + 1
  /\ \E on \in Switch :
       /\ on = "on" => local_cfg["tc2"] # ""
       /\ local_cfg["cloud"] # on
       /\ local_cfg' = [local_cfg EXCEPT !["cloud"] = on]
  /\ BeginSave("mqtt")
  /\ leaving' = leaving \union {"mqtt"}
  /\ UNCHANGED <<nvs, cfg, bridged, phase, posts, fetches, astray>>

Mqtt == CmdMaintReset \/ CmdCloudToggle

------------------------------------------------------------------------------
(* app_main: the bridges are decided upon once, and wait for Wi-Fi *)

(* A safe boot takes the second disjunct whatever the configuration.       *)
Decide ==
  /\ phase = "decide"
  /\ \/ cfg["prov"] = "on" /\ cfg["host"] # "" /\ phase' = "wait"
     \/ phase' = "loop"
  /\ UNCHANGED <<nvs, copies, bridged, save, leaving, astray, bounds>>

WifiTimeout ==
  /\ phase = "wait"
  /\ phase' = "loop"
  /\ UNCHANGED <<nvs, copies, bridged, save, leaving, astray, bounds>>

StartMqtt ==
  /\ phase = "wait"
  /\ local_cfg' = cfg
  /\ bridged' = TRUE
  /\ phase' = "cloud"
  /\ UNCHANGED <<nvs, cfg, save, leaving, astray, bounds>>

(* cloud_bridge_start: without a cached model, and with an account, ask.   *)
StartCloud ==
  /\ phase = "cloud"
  /\ phase' = IF cfg["cloud"] = "on" /\ cfg["cache"] = "" /\ cfg["tc2"] # ""
                THEN "fetch" ELSE "loop"
  /\ UNCHANGED <<nvs, copies, bridged, save, leaving, astray, bounds>>

FetchFails ==
  /\ phase = "fetch"
  /\ phase' = "loop"
  /\ UNCHANGED <<nvs, copies, bridged, save, leaving, astray, bounds>>

(* The answer goes into cfg through a cast of its const pointer.           *)
FetchEnds ==
  /\ phase = "fetch"
  /\ fetches < MaxFetches
  /\ fetches' = fetches + 1
  /\ cfg' = [cfg EXCEPT !["cache"] = "model"]
  /\ phase' = "loop"
  /\ BeginSave("main")
  /\ UNCHANGED <<nvs, local_cfg, bridged, leaving, posts, cmds, astray>>

AppMain == Decide \/ WifiTimeout \/ StartMqtt \/ StartCloud \/ FetchFails \/ FetchEnds

(* A restart of any cause, at any moment: esp_restart of a task that is    *)
(* leaving, POST /api/reboot, a panic, a power cut.                        *)
Reset ==
  /\ cfg' = Loaded(nvs)
  /\ local_cfg' = Default
  /\ bridged' = FALSE
  /\ phase' = "decide"
  /\ save' = [t \in Tasks |-> 0]
  /\ leaving' = {}
  /\ astray' = {}
  /\ UNCHANGED <<nvs, bounds>>

Next == Httpd \/ Mqtt \/ AppMain \/ Reset \/ \E t \in Tasks : SaveField(t)

Spec == Init /\ [][Next]_vars

------------------------------------------------------------------------------
TypeOK ==
  /\ nvs \in [Keys -> FieldValues \union {Absent}]
  /\ cfg \in [Keys -> FieldValues]
  /\ local_cfg \in [Keys -> FieldValues]
  /\ bridged \in BOOLEAN
  /\ phase \in {"decide", "wait", "cloud", "fetch", "loop"}
  /\ save \in [Tasks -> 0..Len(SaveOrder)]
  /\ leaving \subseteq {"httpd", "mqtt"}
  /\ astray \subseteq Keys
  /\ posts \in 0..MaxPosts /\ cmds \in 0..MaxCmds /\ fetches \in 0..MaxFetches

(* Task t has yet to write the key. *)
ToWrite(t, k) == save[t] # 0 /\ \E i \in save[t]..Len(SaveOrder) : SaveOrder[i] = k

(* NVS and the running configuration agree on every key but those that a   *)
(* save of the web server or of app_main has yet to write, and those that  *)
(* came last from the MQTT bridge's copy or from a factory reset: however  *)
(* saves of the three tasks overlap and wherever a reset cuts them.  For   *)
(* the keys the bridge wrote last the next boot may bring back what the    *)
(* web page had changed: the bridge saves all fields of its older copy to  *)
(* store one of them.  pellet_consumption_p1..p5 are derived at every load *)
(* and excepted.                                                           *)
InStep ==
  \A k \in Keys \ {"cons"} :
    \/ Stored(nvs, k) = cfg[k]
    \/ k \in astray
    \/ ToWrite("httpd", k)
    \/ ToWrite("main", k)

(* A network, a broker or an account that is stored is emptied by a        *)
(* factory reset or by the MQTT bridge's copy from before it was typed,    *)
(* and by nothing else: not by a form another tab posts, not by app_main,  *)
(* however the saves and the resets interleave.                            *)
EmptiedByOldCopy ==
  [][\A k \in Identity : Stored(nvs, k) # "" /\ Stored(nvs', k) = "" =>
       \/ "httpd" \in leaving' \ leaving
       \/ save["mqtt"] # save'["mqtt"] /\ local_cfg[k] = ""]_vars
==============================================================================
