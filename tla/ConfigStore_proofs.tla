-------------------------- MODULE ConfigStore_proofs --------------------------
(***************************************************************************)
(* Proofs about ConfigStore, for every set of names and of forms and any   *)
(* number of posts, commands and fetches.                                  *)
(***************************************************************************)
EXTENDS ConfigStore, TLAPS

------------------------------------------------------------------------------
(* The order of the save names every field once. *)

LEMMA OrderTyped == Len(SaveOrder) = 10 /\ \A i \in 1..10 : SaveOrder[i] \in Keys
BY DEF SaveOrder, Keys

LEMMA OrderComplete == \A k \in Keys : \E i \in 1..10 : SaveOrder[i] = k
BY DEF SaveOrder, Keys

LEMMA DefaultTyped == /\ Default \in [Keys -> FieldValues]
                      /\ \A k \in Identity : Default[k] = ""
BY DEF Default, Keys, FieldValues, Levels, Switch, Identity

LEMMA AbsentNoValue == Absent \notin FieldValues /\ LeftOut \notin Keys
BY FormAssumption DEF FieldValues, Levels, Switch, Absent, LeftOut, Keys

LEMMA StoredTyped ==
  ASSUME NEW store \in [Keys -> FieldValues \union {Absent}], NEW k \in Keys
  PROVE  Stored(store, k) \in FieldValues
BY DefaultTyped DEF Stored

LEMMA LoadedTyped ==
  ASSUME NEW store \in [Keys -> FieldValues \union {Absent}]
  PROVE  Loaded(store) \in [Keys -> FieldValues]
BY StoredTyped DEF Loaded, Derived, Keys

LEMMA PostedTyped ==
  ASSUME cfg \in [Keys -> FieldValues], NEW form \in Forms, NEW k \in Keys
  PROVE  Posted(form, k) \in FieldValues
BY FormAssumption DEF Posted

------------------------------------------------------------------------------
(* Types *)

(* Every variable keeps its type: whatever a form leaves out or leaves     *)
(* empty, no field of cfg, of local_cfg or of NVS takes a value that no    *)
(* user, default or answer gave it.                                        *)
LEMMA BeginTyped ==
  ASSUME TypeOK, NEW t \in Tasks, BeginSave(t)
  PROVE  save' \in [Tasks -> 0..Len(SaveOrder)]
BY OrderTyped DEF TypeOK, BeginSave

LEMMA FieldTyped ==
  ASSUME TypeOK, NEW t \in Tasks, SaveField(t)
  PROVE  TypeOK'
<1> DEFINE k == SaveOrder[save[t]]
<1>1. save[t] \in 1..10 /\ k \in Keys
  BY OrderTyped DEF TypeOK, SaveField
<1>2. CopyOf(t)[k] \in FieldValues
  BY <1>1 DEF TypeOK, CopyOf
<1>3. nvs' \in [Keys -> FieldValues \union {Absent}]
  BY <1>1, <1>2 DEF TypeOK, SaveField
<1>4. save' \in [Tasks -> 0..Len(SaveOrder)]
  BY <1>1, OrderTyped DEF TypeOK, SaveField
<1>5. astray' \subseteq Keys
  BY <1>1 DEF TypeOK, SaveField
<1> QED BY <1>3, <1>4, <1>5 DEF TypeOK, SaveField, copies, bounds

LEMMA TypeStep == TypeOK /\ [Next]_vars => TypeOK'
<1> SUFFICES ASSUME TypeOK, [Next]_vars PROVE TypeOK'
  OBVIOUS
<1> USE BoundAssumption
<1>1. CASE PostConfig
  <2> PICK form \in Forms :
        cfg' = [k \in Keys |-> CASE k = "cache" -> PostedCache(form)
                                 [] k = "prov" -> Provisioned(form)
                                 [] OTHER -> Posted(form, k)]
    BY <1>1 DEF PostConfig
  <2>1. PostedCache(form) \in FieldValues /\ Provisioned(form) \in FieldValues
    BY DEF PostedCache, Provisioned, TypeOK, Keys, FieldValues, Switch
  <2>2. cfg' \in [Keys -> FieldValues]
    BY <2>1, PostedTyped DEF TypeOK
  <2>3. BeginSave("httpd") /\ posts' \in 0..MaxPosts
    BY <1>1 DEF PostConfig, TypeOK
  <2> QED BY <1>1, <2>2, <2>3, BeginTyped DEF PostConfig, TypeOK, Tasks
<1>2. CASE PostMaintReset
  <2>1. cfg' \in [Keys -> FieldValues]
    BY <1>2 DEF PostMaintReset, TypeOK, FieldValues, Levels
  <2>2. BeginSave("httpd") /\ posts' \in 0..MaxPosts
    BY <1>2 DEF PostMaintReset, TypeOK
  <2> QED BY <1>2, <2>1, <2>2, BeginTyped DEF PostMaintReset, TypeOK, Tasks
<1>3. CASE PostFactory
  BY <1>3 DEF PostFactory, TypeOK, Erase, copies
<1>4. CASE CmdMaintReset
  <2>1. local_cfg' \in [Keys -> FieldValues]
    BY <1>4 DEF CmdMaintReset, TypeOK, FieldValues, Levels
  <2>2. BeginSave("mqtt") /\ cmds' \in 0..MaxCmds
    BY <1>4 DEF CmdMaintReset, Command, TypeOK
  <2> QED BY <1>4, <2>1, <2>2, BeginTyped DEF CmdMaintReset, TypeOK, Tasks
<1>5. CASE CmdCloudToggle
  <2>0. PICK on \in Switch : local_cfg' = [local_cfg EXCEPT !["cloud"] = on]
    BY <1>5 DEF CmdCloudToggle
  <2>1. local_cfg' \in [Keys -> FieldValues]
    BY <2>0 DEF TypeOK, FieldValues, Switch
  <2>2. BeginSave("mqtt") /\ cmds' = cmds + 1 /\ cmds < MaxCmds
    BY <1>5 DEF CmdCloudToggle, Command
  <2>3. cmds' \in 0..MaxCmds
    BY <2>2 DEF TypeOK
  <2> QED BY <1>5, <2>1, <2>2, <2>3, BeginTyped DEF CmdCloudToggle, TypeOK, Tasks
<1>6. CASE Decide \/ WifiTimeout \/ StartMqtt \/ StartCloud \/ FetchFails
  BY <1>6 DEF Decide, WifiTimeout, StartMqtt, StartCloud, FetchFails, TypeOK, copies, bounds
<1>7. CASE FetchEnds
  <2>1. cfg' \in [Keys -> FieldValues]
    BY <1>7 DEF FetchEnds, TypeOK, FieldValues
  <2>2. BeginSave("main") /\ fetches' \in 0..MaxFetches
    BY <1>7 DEF FetchEnds, TypeOK
  <2> QED BY <1>7, <2>1, <2>2, BeginTyped DEF FetchEnds, TypeOK, Tasks
<1>8. CASE Reset
  <2>1. save' \in [Tasks -> 0..Len(SaveOrder)]
    BY <1>8, OrderTyped DEF Reset
  <2> QED BY <1>8, <2>1, LoadedTyped, DefaultTyped DEF Reset, TypeOK, bounds
<1>9. CASE \E t \in Tasks : SaveField(t)
  BY <1>9, FieldTyped
<1>10. CASE UNCHANGED vars
  BY <1>10 DEF TypeOK, vars, copies, bounds
<1> QED BY <1>1, <1>2, <1>3, <1>4, <1>5, <1>6, <1>7, <1>8, <1>9, <1>10
        DEF Next, Httpd, Mqtt, AppMain

LEMMA InitTyped == Init => TypeOK
<1> SUFFICES ASSUME Init PROVE TypeOK
  OBVIOUS
<1>1. nvs \in [Keys -> FieldValues \union {Absent}]
  BY DEF Init
<1>2. cfg \in [Keys -> FieldValues] /\ local_cfg \in [Keys -> FieldValues]
  BY DefaultTyped DEF Init
<1>3. save \in [Tasks -> 0..Len(SaveOrder)]
  BY OrderTyped DEF Init
<1>4. posts \in 0..MaxPosts /\ cmds \in 0..MaxCmds /\ fetches \in 0..MaxFetches
  BY BoundAssumption DEF Init
<1>5. bridged \in BOOLEAN /\ astray \subseteq Keys
  BY DEF Init
<1> QED BY <1>1, <1>2, <1>3, <1>4, <1>5 DEF Init, TypeOK

(* Typing holds in every behaviour. *)
THEOREM TypeCorrect == Spec => []TypeOK
BY InitTyped, TypeStep, PTL DEF Spec

------------------------------------------------------------------------------
(* InStep and EmptiedByOldCopy *)

(* The bridge has no copy before it starts; an identity field that is not  *)
(* empty in NVS or in the bridge's copy is not empty in cfg.               *)
BridgeInv ==
  /\ phase \in {"decide", "wait"} => ~bridged
  /\ ~bridged => save["mqtt"] = 0

CopyInv ==
  \A k \in Identity :
    /\ Stored(nvs, k) # "" => cfg[k] # ""
    /\ bridged /\ local_cfg[k] # "" => cfg[k] # ""

(* app_main saves at the end of a fetch only, its last step of a boot.     *)
MainInv == phase # "loop" => save["main"] = 0

Inv == TypeOK /\ BridgeInv /\ CopyInv /\ InStep /\ MainInv

LEMMA LoadedStored ==
  ASSUME NEW store, NEW k \in Keys \ {"cons"}
  PROVE  Loaded(store)[k] = Stored(store, k)
BY DEF Loaded

(* A task that begins a save has every field yet to write; the others stay *)
(* where they are.                                                         *)
LEMMA BeginOwes ==
  ASSUME TypeOK, NEW t \in Tasks, BeginSave(t), NEW k \in Keys
  PROVE  /\ ToWrite(t, k)'
         /\ \A u \in Tasks \ {t} : save'[u] = save[u] /\ (ToWrite(u, k)' <=> ToWrite(u, k))
<1>1. save'[t] = 1 /\ \A u \in Tasks \ {t} : save'[u] = save[u]
  BY DEF BeginSave, TypeOK
<1>2. PICK i \in 1..10 : SaveOrder[i] = k
  BY OrderComplete
<1> QED BY <1>1, <1>2, OrderTyped DEF ToWrite

(* So the web server or app_main, whatever it changed, owes all of it. *)
LEMMA BeginInStep ==
  ASSUME Inv, NEW t \in {"httpd", "main"}, BeginSave(t)
  PROVE  InStep' /\ save'["mqtt"] = save["mqtt"]
<1>1. TypeOK /\ t \in Tasks /\ "mqtt" \in Tasks \ {t}
  BY DEF Inv, Tasks
<1>2. ASSUME NEW k \in Keys PROVE ToWrite(t, k)'
  BY <1>1, BeginOwes
<1>3. save'["mqtt"] = save["mqtt"]
  BY <1>1 DEF BeginSave, TypeOK
<1>4. InStep'
  <2>1. CASE t = "httpd"
    <3>1. ASSUME NEW k \in Keys PROVE ToWrite("httpd", k)'
      BY <1>2, <2>1
    <3> QED BY <3>1 DEF InStep
  <2>2. CASE t = "main"
    <3>1. ASSUME NEW k \in Keys PROVE ToWrite("main", k)'
      BY <1>2, <2>2
    <3> QED BY <3>1 DEF InStep
  <2> QED BY <2>1, <2>2
<1> QED BY <1>3, <1>4

(* A key it has just written agrees with cfg, or is marked; any other key  *)
(* is as it was, and still to be written by whom it was.                   *)
LEMMA FieldStepInv ==
  ASSUME Inv, NEW t \in Tasks, SaveField(t)
  PROVE  InStep'
<1> DEFINE w == SaveOrder[save[t]]
<1> SUFFICES ASSUME NEW k \in Keys \ {"cons"}
             PROVE  \/ Stored(nvs', k) = cfg'[k]
                    \/ k \in astray'
                    \/ ToWrite("httpd", k)'
                    \/ ToWrite("main", k)'
  BY DEF InStep
<1>1. save[t] \in 1..10 /\ w \in Keys /\ Len(SaveOrder) = 10
  BY OrderTyped DEF Inv, TypeOK, SaveField
<1>2. /\ nvs' = [nvs EXCEPT ![w] = CopyOf(t)[w]]
      /\ save' = [save EXCEPT ![t] = IF save[t] = 10 THEN 0 ELSE save[t] + 1]
      /\ cfg' = cfg
      /\ astray' = IF CopyOf(t)[w] = cfg[w] THEN astray \ {w} ELSE astray \union {w}
  BY <1>1 DEF SaveField, copies
<1>3. CASE k = w
  <2>1. nvs'[k] = CopyOf(t)[k] /\ CopyOf(t)[k] \in FieldValues
    BY <1>1, <1>2, <1>3 DEF Inv, TypeOK, CopyOf
  <2>2. Stored(nvs', k) = CopyOf(t)[k]
    BY <2>1, AbsentNoValue DEF Stored
  <2> QED BY <1>2, <1>3, <2>2
<1>4. CASE k # w
  <2>1. Stored(nvs', k) = Stored(nvs, k) /\ (k \in astray' <=> k \in astray)
    BY <1>1, <1>2, <1>4 DEF Inv, TypeOK, Stored
  <2>2. ASSUME NEW u \in Tasks, ToWrite(u, k) PROVE ToWrite(u, k)'
    <3>1. PICK i \in save[u]..Len(SaveOrder) : SaveOrder[i] = k
      BY <2>2 DEF ToWrite
    <3>2. CASE u = t
      <4>1. i # save[t]
        BY <1>4, <3>1, <3>2
      <4>2. i \in save[t]..10 /\ i # save[t]
        BY <1>1, <3>1, <3>2, <4>1
      <4>3. save'[t] = save[t] + 1 /\ i \in save'[t]..10
        BY <1>1, <1>2, <4>2 DEF Inv, TypeOK
      <4> QED BY <1>1, <3>1, <3>2, <4>3 DEF ToWrite
    <3>3. CASE u # t
      <4>1. save'[u] = save[u]
        BY <1>2, <3>3 DEF Inv, TypeOK
      <4> QED BY <2>2, <4>1 DEF ToWrite
    <3> QED BY <3>2, <3>3
  <2>3. "httpd" \in Tasks /\ "main" \in Tasks
    BY DEF Tasks
  <2> QED BY <1>2, <2>1, <2>2, <2>3 DEF Inv, InStep
<1> QED BY <1>3, <1>4

LEMMA FieldCopyInv ==
  ASSUME Inv, NEW t \in Tasks, SaveField(t)
  PROVE  /\ CopyInv' /\ BridgeInv'
         /\ \A k \in Identity : Stored(nvs, k) # "" /\ Stored(nvs', k) = ""
              => t = "mqtt" /\ local_cfg[k] = "" /\ save'["mqtt"] # save["mqtt"]
<1> DEFINE w == SaveOrder[save[t]]
<1>1. save[t] \in 1..10 /\ w \in Keys /\ Len(SaveOrder) = 10
  BY OrderTyped DEF Inv, TypeOK, SaveField
<1>2. nvs' = [nvs EXCEPT ![w] = CopyOf(t)[w]]
  BY DEF SaveField
<1>3. /\ save' = [save EXCEPT ![t] = IF save[t] = 10 THEN 0 ELSE save[t] + 1]
      /\ cfg' = cfg /\ local_cfg' = local_cfg /\ bridged' = bridged /\ phase' = phase
  BY <1>1 DEF SaveField, copies
<1>4. save'[t] # save[t] /\ \A u \in Tasks \ {t} : save'[u] = save[u]
  BY <1>1, <1>3 DEF Inv, TypeOK
<1>5. bridged \/ t # "mqtt"
  BY <1>1 DEF Inv, BridgeInv
<1>6. CopyOf(t)[w] \in FieldValues
  BY <1>1 DEF Inv, TypeOK, CopyOf
<1>7. \A k \in Identity : k \in Keys
  BY DEF Identity, Keys
<1>8. BridgeInv'
  <2>1. ~bridged => t # "mqtt" /\ save'["mqtt"] = 0
    BY <1>4, <1>5 DEF Inv, BridgeInv, Tasks
  <2> QED BY <1>3, <2>1 DEF Inv, BridgeInv
<1>9. ASSUME NEW k \in Identity
      PROVE  /\ Stored(nvs', k) # "" => cfg[k] # ""
             /\ Stored(nvs, k) # "" /\ Stored(nvs', k) = ""
                  => t = "mqtt" /\ local_cfg[k] = ""
  <2>1. CASE k = w
    <3>1. nvs'[k] = CopyOf(t)[k] /\ nvs'[k] # Absent
      BY <1>1, <1>2, <1>6, <2>1, AbsentNoValue DEF Inv, TypeOK
    <3>2. Stored(nvs', k) = CopyOf(t)[k]
      BY <3>1 DEF Stored
    <3> QED BY <1>5, <3>2 DEF Inv, CopyInv, CopyOf
  <2>2. CASE k # w
    <3>1. nvs'[k] = nvs[k]
      BY <1>2, <1>7, <2>2 DEF Inv, TypeOK
    <3>2. Stored(nvs', k) = Stored(nvs, k)
      BY <3>1 DEF Stored
    <3> QED BY <3>2 DEF Inv, CopyInv
  <2> QED BY <2>1, <2>2
<1>10. CopyInv'
  BY <1>3, <1>9 DEF Inv, CopyInv
<1> QED BY <1>4, <1>8, <1>9, <1>10

LEMMA InvInit == Init => Inv
<1> SUFFICES ASSUME Init PROVE Inv
  OBVIOUS
<1>1. TypeOK
  BY InitTyped
<1>2. \A t \in Tasks : save[t] = 0
  BY DEF Init
<1>3. BridgeInv
  BY <1>2 DEF Init, BridgeInv, Tasks
<1>4. \A k \in Keys : nvs[k] = Absent /\ Stored(nvs, k) = Default[k]
  BY DEF Init, Stored
<1>5. CopyInv
  BY <1>4, DefaultTyped DEF CopyInv, Init, Identity, Keys
<1>6. InStep
  BY <1>4 DEF InStep, Init
<1> QED BY <1>1, <1>2, <1>3, <1>5, <1>6 DEF Inv, MainInv, Tasks

LEMMA MainStep == Inv /\ [Next]_vars => MainInv'
<1> SUFFICES ASSUME Inv, [Next]_vars, phase' # "loop" PROVE save'["main"] = 0
  BY DEF MainInv
<1>1. CASE Httpd \/ Mqtt
  <2>1. \E t \in {"httpd", "mqtt"} : BeginSave(t) \/ UNCHANGED save
    BY <1>1 DEF Httpd, PostConfig, PostMaintReset, PostFactory, Mqtt, CmdMaintReset,
                CmdCloudToggle
  <2>2. save'["main"] = save["main"]
    BY <2>1 DEF BeginSave, Inv, TypeOK, Tasks
  <2>3. phase' = phase
    BY <1>1 DEF Httpd, PostConfig, PostMaintReset, PostFactory, Mqtt, CmdMaintReset,
                CmdCloudToggle
  <2> QED BY <2>2, <2>3 DEF Inv, MainInv
<1>2. CASE AppMain
  BY <1>2 DEF AppMain, Decide, WifiTimeout, StartMqtt, StartCloud, FetchFails, FetchEnds,
              Inv, MainInv
<1>3. CASE Reset
  BY <1>3 DEF Reset, Tasks
<1>4. CASE \E t \in Tasks : SaveField(t)
  <2> PICK t \in Tasks : SaveField(t)
    BY <1>4
  <2>1. save["main"] = 0
    BY DEF SaveField, Inv, MainInv
  <2> QED BY <2>1 DEF SaveField, Inv, TypeOK
<1>5. CASE UNCHANGED vars
  BY <1>5 DEF vars, Inv, MainInv
<1> QED BY <1>1, <1>2, <1>3, <1>4, <1>5 DEF Next

(* Steps of the web server. *)
LEMMA PostConfigInv == Inv /\ PostConfig => Inv'
<1> SUFFICES ASSUME Inv, PostConfig PROVE Inv'
  OBVIOUS
<1>1. BeginSave("httpd") /\ save["httpd"] = 0 /\ "httpd" \in Tasks
  BY DEF PostConfig, Free, Tasks
<1>2. InStep' /\ save'["mqtt"] = save["mqtt"]
  BY <1>1, BeginInStep DEF Tasks
<1>3. BridgeInv'
  BY <1>1, <1>2 DEF PostConfig, Inv, BridgeInv, BeginSave
<1>4. PICK form \in Forms :
        cfg' = [k \in Keys |-> CASE k = "cache" -> PostedCache(form)
                                 [] k = "prov" -> Provisioned(form)
                                 [] OTHER -> Posted(form, k)]
  BY DEF PostConfig
<1>5. ASSUME NEW k \in Identity, cfg[k] # "" PROVE cfg'[k] # ""
  BY <1>4, <1>5 DEF Posted, Identity, Keys
<1>6. CopyInv'
  BY <1>5 DEF PostConfig, Inv, CopyInv
<1>7. TypeOK'
  BY TypeStep DEF Inv, Next, Httpd
<1>m. MainInv'
  BY MainStep DEF Inv, Next, Httpd
<1> QED BY <1>2, <1>3, <1>6, <1>7, <1>m DEF Inv

LEMMA MaintInv == Inv /\ PostMaintReset => Inv'
<1> SUFFICES ASSUME Inv, PostMaintReset PROVE Inv'
  OBVIOUS
<1>1. BeginSave("httpd") /\ save["httpd"] = 0 /\ "httpd" \in Tasks
  BY DEF PostMaintReset, Free, Tasks
<1>2. InStep' /\ save'["mqtt"] = save["mqtt"]
  BY <1>1, BeginInStep DEF Tasks
<1>3. BridgeInv'
  BY <1>1, <1>2 DEF PostMaintReset, Inv, BridgeInv, BeginSave
<1>4. \A k \in Identity : cfg'[k] = cfg[k]
  BY DEF PostMaintReset, Inv, TypeOK, Identity
<1>5. CopyInv'
  BY <1>4 DEF PostMaintReset, Inv, CopyInv
<1>6. TypeOK'
  BY TypeStep DEF Inv, Next, Httpd
<1>m. MainInv'
  BY MainStep DEF Inv, Next, Httpd
<1> QED BY <1>2, <1>3, <1>5, <1>6, <1>m DEF Inv

LEMMA FactoryInv == Inv /\ PostFactory => Inv'
<1> SUFFICES ASSUME Inv, PostFactory PROVE Inv'
  OBVIOUS
<1>1. TypeOK'
  BY TypeStep DEF Inv, Next, Httpd
<1>m. MainInv'
  BY MainStep DEF Inv, Next, Httpd
<1>2. \A k \in Keys : Stored(nvs', k) = Default[k]
  BY DEF PostFactory, Erase, Stored
<1>3. CopyInv'
  BY <1>2, DefaultTyped DEF PostFactory, copies, Inv, CopyInv, Identity, Keys
<1>6. BridgeInv'
  BY DEF PostFactory, Inv, BridgeInv
<1>8. InStep'
  BY <1>2 DEF PostFactory, copies, InStep
<1> QED BY <1>1, <1>3, <1>6, <1>8, <1>m DEF Inv

(* Steps of the MQTT bridge. *)
LEMMA CommandInv == Inv /\ Mqtt => Inv'
<1> SUFFICES ASSUME Inv, Mqtt PROVE Inv'
  OBVIOUS
<1>1. BeginSave("mqtt") /\ save["mqtt"] = 0 /\ "mqtt" \in Tasks /\ bridged
  BY DEF Mqtt, CmdMaintReset, CmdCloudToggle, Command, Free, Tasks
<1>3. UNCHANGED <<nvs, cfg, bridged, phase, astray>>
  BY DEF Mqtt, CmdMaintReset, CmdCloudToggle
<1>2. InStep'
  <2> SUFFICES ASSUME NEW k \in Keys \ {"cons"}
               PROVE  \/ Stored(nvs', k) = cfg'[k]
                      \/ k \in astray'
                      \/ ToWrite("httpd", k)'
                      \/ ToWrite("main", k)'
    BY DEF InStep
  <2>1. TypeOK /\ "httpd" \in Tasks \ {"mqtt"} /\ "main" \in Tasks \ {"mqtt"}
    BY DEF Inv, Tasks
  <2>2. ToWrite("httpd", k)' <=> ToWrite("httpd", k)
    BY <1>1, <2>1, BeginOwes
  <2>3. ToWrite("main", k)' <=> ToWrite("main", k)
    BY <1>1, <2>1, BeginOwes
  <2>4. \/ Stored(nvs, k) = cfg[k] \/ k \in astray
        \/ ToWrite("httpd", k) \/ ToWrite("main", k)
    BY DEF Inv, InStep
  <2> QED BY <1>3, <2>2, <2>3, <2>4
<1>4. BridgeInv'
  BY <1>1, <1>3 DEF Inv, BridgeInv
<1>5. \A k \in Identity : local_cfg'[k] = local_cfg[k]
  <2>1. CASE CmdMaintReset
    BY <2>1 DEF CmdMaintReset, Inv, TypeOK, Identity, Keys
  <2>2. CASE CmdCloudToggle
    <3> PICK on \in Switch : local_cfg' = [local_cfg EXCEPT !["cloud"] = on]
      BY <2>2 DEF CmdCloudToggle
    <3> QED BY DEF Inv, TypeOK, Identity, Keys
  <2> QED BY <2>1, <2>2 DEF Mqtt
<1>6. CopyInv'
  BY <1>3, <1>5 DEF Inv, CopyInv
<1>7. TypeOK'
  BY TypeStep DEF Inv, Next
<1>m. MainInv'
  BY MainStep DEF Next
<1> QED BY <1>2, <1>4, <1>6, <1>7, <1>m DEF Inv

(* Steps of app_main. *)
LEMMA AppMainInv == Inv /\ AppMain => Inv'
<1> SUFFICES ASSUME Inv, AppMain PROVE Inv'
  OBVIOUS
<1>0. TypeOK'
  BY TypeStep DEF Inv, Next
<1>m. MainInv'
  BY MainStep DEF Next
<1>1. CASE Decide \/ WifiTimeout \/ StartCloud \/ FetchFails
  <2>1. /\ UNCHANGED <<nvs, copies, bridged, save, astray>>
        /\ phase' \in {"decide", "wait"} => phase \in {"decide", "wait"}
    BY <1>1 DEF Decide, WifiTimeout, StartCloud, FetchFails
  <2>2. InStep'
    BY <2>1 DEF Inv, InStep, Stored, ToWrite, copies
  <2>3. BridgeInv' /\ CopyInv'
    BY <2>1 DEF Inv, BridgeInv, CopyInv, copies
  <2> QED BY <1>0, <2>2, <2>3, <1>m DEF Inv
<1>2. CASE StartMqtt
  <2>1. InStep'
    BY <1>2 DEF StartMqtt, Inv, InStep, Stored, ToWrite
  <2>2. BridgeInv' /\ CopyInv'
    BY <1>2 DEF StartMqtt, Inv, BridgeInv, CopyInv
  <2> QED BY <1>0, <2>1, <2>2, <1>m DEF Inv
<1>3. CASE FetchEnds
  <2>1. BeginSave("main") /\ "main" \in Tasks
    BY <1>3 DEF FetchEnds, Tasks
  <2>3. InStep' /\ save'["mqtt"] = save["mqtt"]
    BY <2>1, BeginInStep DEF Tasks
  <2>4. BridgeInv'
    BY <1>3, <2>1, <2>3 DEF FetchEnds, Inv, BridgeInv, BeginSave
  <2>5. \A k \in Identity : cfg'[k] = cfg[k]
    BY <1>3 DEF FetchEnds, Inv, TypeOK, Identity
  <2>6. CopyInv'
    BY <1>3, <2>5 DEF FetchEnds, Inv, CopyInv
  <2> QED BY <1>0, <2>3, <2>4, <2>6, <1>m DEF Inv
<1> QED BY <1>1, <1>2, <1>3 DEF AppMain

LEMMA ResetInv == Inv /\ Reset => Inv'
<1> SUFFICES ASSUME Inv, Reset PROVE Inv'
  OBVIOUS
<1>1. TypeOK'
  BY TypeStep DEF Inv, Next
<1>m. MainInv'
  BY MainStep DEF Next
<1>2. BridgeInv'
  BY DEF Reset, BridgeInv, Tasks
<1>3. \A k \in Keys \ {"cons"} : cfg'[k] = Stored(nvs', k)
  BY LoadedStored DEF Reset
<1>4. CopyInv'
  BY <1>3 DEF Reset, CopyInv, Identity, Keys
<1>5. InStep'
  BY <1>3 DEF InStep
<1> QED BY <1>1, <1>2, <1>4, <1>5, <1>m DEF Inv

LEMMA InvStep == Inv /\ [Next]_vars => Inv'
<1> SUFFICES ASSUME Inv, [Next]_vars PROVE Inv'
  OBVIOUS
<1>1. TypeOK' /\ MainInv'
  BY TypeStep, MainStep DEF Inv
<1>2. CASE \E t \in Tasks : SaveField(t)
  BY <1>1, <1>2, FieldStepInv, FieldCopyInv DEF Inv
<1>3. CASE UNCHANGED vars
  <2>1. InStep'
    BY <1>3 DEF Inv, InStep, Stored, ToWrite, vars, copies
  <2>2. BridgeInv' /\ CopyInv'
    BY <1>3 DEF Inv, BridgeInv, CopyInv, vars, copies
  <2> QED BY <1>1, <2>1, <2>2 DEF Inv
<1> QED BY <1>2, <1>3, PostConfigInv, MaintInv, FactoryInv, CommandInv, AppMainInv, ResetInv
        DEF Next, Httpd

(* NVS holds the running configuration, key by key, but for what a save    *)
(* still has to write and what the MQTT bridge's copy or a factory reset   *)
(* put there: for any names, forms and number of saves.                    *)
THEOREM SavedIsStored == Spec => []InStep
<1>1. Inv => InStep
  BY DEF Inv
<1> QED BY <1>1, InvInit, InvStep, PTL DEF Spec

(* An identity field in NVS is emptied by a factory reset or by the MQTT   *)
(* bridge's older copy, never by a form, app_main or a reset.              *)
THEOREM OnlyOldCopyEmpties == Spec => EmptiedByOldCopy
<1> DEFINE Kept ==
      \A k \in Identity : Stored(nvs, k) # "" /\ Stored(nvs', k) = "" =>
        \/ "httpd" \in leaving' \ leaving
        \/ save["mqtt"] # save'["mqtt"] /\ local_cfg[k] = ""
<1>1. Inv /\ [Next]_vars => [Kept]_vars
  <2> SUFFICES ASSUME Inv, Next PROVE Kept
    OBVIOUS
  <2>1. CASE \E t \in Tasks : SaveField(t)
    BY <2>1, FieldCopyInv
  <2>2. CASE PostFactory
    BY <2>2 DEF PostFactory, Free
  <2>3. CASE PostConfig \/ PostMaintReset \/ Mqtt \/ AppMain \/ Reset
    <3>1. nvs' = nvs
      BY <2>3 DEF PostConfig, PostMaintReset, Mqtt, CmdMaintReset, CmdCloudToggle, AppMain,
                  Decide, WifiTimeout, StartMqtt, StartCloud, FetchFails, FetchEnds, Reset
    <3> QED BY <3>1
  <2> QED BY <2>1, <2>2, <2>3 DEF Next, Httpd
<1> QED BY <1>1, InvInit, InvStep, PTL DEF Spec, EmptiedByOldCopy
==============================================================================
