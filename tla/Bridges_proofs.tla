---------------------------- MODULE Bridges_proofs ----------------------------
(***************************************************************************)
(* What Home Assistant is told is right, for every set of stoves, settings *)
(* and programmes and however often the network, the module and the test   *)
(* of the broker come and go: first of the tables of announcements, then   *)
(* of the steps, the invariant BridgesInv and what follows from it.        *)
(***************************************************************************)
EXTENDS Bridges, TLAPS

(* What is announced for every stove and every account. *)
Common ==
  (Measures("I_VENT") \union Counters \union Pellets)
    \union (ChronoSummaries \union ChronoControls \union StateAndAlarms \union Maintenance
              \union ResetButtons)
    \union (CloudEntities(FALSE) \union StoveControls)

(* An announcement that no discovery deletes. *)
Kept(id) ==
  /\ id[1] # "text"
  /\ id[1] = "binary_sensor" => id[2] # "chrono_master" /\ id[2] # "cloud_enabled"
  /\ id[1] = "sensor" =>
       /\ id[2] # "chrono_prog" /\ id[2] # "chrono_prog_sum" /\ id[2] # "chrono_prog_sum_v2"
       /\ id[2] # "t_water"
  /\ id[1] = "switch" => id[2] # "cloud"

Fed(e) == e.topic # "" => \A t \in StoveTypes : e.topic \in Topics /\ e.reads \subseteq Published[t][e.topic]

(* The items of a topic, whatever the stove. *)
LEMMA PublishedItems ==
  ASSUME NEW t \in StoveTypes
  PROVE  /\ StateItems("I_VENT") \union CounterItems \union StatusItems \subseteq Published[t]["state"]
         /\ t \in Hydro => Item("t_water", 0) \in Published[t]["state"]
         /\ ChronoItems = Published[t]["chrono"]
         /\ Published[t]["history_alarms"] = Items({"events", "count"})
         /\ Published[t]["params_tech"] = Items({"params", "divergent_count"})
         /\ Published[t]["combustion_diag"] = Items({"diagnostics", "severity"})
         /\ Published[t]["pellet"] = PelletItems
<1>1. /\ "state" \in Topics /\ "chrono" \in Topics /\ "history_alarms" \in Topics
      /\ "params_tech" \in Topics /\ "combustion_diag" \in Topics /\ "pellet" \in Topics
  BY DEF Topics
<1>2. /\ Published[t]["state"] = StateItems(t) \union CounterItems \union StatusItems
      /\ Published[t]["chrono"] = ChronoItems
      /\ Published[t]["history_alarms"] = Items({"events", "count"})
      /\ Published[t]["params_tech"] = Items({"params", "divergent_count"})
      /\ Published[t]["combustion_diag"] = Items({"diagnostics", "severity"})
      /\ Published[t]["pellet"] = PelletItems
  BY <1>1 DEF Published
<1>3. StateItems("I_VENT") \subseteq StateItems(t)
  BY DEF StateItems, Hydro
<1>4. t \in Hydro => Item("t_water", 0) \in StateItems(t)
  BY DEF StateItems, Items
<1> QED BY <1>2, <1>3, <1>4

LEMMA ShownFed ==
  ASSUME NEW component, NEW object, NEW name,
         Item(name, 0) \in StateItems("I_VENT") \union CounterItems \union StatusItems
  PROVE  Fed(Show(component, object, name))
<1>1. "state" \in Topics
  BY DEF Topics
<1> QED BY <1>1, PublishedItems DEF Fed, Show, Entity

LEMMA MeasuresOk == \A e \in Measures("I_VENT") : Kept(e.id) /\ Fed(e)
<1> SUFFICES ASSUME NEW e \in Measures("I_VENT") PROVE Kept(e.id) /\ Fed(e)
  OBVIOUS
<1>1. PICK o, n : /\ e = Show("sensor", o, n)
                  /\ n \in {"t_ambient", "t_smoke", "power_real", "power", "alarm"}
                  /\ o \in {"t_ambient", "t_smoke", "power_real", "power_level", "alarm_code"}
  BY DEF Measures, ShowAll, Hydro
<1>2. Item(n, 0) \in StateItems("I_VENT")
  BY <1>1 DEF StateItems, Items
<1>3. Kept(e.id)
  BY <1>1 DEF Kept, Show, Entity, Id
<1> QED BY <1>1, <1>2, <1>3, ShownFed

LEMMA CountersOk == \A e \in Counters \union Pellets : Kept(e.id) /\ Fed(e)
<1> SUFFICES ASSUME NEW e \in Counters \union Pellets PROVE Kept(e.id) /\ Fed(e)
  OBVIOUS
<1>1. CASE e \in Counters
  <2>1. PICK n \in {"hours_total", "starts_total", "hours_p1", "hours_p2", "hours_p3", "hours_p4",
                    "hours_p5"} : e = Show("sensor", n, n)
    BY <1>1 DEF Counters, ShowAll
  <2>2. Item(n, 0) \in CounterItems
    BY <2>1 DEF CounterItems, Items
  <2>3. Kept(e.id)
    BY <2>1 DEF Kept, Show, Entity, Id
  <2> QED BY <2>1, <2>2, <2>3, ShownFed
<1>2. CASE e \in Pellets
  <2>1. PICK o, n :
          /\ e = Show("sensor", o, n)
          /\ n \in {"pellets_total_kg", "pellets_remaining_kg", "pellets_kg_per_day",
                    "pellets_days_left", "pellets_empty_ts", "pellets_cost_lifetime_eur"}
          /\ o \in {"pellets_total_kg", "pellets_remaining_kg", "pellets_kg_per_day",
                    "pellets_days_left", "pellets_empty_ts", "pellets_cost_lifetime"}
    BY <1>2 DEF Pellets, ShowAll
  <2>2. Item(n, 0) \in CounterItems
    BY <2>1 DEF CounterItems, Items
  <2>3. Kept(e.id)
    BY <2>1 DEF Kept, Show, Entity, Id
  <2> QED BY <2>1, <2>2, <2>3, ShownFed
<1> QED BY <1>1, <1>2

LEMMA ChronoOk == \A e \in ChronoSummaries \union ChronoControls : Kept(e.id) /\ Fed(e)
<1> SUFFICES ASSUME NEW e \in ChronoSummaries \union ChronoControls PROVE Kept(e.id) /\ Fed(e)
  OBVIOUS
<1>0. "chrono" \in Topics
  BY DEF Topics
<1>1. CASE e = Entity(Id("switch", "chrono_master", 0), "chrono", Items({"master_enabled"}), "chrono_master")
  <2>1. e.reads \subseteq ChronoItems
    BY <1>1 DEF Entity, ChronoItems
  <2>2. Kept(e.id) /\ e.topic = "chrono"
    BY <1>1 DEF Kept, Entity, Id
  <2> QED BY <1>0, <2>1, <2>2, PublishedItems DEF Fed
<1>2. CASE \E component, object, reads, command, n :
             /\ e = ChronoEntity(component, object, reads, command, n)
             /\ component \in {"sensor", "switch", "number", "time"}
             /\ object \in {"chrono_prog_sum_v3", "chrono_prog_enable", "chrono_prog_temp",
                            "chrono_prog_start", "chrono_prog_stop"}
             /\ reads \subseteq ProgReads
             /\ n \in Progs
  <2>1. PICK component, object, reads, command, n :
             /\ e = ChronoEntity(component, object, reads, command, n)
             /\ component \in {"sensor", "switch", "number", "time"}
             /\ object \in {"chrono_prog_sum_v3", "chrono_prog_enable", "chrono_prog_temp",
                            "chrono_prog_start", "chrono_prog_stop"}
             /\ reads \subseteq ProgReads
             /\ n \in Progs
    BY <1>2
  <2>2. e.topic = "chrono" /\ e.reads = {Item(r, n) : r \in reads} /\ e.id = Id(component, object, n)
    BY <2>1 DEF ChronoEntity, Entity
  <2>3. e.reads \subseteq ChronoItems
    BY <2>1, <2>2 DEF ChronoItems
  <2>4. Kept(e.id)
    BY <2>1, <2>2 DEF Kept, Id
  <2> QED BY <1>0, <2>2, <2>3, <2>4, PublishedItems DEF Fed
<1>3. {"enabled"} \subseteq ProgReads /\ {"temp_c"} \subseteq ProgReads
      /\ {"start"} \subseteq ProgReads /\ {"stop"} \subseteq ProgReads
  BY DEF ProgReads
<1>4. CASE e \in ChronoSummaries
  BY <1>2, <1>4 DEF ChronoSummaries
<1>5. CASE e \in ChronoControls
  <2>1. \/ e = Entity(Id("switch", "chrono_master", 0), "chrono", Items({"master_enabled"}),
                      "chrono_master")
        \/ \E n \in Progs :
             \/ e = ChronoEntity("switch", "chrono_prog_enable", {"enabled"}, "chrono_enable", n)
             \/ e = ChronoEntity("number", "chrono_prog_temp", {"temp_c"}, "chrono_temp", n)
             \/ e = ChronoEntity("time", "chrono_prog_start", {"start"}, "chrono_start", n)
             \/ e = ChronoEntity("time", "chrono_prog_stop", {"stop"}, "chrono_stop", n)
    BY <1>5 DEF ChronoControls
  <2> QED BY <1>1, <1>2, <1>3, <2>1
<1> QED BY <1>4, <1>5

LEMMA StateOk == \A e \in StateAndAlarms : Kept(e.id) /\ Fed(e)
<1> SUFFICES ASSUME NEW e \in StateAndAlarms PROVE Kept(e.id) /\ Fed(e)
  OBVIOUS
<1>1. CASE e \in ShowAll("binary_sensor", AlarmBits)
  <2>1. PICK n \in AlarmBits : e = Show("binary_sensor", n, n)
    BY <1>1 DEF ShowAll
  <2>2. Item(n, 0) \in StatusItems
    BY <2>1 DEF StatusItems, Items
  <2>3. n # "chrono_master" /\ n # "cloud_enabled"
    BY <2>1 DEF AlarmBits
  <2>4. Kept(e.id)
    BY <2>1, <2>3 DEF Kept, Show, Entity, Id
  <2> QED BY <2>1, <2>2, <2>4, ShownFed
<1>2. CASE e \notin ShowAll("binary_sensor", AlarmBits)
  <2>1. PICK c, o, n :
          /\ e = Show(c, o, n)
          /\ c \in {"sensor", "binary_sensor"}
          /\ o \in {"state", "safe_mode_next", "uptime", "last_boot", "online"}
          /\ n \in {"state", "safe_mode_next", "uptime_s", "online"}
    BY <1>2 DEF StateAndAlarms
  <2>2. Item(n, 0) \in StateItems("I_VENT") \union StatusItems
    BY <2>1 DEF StateItems, StatusItems, Items
  <2>3. Kept(e.id)
    BY <2>1 DEF Kept, Show, Entity, Id
  <2> QED BY <2>1, <2>2, <2>3, ShownFed
<1> QED BY <1>1, <1>2

LEMMA MaintenanceOk == \A e \in Maintenance : Kept(e.id) /\ Fed(e)
<1> SUFFICES ASSUME NEW e \in Maintenance PROVE Kept(e.id) /\ Fed(e)
  OBVIOUS
<1>0. "history_alarms" \in Topics /\ "params_tech" \in Topics /\ "combustion_diag" \in Topics
  BY DEF Topics
<1>1. CASE \E c, n : /\ e = Show(c, n, n)
                     /\ c \in {"sensor", "binary_sensor"}
                     /\ n \in {"hours_before_service", "hours_since_service",
                               "starts_before_cleaning", "starts_since_cleaning", "modulation",
                               "tremie_vide"}
  <2>1. PICK c, n : /\ e = Show(c, n, n)
                    /\ c \in {"sensor", "binary_sensor"}
                    /\ n \in {"hours_before_service", "hours_since_service",
                              "starts_before_cleaning", "starts_since_cleaning", "modulation",
                              "tremie_vide"}
    BY <1>1
  <2>2. Item(n, 0) \in StatusItems
    BY <2>1 DEF StatusItems, Items
  <2>3. Kept(e.id)
    BY <2>1 DEF Kept, Show, Entity, Id
  <2> QED BY <2>1, <2>2, <2>3, ShownFed
<1>2. CASE e = Entity(Id("sensor", "history_alarms", 0), "history_alarms",
                      Items({"count", "events"}), "")
  <2>1. e.topic = "history_alarms" /\ e.reads = Items({"events", "count"})
    BY <1>2 DEF Entity, Items
  <2>2. Kept(e.id)
    BY <1>2 DEF Kept, Entity, Id
  <2> QED BY <1>0, <2>1, <2>2, PublishedItems DEF Fed
<1>3. CASE e = On("sensor", "params_tech", "params_tech", "divergent_count")
  <2>1. e.topic = "params_tech" /\ e.reads \subseteq Items({"params", "divergent_count"})
    BY <1>3 DEF On, Entity, Items
  <2>2. Kept(e.id)
    BY <1>3 DEF Kept, On, Entity, Id
  <2> QED BY <1>0, <2>1, <2>2, PublishedItems DEF Fed
<1>4. CASE e = On("sensor", "combustion_diag", "combustion_diag", "severity")
  <2>1. e.topic = "combustion_diag" /\ e.reads \subseteq Items({"diagnostics", "severity"})
    BY <1>4 DEF On, Entity, Items
  <2>2. Kept(e.id)
    BY <1>4 DEF Kept, On, Entity, Id
  <2> QED BY <1>0, <2>1, <2>2, PublishedItems DEF Fed
<1> QED BY <1>1, <1>2, <1>3, <1>4 DEF Maintenance, ShowAll

LEMMA ControlsOk ==
  \A e \in ResetButtons \union StoveControls \union CloudEntities(FALSE) : Kept(e.id) /\ Fed(e)
<1> SUFFICES ASSUME NEW e \in ResetButtons \union StoveControls \union CloudEntities(FALSE)
             PROVE  Kept(e.id) /\ Fed(e)
  OBVIOUS
<1>1. CASE \E o : e = Button(o)
  <2>1. PICK o : e = Button(o)
    BY <1>1
  <2>2. e.topic = "" /\ e.id[1] = "button"
    BY <2>1 DEF Button, Entity, Id
  <2> QED BY <2>2 DEF Kept, Fed
<1>2. CASE e = Show("binary_sensor", "cloud_connected", "cloud_connected")
  <2>1. Item("cloud_connected", 0) \in StatusItems
    BY DEF StatusItems, Items
  <2>2. Kept(e.id)
    BY <1>2 DEF Kept, Show, Entity, Id
  <2> QED BY <1>2, <2>1, <2>2, ShownFed
<1>3. CASE \E c, o, n, command : /\ e = Entity(Id(c, o, 0), "state", Items({n}), command)
                                /\ c \in {"switch", "number", "select"}
                                /\ o \in {"on_off", "setpoint", "power_level_cmd"}
                                /\ n \in {"state", "setpoint", "power"}
  <2>1. PICK c, o, n, command : /\ e = Entity(Id(c, o, 0), "state", Items({n}), command)
                                /\ c \in {"switch", "number", "select"}
                                /\ o \in {"on_off", "setpoint", "power_level_cmd"}
                                /\ n \in {"state", "setpoint", "power"}
    BY <1>3
  <2>2. e.topic = "state" /\ "state" \in Topics /\ e.reads = Items({n}) /\ e.id = Id(c, o, 0)
    BY <2>1 DEF Entity, Topics
  <2>3. Items({n}) \subseteq StateItems("I_VENT")
    BY <2>1 DEF StateItems, Items
  <2>4. Kept(e.id)
    BY <2>1, <2>2 DEF Kept, Id
  <2> QED BY <2>2, <2>3, <2>4, PublishedItems DEF Fed
<1> QED BY <1>1, <1>2, <1>3 DEF ResetButtons, StoveControls, CloudEntities

LEMMA CommonOk == \A e \in Common : Kept(e.id) /\ Fed(e)
  BY MeasuresOk, CountersOk, ChronoOk, StateOk, MaintenanceOk, ControlsOk DEF Common

(* The entities of a stove are the common ones, the water and the switch   *)
(* of the cloud.                                                           *)
LEMMA EntitiesAre ==
  ASSUME NEW t \in StoveTypes, NEW a \in BOOLEAN
  PROVE  /\ Entities[t][a] = Common \union (IF t \in Hydro THEN {Water} ELSE {})
                                  \union (IF a THEN {CloudSwitch} ELSE {})
         /\ EntityIds[t][a] = AnnouncedIds[1][t][a] \union AnnouncedIds[2][t][a]
                                   \union AnnouncedIds[3][t][a]
<1>1. Sections = {1, 2, 3}
  BY DEF Sections, LastSection
<1>2. Entities[t][a] = Announced[1][t][a] \union Announced[2][t][a] \union Announced[3][t][a]
  <2>1. Entities[t][a] = UNION {Announced[s][t][a] : s \in Sections}
    BY DEF Entities
  <2> QED BY <1>1, <2>1
<1>3. /\ Announced[1][t][a] = Measures(t) \union Counters \union Pellets
      /\ Announced[2][t][a] = ChronoSummaries \union ChronoControls \union StateAndAlarms
                                 \union Maintenance \union ResetButtons
      /\ Announced[3][t][a] = CloudEntities(a) \union StoveControls
  BY <1>1 DEF Announced
<1>4. Measures(t) = Measures("I_VENT") \union (IF t \in Hydro THEN {Water} ELSE {})
  BY DEF Measures, Hydro
<1>5. CloudEntities(a) = CloudEntities(FALSE) \union (IF a THEN {CloudSwitch} ELSE {})
  BY DEF CloudEntities
<1>6. \A s \in Sections : AnnouncedIds[s][t][a] = Ids(Announced[s][t][a])
  BY DEF AnnouncedIds
<1>7. Ids(Entities[t][a]) = Ids(Announced[1][t][a]) \union Ids(Announced[2][t][a])
                              \union Ids(Announced[3][t][a])
  BY <1>2 DEF Ids
<1>8. Entities[t][a] = Common \union (IF t \in Hydro THEN {Water} ELSE {})
                              \union (IF a THEN {CloudSwitch} ELSE {})
  BY <1>2, <1>3, <1>4, <1>5 DEF Common
<1>9. EntityIds[t][a] = Ids(Entities[t][a])
  BY DEF EntityIds
<1> QED BY <1>1, <1>6, <1>7, <1>8, <1>9

LEMMA IdsAre ==
  ASSUME NEW t \in StoveTypes, NEW a \in BOOLEAN
  PROVE  /\ \A e \in Entities[t][a] : e.id \in EntityIds[t][a]
         /\ \A id \in EntityIds[t][a] : \E e \in Entities[t][a] : id = e.id
  BY DEF EntityIds, Ids

LEMMA Deletions ==
  ASSUME NEW t \in StoveTypes, NEW a \in BOOLEAN
  PROVE  /\ Deleted[1][t][a] = DryDeletes(t)
         /\ Deleted[2][t][a] = ChronoDeletes
         /\ Deleted[3][t][a] = CloudDeletes(a)
  BY DEF Deleted, Sections, LastSection

(* What one section of the discovery announces for a stove and an account, *)
(* no section deletes (mqtt_bridge_publish_discovery): sections that are   *)
(* sent again late do no harm.                                             *)
THEOREM NoClash ==
  ASSUME NEW t \in StoveTypes, NEW a \in BOOLEAN, NEW i \in Sections, NEW j \in Sections
  PROVE  AnnouncedIds[i][t][a] \intersect Deleted[j][t][a] = {}
<1> SUFFICES ASSUME NEW d \in Deleted[j][t][a], d \in EntityIds[t][a] PROVE FALSE
  BY EntitiesAre DEF Sections, LastSection
<1>1. PICK e \in Entities[t][a] : d = e.id
  BY IdsAre
<1>2. Water.id = Id("sensor", "t_water", 0) /\ CloudSwitch.id = Id("switch", "cloud", 0)
  BY DEF Water, CloudSwitch, Show, Entity
<1>3. d \in DryDeletes(t) \union ChronoDeletes \union CloudDeletes(a)
  BY Deletions DEF Sections, LastSection
<1>4. CASE e \in Common
  <2>1. Kept(d)
    BY <1>1, <1>4, CommonOk
  <2>2. d \notin ChronoDeletes
    BY <2>1 DEF Kept, ChronoDeletes, Id
  <2>3. d \notin DryDeletes(t)
    BY <1>2, <2>1 DEF Kept, DryDeletes, Id
  <2>4. d \notin CloudDeletes(a)
    BY <1>2, <2>1 DEF Kept, CloudDeletes, Id
  <2> QED BY <1>3, <2>2, <2>3, <2>4
<1>5. CASE e = Water /\ t \in Hydro
  BY <1>1, <1>2, <1>3, <1>5 DEF DryDeletes, ChronoDeletes, CloudDeletes, Id
<1>6. CASE e = CloudSwitch /\ a
  <2>1. d = Id("switch", "cloud", 0) /\ Water.id # d
    BY <1>1, <1>2, <1>6 DEF Id
  <2> QED BY <1>3, <1>6, <2>1 DEF DryDeletes, ChronoDeletes, CloudDeletes, Id
<1> QED BY <1>1, <1>4, <1>5, <1>6, EntitiesAre

(* What no section deletes of what can be retained is announced. *)
LEMMA NoLeftover ==
  ASSUME NEW t \in StoveTypes, NEW a \in BOOLEAN,
         NEW id \in EntityIds[t][TRUE] \union Legacy,
         \A i \in Sections : id \notin Deleted[i][t][a]
  PROVE  id \in EntityIds[t][a]
<1>1. /\ id \notin DryDeletes(t) /\ id \notin ChronoDeletes /\ id \notin CloudDeletes(a)
  BY Deletions DEF Sections, LastSection
<1>2. id = Water.id => t \in Hydro
  BY <1>1 DEF DryDeletes
<1>3. id = CloudSwitch.id => a
  BY <1>1 DEF CloudDeletes
<1>4. t \in Hydro => Water.id \in EntityIds[t][a]
  BY EntitiesAre, IdsAre
<1>5. a => CloudSwitch.id \in EntityIds[t][a]
  BY EntitiesAre, IdsAre
<1>6. CASE id \in EntityIds[t][TRUE]
  <2>1. PICK e \in Entities[t][TRUE] : id = e.id
    BY <1>6, IdsAre
  <2>2. e \in Common \/ e = Water \/ e = CloudSwitch
    BY <2>1, EntitiesAre
  <2>3. e \in Common => id \in EntityIds[t][a]
    BY <2>1, EntitiesAre, IdsAre DEF Ids
  <2> QED BY <1>2, <1>3, <1>4, <1>5, <2>1, <2>2, <2>3
<1>7. CASE id \in Legacy
  BY <1>1, <1>2, <1>3, <1>4, <1>5, <1>7 DEF Legacy, CloudDeletes
<1> QED BY <1>6, <1>7

(* An entity that is announced for a stove reads what that stove publishes *)
(* (mqtt_bridge_publish_discovery and mqtt_bridge_publish_state), whatever *)
(* the stove, the account and the number of programmes.                    *)
THEOREM AnnouncedFed ==
  ASSUME NEW t \in StoveTypes, NEW a \in BOOLEAN, NEW e \in KnownEntities,
         e.id \in EntityIds[t][a], e.topic # ""
  PROVE  e.topic \in Topics /\ e.reads \subseteq Published[t][e.topic]
<1>1. "I_IDRO" \in StoveTypes /\ TRUE \in BOOLEAN
  BY DEF StoveTypes
<1>2. e \in Common \/ e = Water \/ e = CloudSwitch
  BY <1>1, EntitiesAre DEF KnownEntities
<1>3. CASE e \in Common
  BY <1>3, CommonOk DEF Fed
<1>4. "state" \in Topics
  BY DEF Topics
<1>5. CASE e = CloudSwitch
  <2>1. e.topic = "state" /\ e.reads \subseteq StatusItems
    BY <1>5 DEF CloudSwitch, Entity, StatusItems, Items
  <2> QED BY <1>4, <2>1, PublishedItems
<1>6. CASE e = Water
  <2>1. e.topic = "state" /\ e.reads = {Item("t_water", 0)} /\ e.id = Id("sensor", "t_water", 0)
    BY <1>6 DEF Water, Show, Entity
  <2>2. PICK f \in Entities[t][a] : f.id = e.id
    BY IdsAre
  <2>3. f \notin Common
    BY <2>1, <2>2, CommonOk DEF Kept, Id
  <2>4. f # CloudSwitch
    BY <2>1, <2>2 DEF CloudSwitch, Entity, Id
  <2>5. t \in Hydro
    <3>1. f \in Common \union (IF t \in Hydro THEN {Water} ELSE {})
                     \union (IF a THEN {CloudSwitch} ELSE {})
      BY <2>2, EntitiesAre
    <3> QED BY <2>3, <2>4, <3>1
  <2> QED BY <1>4, <2>1, <2>5, PublishedItems
<1> QED BY <1>2, <1>3, <1>5, <1>6

------------------------------------------------------------------------------
(* What the proofs need to know of the settings and the names.             *)
LEMMA Constants ==
  /\ MainId \in ClientIds /\ TestId \in ClientIds /\ MainId # TestId
  /\ Last = 4 /\ NoOld = 5 /\ Sections = 1..3
  /\ \A c \in Settings : c \in Setting
  BY SettingsAssumption
     DEF ClientIds, MainId, TestId, Last, LastSection, NoOld, Sections

(* All that is ever retained is known. *)
LEMMA IdsAreKnown ==
  ASSUME NEW t \in StoveTypes, NEW a \in BOOLEAN
  PROVE  /\ EntityIds[t][a] \subseteq EntityIds[t][TRUE]
         /\ EntityIds[t][TRUE] \subseteq KnownIds
<1>1. "I_IDRO" \in StoveTypes /\ "I_IDRO" \in Hydro /\ TRUE \in BOOLEAN
  BY DEF StoveTypes, Hydro
<1>2. Entities[t][a] \subseteq Entities[t][TRUE] /\ Entities[t][TRUE] \subseteq KnownEntities
  BY <1>1, EntitiesAre DEF KnownEntities
<1>3. EntityIds[t][a] \subseteq EntityIds[t][TRUE]
  <2> SUFFICES ASSUME NEW id \in EntityIds[t][a] PROVE id \in EntityIds[t][TRUE]
    OBVIOUS
  <2>1. PICK e \in Entities[t][a] : id = e.id
    BY IdsAre
  <2> QED BY <1>1, <1>2, <2>1, IdsAre
<1>4. EntityIds[t][TRUE] \subseteq KnownIds
  BY <1>2, IdsAre DEF KnownIds, Ids
<1> QED BY <1>3, <1>4

(* The types, of the Wi-Fi, the cloud and app_main, and of the session.    *)
LinksType ==
  /\ air \in BOOLEAN /\ wifi_bit \in BOOLEAN /\ known \in BOOLEAN
  /\ sta \in {"off", "connecting", "up", "waiting"}
  /\ cloud \in {"none", "down", "up"}
  /\ model \in BOOLEAN /\ subscribed \in BOOLEAN /\ pub_task \in BOOLEAN
  /\ phase \in {"start", "wait", "cloud", "loop"}

MqttType ==
  /\ conn \in {"none", "down", "up"}
  /\ mqtt_bit \in BOOLEAN
  /\ rcvd \in 0..Last
  /\ old \in 1..NoOld
  /\ testing \in {"idle", "opening", "ok"}
  /\ type \in Types
  /\ sessions \in [ClientIds -> {"none", "bridge", "test"}]
  /\ avail \in {"none", "online", "offline"}
  /\ retained \subseteq KnownIds \union Legacy

ValuesType == \A t \in Topics : values[t] \in {{}, Published[type][t]}

LEMMA TypeParts == TypeOK <=> LinksType /\ MqttType /\ ValuesType /\ conf \in Setting
  BY DEF TypeOK, LinksType, MqttType, ValuesType

LEMMA SameMqtt == ASSUME UNCHANGED mqttVars, MqttType, ValuesType PROVE MqttType' /\ ValuesType'
  BY DEF mqttVars, deviceVars, brokerVars, MqttType, ValuesType

LEMMA SameValues == ASSUME UNCHANGED <<values, type>>, ValuesType PROVE ValuesType'
  BY DEF ValuesType

LEMMA SameLinks == ASSUME UNCHANGED <<wifiVars, cloudVars, phase>>, LinksType PROVE LinksType'
  BY DEF wifiVars, cloudVars, LinksType

LEMMA InitInv == Init => BridgesInv
<1> SUFFICES ASSUME Init PROVE BridgesInv
  OBVIOUS
<1>0. type \in StoveTypes
  BY TypesAssumption DEF Init, MqttInit
<1>1. retained = Legacy /\ type \in Types /\ conn = "none"
  BY DEF Init, MqttInit
<1>2. TypeOK
  <2>1. LinksType
    BY DEF Init, WifiInit, CloudInit, LinksType
  <2>2. MqttType
    <3>1. sessions \in [ClientIds -> {"none", "bridge", "test"}]
      BY DEF Init, MqttInit
    <3>2. rcvd \in 0..Last /\ old \in 1..NoOld
      BY Constants DEF Init, MqttInit
    <3> QED BY <3>1, <3>2, <1>1 DEF Init, MqttInit, MqttType
  <2>3. \A t \in Topics : values[t] = {}
    BY DEF Init, MqttInit, NoValues
  <2>4. conf \in Setting
    BY Constants DEF Init
  <2> QED BY <2>1, <2>2, <2>3, <2>4, TypeParts DEF ValuesType
<1>3. LinksInv
  BY DEF Init, MqttInit, WifiInit, CloudInit, LinksInv
<1>4. SessionInv
  BY Constants DEF Init, MqttInit, SessionInv, Announcing
<1>5. RetainedInv
  BY <1>1 DEF RetainedInv, Announcing
<1> QED BY <1>2, <1>3, <1>4, <1>5 DEF BridgesInv

(* app_main, the resets, the Wi-Fi and the cloud move the links only.      *)
LEMMA MainType == TypeOK /\ LinksInv /\ (AppMain \/ Reset \/ WifiStep \/ CloudStep) => TypeOK'
<1> SUFFICES ASSUME TypeOK, LinksInv, AppMain \/ Reset \/ WifiStep \/ CloudStep PROVE TypeOK'
  OBVIOUS
<1>0. LinksType /\ MqttType /\ ValuesType /\ conf \in Setting
  BY TypeParts
<1>t. LinksType' /\ MqttType' /\ ValuesType' /\ conf' \in Setting => TypeOK'
  BY TypeParts DEF LinksType, MqttType, ValuesType, TypeOK
<1>1. CASE StartNetwork \/ WifiTimeout \/ WifiCame
  <2>1. LinksType' /\ conf' \in Setting
    BY <1>0, <1>1 DEF StartNetwork, StartWifi, WifiTimeout, WifiCame, wifiVars, cloudVars, LinksType,
                      Setting
  <2>2. MqttType' /\ ValuesType'
    BY <1>0, <1>1, SameMqtt
       DEF StartNetwork, WifiTimeout, WifiCame, StartMqtt, brokerVars, MqttType, ValuesType
  <2> QED BY <1>t, <2>1, <2>2
<1>2. CASE StartTheCloud
  <2>1. PICK secrets \in BOOLEAN, outcome \in FetchOutcomes(conf.account) :
          LET fetched == ~conf.cached /\ outcome = "model" /\ Reachable
          IN /\ StartCloud(conf, secrets, fetched)
             /\ conf' = [conf EXCEPT !.cached = @ \/ (conf.cloud /\ secrets /\ fetched)]
    BY <1>2, Zenon DEF StartTheCloud
  <2>2. conf' \in Setting
    BY <1>0, <2>1 DEF Setting
  <2>3. cloud' \in {"none", "down", "up"} /\ model' \in BOOLEAN /\ subscribed' = subscribed
        /\ pub_task' = pub_task
    BY <1>0, <2>1 DEF StartCloud, cloudVars, LinksType, Setting
  <2>4. LinksType'
    BY <1>0, <1>2, <2>3 DEF StartTheCloud, wifiVars, LinksType
  <2> QED BY <1>0, <1>2, <1>t, <2>2, <2>4, SameMqtt DEF StartTheCloud
<1>3. CASE Reset
  <2>1. conf' \in Setting
    BY <1>0, <1>3, Constants DEF Reset
  <2>2. LinksType'
    BY <1>0, <1>3 DEF Reset, WifiReset, CloudReset, LinksType
  <2>3. MqttType'
    <3>1. rcvd' \in 0..Last /\ old' \in 1..NoOld
      BY <1>3, Constants DEF Reset, MqttReset
    <3> QED BY <1>0, <1>3, <3>1 DEF Reset, MqttReset, MqttType
  <2>4. ValuesType'
    BY <1>0, <1>3, SameValues DEF Reset, MqttReset
  <2> QED BY <1>t, <2>1, <2>2, <2>3, <2>4
<1>4. CASE WifiStep
  <2>1. LinksType'
    BY <1>0, <1>4 DEF WifiStep, Station, GotIp, Disconnected, AfterDisconnect, Reconnect, Fade,
                      Return, cloudVars, mainVars, LinksType
  <2> QED BY <1>0, <1>4, <1>t, <2>1, SameMqtt DEF WifiStep, mainVars
<1>5. CASE CloudStep
  <2>1. LinksType'
    BY <1>0, <1>5 DEF CloudStep, CloudConnected, CloudDisconnected, Subscribes, wifiVars, mainVars,
                      LinksType
  <2> QED BY <1>0, <1>5, <1>t, <2>1, SameMqtt DEF CloudStep, mainVars
<1> QED BY <1>1, <1>2, <1>3, <1>4, <1>5 DEF AppMain

LEMMA MainLinks == TypeOK /\ LinksInv /\ (AppMain \/ Reset \/ WifiStep \/ CloudStep) => LinksInv'
<1> SUFFICES ASSUME TypeOK, LinksInv, AppMain \/ Reset \/ WifiStep \/ CloudStep PROVE LinksInv'
  OBVIOUS
<1>1. CASE StartNetwork \/ WifiTimeout \/ WifiCame
  BY <1>1 DEF StartNetwork, StartWifi, WifiTimeout, WifiCame, StartMqtt, TypeOK, LinksInv,
              wifiVars, cloudVars, mqttVars, deviceVars, brokerVars
<1>2. CASE StartTheCloud
  <2>1. PICK c, x : /\ c \in BOOLEAN /\ x \in BOOLEAN
                    /\ IF c THEN cloud' = "down" /\ model' = x /\ UNCHANGED <<subscribed, pub_task>>
                            ELSE UNCHANGED cloudVars
    BY <1>2, Zenon DEF StartTheCloud, StartCloud
  <2> QED BY <1>2, <2>1
          DEF StartTheCloud, TypeOK, LinksInv, wifiVars, cloudVars, mqttVars, deviceVars, brokerVars
<1>3. CASE Reset
  BY <1>3 DEF Reset, WifiReset, CloudReset, MqttReset, LinksInv
<1>4. CASE WifiStep
  BY <1>4 DEF WifiStep, Station, GotIp, Disconnected, AfterDisconnect, Reconnect, Fade, Return,
              cloudVars, mqttVars, deviceVars, brokerVars, mainVars, LinksInv
<1>5. CASE CloudStep
  <2>1. UNCHANGED <<wifiVars, conn, mqtt_bit, phase>>
    BY <1>5 DEF CloudStep, mqttVars, deviceVars, mainVars
  <2>2. /\ cloud \in {"down", "up"} /\ cloud' \in {"down", "up"} /\ model' = model
        /\ subscribed' <=> cloud' = "up" /\ model
        /\ pub_task' <=> pub_task \/ (cloud' = "up" /\ model)
    BY <1>5 DEF CloudStep, CloudConnected, CloudDisconnected, Subscribes, TypeOK, LinksInv
  <2> QED BY <2>1, <2>2 DEF wifiVars, TypeOK, LinksInv
<1> QED BY <1>1, <1>2, <1>3, <1>4, <1>5 DEF AppMain

(* Steps that are no business of the session, nor of what is retained,     *)
(* leave the invariant alone.                                              *)
LEMMA SameSession ==
  ASSUME SessionInv, RetainedInv, UNCHANGED <<sessions, avail, rcvd, retained, type>>,
         conn' = conn \/ conn' = "down" \/ conn' = "none",
         conn' = "up" => conf'.discovery = conf.discovery /\ conf'.account = conf.account
  PROVE  SessionInv' /\ RetainedInv'
<1>1. Announcing' => Announcing
  BY DEF Announcing
<1>2. SessionInv'
  BY <1>1 DEF SessionInv
<1>3. RetainedInv'
  BY <1>1 DEF RetainedInv, Announcing
<1> QED BY <1>2, <1>3

LEMMA MainRest ==
  BridgesInv /\ (AppMain \/ Reset \/ WifiStep \/ CloudStep) => SessionInv' /\ RetainedInv'
<1> SUFFICES ASSUME BridgesInv, AppMain \/ Reset \/ WifiStep \/ CloudStep
             PROVE  SessionInv' /\ RetainedInv'
  OBVIOUS
<1>0. SessionInv /\ RetainedInv
  BY DEF BridgesInv
<1>1. CASE AppMain /\ ~StartTheCloud
  BY <1>0, <1>1, SameSession
     DEF AppMain, StartNetwork, WifiTimeout, WifiCame, StartMqtt, mqttVars, deviceVars, brokerVars
<1>2. CASE StartTheCloud
  <2>1. UNCHANGED <<sessions, avail, rcvd, retained, type, conn>>
    BY <1>2 DEF StartTheCloud, mqttVars, deviceVars, brokerVars
  <2>2. PICK x : conf' = [conf EXCEPT !.cached = conf.cached \/ x]
    BY <1>2, Zenon DEF StartTheCloud
  <2>3. conf'.discovery = conf.discovery /\ conf'.account = conf.account
    BY <2>2 DEF BridgesInv, TypeOK, Setting
  <2> QED BY <1>0, <2>1, <2>3, SameSession
<1>3. CASE Reset
  <2>1. conn' = "none" /\ UNCHANGED <<sessions, avail, retained, type>>
    BY <1>3 DEF Reset, MqttReset
  <2> QED BY <1>0, <2>1 DEF SessionInv, RetainedInv, Announcing
<1>4. CASE WifiStep \/ CloudStep
  BY <1>0, <1>4, SameSession DEF WifiStep, CloudStep, mqttVars, deviceVars, brokerVars, mainVars
<1> QED BY <1>1, <1>2, <1>3, <1>4

LEMMA MainKeeps == BridgesInv /\ (AppMain \/ Reset \/ WifiStep \/ CloudStep) => BridgesInv'
  BY MainType, MainLinks, MainRest DEF BridgesInv

LEMMA BridgeKeeps == BridgesInv /\ BridgeStep => BridgesInv'
<1> SUFFICES ASSUME BridgesInv, BridgeStep PROVE BridgesInv'
  OBVIOUS
<1>0. conf' = conf /\ UNCHANGED <<wifiVars, cloudVars, phase>>
  BY DEF BridgeStep, mainVars
<1>i. LinksInv /\ SessionInv /\ RetainedInv /\ LinksType /\ MqttType /\ ValuesType /\ conf \in Setting
  BY TypeParts DEF BridgesInv
<1>l. LinksType' /\ conf' \in Setting
  BY <1>0, <1>i, SameLinks
<1>t. MqttType' /\ ValuesType' => TypeOK'
  BY <1>l DEF LinksType, MqttType, ValuesType, TypeOK
<1>1. CASE MqttConnected(Reachable, conf.discovery)
  <2>1. MqttType'
    <3>1. rcvd' \in 0..Last
      BY <1>1, Constants DEF MqttConnected, Announce
    <3>2. /\ sessions' \in [ClientIds -> {"none", "bridge", "test"}]
          /\ avail' \in {"none", "online", "offline"}
      BY <1>i, <1>1, Constants DEF MqttConnected, Connect, LastWill, MqttType
    <3> QED BY <1>i, <1>1, <3>1, <3>2 DEF MqttConnected, MqttType
  <2>2. ValuesType'
    BY <1>1 DEF MqttConnected, NoValues, ValuesType
  <2>3. LinksInv'
    BY <1>0, <1>i, <1>1 DEF MqttConnected, wifiVars, cloudVars, LinksInv
  <2>4. Announcing' => rcvd' = 0
    BY <1>0, <1>1, Constants DEF MqttConnected, Announce, Announcing
  <2>5. SessionInv'
    BY <1>i, <1>1, <2>4, Constants DEF MqttConnected, Connect, LastWill, MqttType, SessionInv
  <2>6. RetainedInv'
    <3>1. \A i \in Sections : ~(i <= 0)
      BY Constants
    <3> QED BY <1>i, <1>1, <2>4, <3>1 DEF MqttConnected, RetainedInv
  <2> QED BY <1>t, <2>1, <2>2, <2>3, <2>5, <2>6 DEF BridgesInv
<1>2. CASE MqttDisconnected(Reachable)
  <2>1. MqttType'
    <3>1. rcvd' \in 0..Last /\ old' \in 1..NoOld
      BY <1>i, <1>2, Constants DEF MqttDisconnected, Smaller, MqttType
    <3> QED BY <1>i, <1>2, <3>1 DEF MqttDisconnected, brokerVars, MqttType
  <2>2. ValuesType'
    BY <1>i, <1>2, SameValues DEF MqttDisconnected, brokerVars
  <2>3. LinksInv'
    BY <1>0, <1>i, <1>2 DEF MqttDisconnected, wifiVars, cloudVars, LinksInv
  <2>4. SessionInv' /\ RetainedInv'
    BY <1>i, <1>2 DEF MqttDisconnected, brokerVars, SessionInv, RetainedInv, Announcing
  <2> QED BY <1>t, <2>1, <2>2, <2>3, <2>4 DEF BridgesInv
<1>3. CASE PublishState(Reachable)
  <2>1. MqttType'
    BY <1>i, <1>3 DEF PublishState, deviceVars, MqttType
  <2>2. ValuesType'
    BY <1>3 DEF PublishState, deviceVars, ValuesType
  <2>3. LinksInv'
    BY <1>0, <1>i, <1>3 DEF PublishState, deviceVars, wifiVars, cloudVars, LinksInv
  <2>4. SessionInv' /\ RetainedInv'
    BY <1>0, <1>i, <1>3, SameSession DEF PublishState, deviceVars
  <2> QED BY <1>t, <2>1, <2>2, <2>3, <2>4 DEF BridgesInv
<1> QED BY <1>1, <1>2, <1>3 DEF BridgeStep

(* A section that takes effect, late or not, keeps what the sections       *)
(* before it have achieved, and achieves its own.                          *)
LEMMA SectionApplied ==
  ASSUME BridgesInv, NEW i \in Sections, Apply(i, conf.account)
  PROVE  /\ retained' \subseteq EntityIds[type][TRUE] \union Legacy
         /\ AnnouncedIds[i][type][conf.account] \subseteq retained'
         /\ Deleted[i][type][conf.account] \intersect retained' = {}
         /\ \A j \in Sections :
              /\ AnnouncedIds[j][type][conf.account] \subseteq retained
              /\ Deleted[j][type][conf.account] \intersect retained = {}
              => /\ AnnouncedIds[j][type][conf.account] \subseteq retained'
                 /\ Deleted[j][type][conf.account] \intersect retained' = {}
<1> DEFINE Yes(j) == AnnouncedIds[j][type][conf.account]
           No(j) == Deleted[j][type][conf.account]
<1>1. type \in StoveTypes /\ conf.account \in BOOLEAN
  BY TypesAssumption DEF BridgesInv, TypeOK, Setting
<1>2. retained' = (retained \ No(i)) \union Yes(i)
  BY Constants DEF Apply
<1>3. Yes(i) \subseteq EntityIds[type][TRUE]
  <2>1. Yes(i) \subseteq EntityIds[type][conf.account]
    BY <1>1, EntitiesAre, Constants
  <2> QED BY <1>1, <2>1, IdsAreKnown
<1>4. \A j, k \in Sections : Yes(j) \intersect No(k) = {}
  BY <1>1, NoClash
<1>5. retained \subseteq EntityIds[type][TRUE] \union Legacy
  BY DEF BridgesInv, RetainedInv
<1> HIDE DEF Yes, No
<1>6. /\ retained' \subseteq EntityIds[type][TRUE] \union Legacy
      /\ Yes(i) \subseteq retained'
      /\ No(i) \intersect retained' = {}
  BY <1>2, <1>3, <1>4, <1>5
<1>7. ASSUME NEW j \in Sections, Yes(j) \subseteq retained, No(j) \intersect retained = {}
      PROVE  Yes(j) \subseteq retained' /\ No(j) \intersect retained' = {}
  BY <1>2, <1>4, <1>7
<1> QED BY <1>6, <1>7 DEF Yes, No

LEMMA BrokerKeeps == BridgesInv /\ BrokerStep => BridgesInv'
<1> SUFFICES ASSUME BridgesInv, BrokerStep PROVE BridgesInv'
  OBVIOUS
<1>0. conf' = conf /\ UNCHANGED <<wifiVars, cloudVars, phase>>
  BY DEF BrokerStep, mainVars
<1>l. UNCHANGED <<conn, mqtt_bit, type, values>>
  BY DEF BrokerStep, Expire, Deliver, DeliverOld, DropOld, deviceVars, brokerVars
<1>k. LinksInv'
  BY <1>0, <1>l DEF BridgesInv, LinksInv, wifiVars, cloudVars
<1>t. \A X : X \subseteq EntityIds[type][TRUE] \union Legacy
               => X \subseteq KnownIds \union Legacy
  <2>1. type \in StoveTypes
    BY TypesAssumption DEF BridgesInv, TypeOK
  <2>2. EntityIds[type][TRUE] \subseteq KnownIds
    BY <2>1, IdsAreKnown
  <2> QED BY <2>2
<1>1. CASE Expire(Reachable)
  <2>1. TypeOK'
    BY <1>0, <1>1, Constants
       DEF Expire, LastWill, deviceVars, wifiVars, cloudVars, BridgesInv, TypeOK
  <2>2. SessionInv'
    BY <1>0, <1>1, Constants
       DEF Expire, LastWill, deviceVars, BridgesInv, TypeOK, SessionInv, Announcing
  <2>3. RetainedInv'
    BY <1>0, <1>1, Constants
       DEF Expire, deviceVars, BridgesInv, TypeOK, RetainedInv, Announcing
  <2> QED BY <1>k, <2>1, <2>2, <2>3 DEF BridgesInv
<1>2. ASSUME NEW i \in 1..Last, Alive(Reachable), Apply(i, conf.account), sessions' = sessions,
             \/ i = rcvd + 1 /\ rcvd' = i /\ old' = old
             \/ rcvd' = rcvd /\ old' = old + 1 /\ old <= Last,
             testing' = testing
      PROVE  BridgesInv'
  <2>0. Alive(Reachable) => conn = "up" /\ sessions[MainId] = "bridge"
    BY DEF Alive
  <2>1. rcvd \in 0..4 /\ old \in 1..5 /\ rcvd' \in 0..4 /\ old' \in 1..5
    BY <1>2, Constants DEF BridgesInv, TypeOK
  <2>2. CASE i = Last
    <3>1. avail' = "online" /\ retained' = retained
      BY <1>2, <2>2 DEF Apply
    <3>2. TypeOK'
      BY <1>0, <1>l, <1>2, <2>1, <3>1, Constants DEF BridgesInv, TypeOK, wifiVars, cloudVars
    <3>3. SessionInv'
      BY <1>0, <1>l, <1>2, <2>0, <3>1 DEF BridgesInv, SessionInv, Announcing
    <3>4. RetainedInv'
      <4>1. Announcing' => Announcing
        BY <1>0, <1>l, <1>2 DEF Announcing
      <4>2. \A j \in Sections : j <= rcvd' => j <= rcvd
        BY <1>2, <2>1, <2>2, Constants
      <4> QED BY <1>0, <1>l, <3>1, <4>1, <4>2 DEF BridgesInv, RetainedInv
    <3> QED BY <1>k, <3>2, <3>3, <3>4 DEF BridgesInv
  <2>3. CASE i # Last
    <3>0. i \in Sections /\ avail' = avail
      BY <1>2, <2>3, Constants DEF Apply
    <3>1. /\ retained' \subseteq EntityIds[type][TRUE] \union Legacy
          /\ AnnouncedIds[i][type][conf.account] \subseteq retained'
          /\ Deleted[i][type][conf.account] \intersect retained' = {}
          /\ \A j \in Sections :
               /\ AnnouncedIds[j][type][conf.account] \subseteq retained
               /\ Deleted[j][type][conf.account] \intersect retained = {}
               => /\ AnnouncedIds[j][type][conf.account] \subseteq retained'
                  /\ Deleted[j][type][conf.account] \intersect retained' = {}
      BY <1>2, <3>0, SectionApplied
    <3>2. TypeOK'
      <4>1. retained' \subseteq KnownIds \union Legacy
        BY <1>t, <3>1
      <4>2. rcvd' \in 0..Last /\ old' \in 1..NoOld
        BY <2>1, Constants
      <4> QED BY <1>0, <1>l, <1>2, <3>0, <4>1, <4>2 DEF BridgesInv, TypeOK, wifiVars, cloudVars
    <3>3. SessionInv'
      <4>1. rcvd' = Last => rcvd = Last
        BY <1>2, <2>3
      <4> QED BY <1>0, <1>l, <1>2, <3>0, <4>1 DEF BridgesInv, SessionInv, Announcing
    <3>4. RetainedInv'
      <4>1. Announcing' => Announcing
        BY <1>0, <1>l, <1>2 DEF Announcing
      <4>2. \A j \in Sections : j <= rcvd' => j <= rcvd \/ j = i
        BY <1>2, <2>1, Constants
      <4>3. RetainedInv
        BY DEF BridgesInv
      <4> QED BY <1>0, <1>l, <3>1, <4>1, <4>2, <4>3 DEF RetainedInv
    <3> QED BY <1>k, <3>2, <3>3, <3>4 DEF BridgesInv
  <2> QED BY <2>2, <2>3
<1>3. CASE Deliver(Reachable, conf.account)
  <2>1. rcvd + 1 \in 1..Last
    BY <1>3, Constants DEF Deliver, BridgesInv, TypeOK
  <2> QED BY <1>2, <1>3, <2>1 DEF Deliver
<1>4. CASE DeliverOld(Reachable, conf.account)
  <2>1. old \in 1..Last
    BY <1>4, Constants DEF DeliverOld, BridgesInv, TypeOK
  <2> QED BY <1>2, <1>4, <2>1 DEF DeliverOld
<1>5. CASE DropOld
  <2>1. TypeOK'
    BY <1>0, <1>5, Constants DEF DropOld, brokerVars, wifiVars, cloudVars, BridgesInv, TypeOK
  <2>2. SessionInv' /\ RetainedInv'
    BY <1>0, <1>5, SameSession DEF DropOld, brokerVars, BridgesInv
  <2> QED BY <1>k, <2>1, <2>2 DEF BridgesInv
<1> QED BY <1>1, <1>3, <1>4, <1>5 DEF BrokerStep

LEMMA TestKeeps == BridgesInv /\ TestStep => BridgesInv'
<1> SUFFICES ASSUME BridgesInv, TestStep PROVE BridgesInv'
  OBVIOUS
<1>0. conf' = conf /\ UNCHANGED <<wifiVars, cloudVars, phase>>
  BY DEF TestStep, mainVars
<1>1. UNCHANGED <<conn, mqtt_bit, rcvd, old, type, retained, values>>
  BY DEF TestStep, StartTest, TestConnected, EndTest, brokerVars
<1>2. LinksInv'
  BY <1>0, <1>1 DEF BridgesInv, LinksInv, wifiVars, cloudVars
<1>3. /\ sessions' \in [ClientIds -> {"none", "bridge", "test"}]
      /\ sessions'[MainId] = sessions[MainId] /\ sessions'[TestId] # "bridge"
      /\ avail' = avail /\ testing' \in {"idle", "opening", "ok"}
  BY Constants DEF TestStep, StartTest, TestConnected, Connect, EndTest, brokerVars, BridgesInv,
                   TypeOK, SessionInv
<1>4. TypeOK'
  BY <1>0, <1>1, <1>3 DEF BridgesInv, TypeOK, wifiVars, cloudVars
<1>5. SessionInv' /\ RetainedInv'
  BY <1>0, <1>1, <1>3 DEF BridgesInv, SessionInv, RetainedInv, Announcing
<1> QED BY <1>2, <1>4, <1>5 DEF BridgesInv

LEMMA StepKeeps == BridgesInv /\ [Next]_vars => BridgesInv'
<1>1. BridgesInv /\ UNCHANGED vars => BridgesInv'
  <2> SUFFICES ASSUME BridgesInv, UNCHANGED vars PROVE BridgesInv'
    OBVIOUS
  <2>1. TypeOK'
    BY DEF vars, wifiVars, cloudVars, mqttVars, deviceVars, brokerVars, BridgesInv, TypeOK
  <2>2. LinksInv'
    BY DEF vars, wifiVars, cloudVars, mqttVars, deviceVars, BridgesInv, LinksInv
  <2>3. SessionInv' /\ RetainedInv'
    BY SameSession DEF vars, mqttVars, deviceVars, brokerVars, BridgesInv
  <2> QED BY <2>1, <2>2, <2>3 DEF BridgesInv
<1> QED BY <1>1, MainKeeps, BridgeKeeps, BrokerKeeps, TestKeeps DEF Next

(* The state of the bridges is consistent: the bits app_main and the tasks *)
(* wait for are true to the connections, each client id has one client,    *)
(* and what is retained is as the sections that arrived left it.           *)
THEOREM BridgesConsistent == Spec => []BridgesInv
  BY InitInv, StepKeeps, PTL DEF Spec

(* The retained availability is "online" over every session whose          *)
(* discovery has arrived, and never once the broker has given the session  *)
(* up (mqtt_bridge_start's last will, mqtt_bridge_publish_discovery).      *)
THEOREM AvailabilityRight == Spec => []Availability
<1>1. BridgesInv => Availability
  BY DEF BridgesInv, SessionInv, Availability, Discovered, Alive, Announcing
<1> QED BY <1>1, BridgesConsistent, PTL

(* The sections together leave what they announce and nothing else. *)
LEMMA Current == BridgesInv => EntitiesCurrent
<1> SUFFICES ASSUME BridgesInv, Discovered PROVE retained = EntityIds[type][conf.account]
  BY DEF EntitiesCurrent
<1>1. type \in StoveTypes /\ conf.account \in BOOLEAN
  BY TypesAssumption DEF BridgesInv, TypeOK, Setting
<1>2. Announcing /\ \A i \in Sections : i <= rcvd
  BY Constants DEF Discovered, Alive, Announcing
<1>3. /\ retained \subseteq EntityIds[type][TRUE] \union Legacy
      /\ \A i \in Sections : /\ AnnouncedIds[i][type][conf.account] \subseteq retained
                             /\ Deleted[i][type][conf.account] \intersect retained = {}
  BY <1>2 DEF BridgesInv, RetainedInv
<1>4. EntityIds[type][conf.account] \subseteq retained
  BY <1>1, <1>3, EntitiesAre, Constants
<1>5. retained \subseteq EntityIds[type][conf.account]
  BY <1>1, <1>3, NoLeftover
<1> QED BY <1>4, <1>5

(* After a discovery the broker retains the announcements of this stove    *)
(* and this configuration and no others, whatever was retained before and  *)
(* whatever is sent again (mqtt_bridge_publish_discovery).                 *)
THEOREM EntitiesAreCurrent == Spec => []EntitiesCurrent
  BY Current, BridgesConsistent, PTL

(* Whatever Home Assistant was told to read is published where it was told *)
(* to read it (mqtt_bridge_publish_discovery, mqtt_bridge_publish_state).  *)
THEOREM EntitiesAreFed == Spec => []EntitiesFed
<1>1. BridgesInv => EntitiesFed
  <2> SUFFICES ASSUME BridgesInv, Discovered, NEW e \in KnownEntities,
                      e.id \in retained, e.topic # "", values[e.topic] # {}
               PROVE  e.reads \subseteq values[e.topic]
    BY DEF EntitiesFed
  <2>1. type \in StoveTypes /\ conf.account \in BOOLEAN
    BY TypesAssumption DEF BridgesInv, TypeOK, Setting
  <2>2. e.id \in EntityIds[type][conf.account]
    BY Current DEF EntitiesCurrent
  <2>3. e.topic \in Topics /\ e.reads \subseteq Published[type][e.topic]
    BY <2>1, <2>2, AnnouncedFed
  <2>4. values[e.topic] = Published[type][e.topic]
    BY <2>3 DEF BridgesInv, TypeOK
  <2> QED BY <2>3, <2>4
<1> QED BY <1>1, BridgesConsistent, PTL

(* Neither mqtt_bridge_test nor anything else but a lost network or a      *)
(* reset ends the session of the bridge.                                   *)
THEOREM SessionIsKept == Spec => SessionKept
<1>1. BridgesInv /\ [Next]_vars =>
        [sessions[MainId] = "bridge" /\ sessions'[MainId] # "bridge" => ~Alive(Reachable)]_vars
  <2> SUFFICES ASSUME BridgesInv, [Next]_vars,
                      sessions[MainId] = "bridge", sessions'[MainId] # "bridge"
               PROVE  ~Alive(Reachable)
    OBVIOUS
  <2>1. sessions' # sessions
    OBVIOUS
  <2>2. ~(AppMain \/ Reset \/ WifiStep \/ CloudStep \/ UNCHANGED vars)
    BY <2>1 DEF AppMain, StartNetwork, WifiTimeout, WifiCame, StartMqtt, StartTheCloud, Reset,
                MqttReset, WifiStep, CloudStep, vars, mqttVars, deviceVars, brokerVars
  <2>3. CASE BridgeStep
    BY <2>1, <2>3, Constants
       DEF BridgeStep, MqttConnected, Connect, MqttDisconnected, PublishState, brokerVars,
           BridgesInv, TypeOK
  <2>4. CASE BrokerStep
    BY <2>1, <2>4 DEF BrokerStep, Expire, Deliver, DeliverOld, DropOld, brokerVars
  <2>5. CASE TestStep
    BY <2>1, <2>5, Constants
       DEF TestStep, StartTest, TestConnected, Connect, EndTest, brokerVars, BridgesInv, TypeOK,
           SessionInv
  <2> QED BY <2>2, <2>3, <2>4, <2>5 DEF Next
<1> QED BY <1>1, BridgesConsistent, PTL DEF Spec, SessionKept
==============================================================================
