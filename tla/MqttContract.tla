---------------------------- MODULE MqttContract -----------------------------
(***************************************************************************)
(* What mqtt_bridge.c says to Home Assistant: the entities its discovery   *)
(* announces, section by section in the order of                           *)
(* mqtt_bridge_publish_discovery, the retained announcements it deletes,   *)
(* and the items of the JSON objects mqtt_bridge_publish_state publishes.  *)
(*                                                                         *)
(* An announcement is known to the broker by its component, its object id  *)
(* and, for what exists once per programme of the chrono, the programme.   *)
(* Names, units, icons and the arithmetic of the templates are left out:   *)
(* of a template, the items of the payload it reads are kept.              *)
(***************************************************************************)
EXTENDS Integers

CONSTANT Progs   \* the programmes of the chrono, 1..4 in the code

ASSUME ProgsAssumption == Progs \subseteq 1..4

StoveTypes ==
  {"I_CALD", "I_IDRO", "I_IDRO_2", "I_VENT", "I_VENT_2", "I_VENT_3", "I_VENT_4", "I_VENT_5",
   "I_CANAL", "I_CANAL_2", "I_CANAL_3", "I_CANAL_4"}

Hydro == {"I_CALD", "I_IDRO", "I_IDRO_2"}

Id(component, object, prog) == <<component, object, prog>>

(* An item of a payload; prog is 0 outside the array of the programmes.    *)
Item(name, prog) == <<name, prog>>

(* An entity: its announcement, the topic of its state, the items its      *)
(* template reads there, and the last part of its command topic.           *)
Entity(id, topic, reads, command) ==
  [id |-> id, topic |-> topic, reads |-> reads, command |-> command]

Show(component, object, name) == Entity(Id(component, object, 0), "state", {Item(name, 0)}, "")

(* Entities that bear the name of the item they show. *)
ShowAll(component, names) == {Show(component, n, n) : n \in names}

On(component, object, topic, name) ==
  Entity(Id(component, object, 0), topic, {Item(name, 0)}, "")

Button(object) == Entity(Id("button", object, 0), "", {}, object)

Items(names) == {Item(n, 0) : n \in names}

AlarmBits ==
  {"alarm_sonda_fumi", "alarm_hot_fumi", "alarm_fumi_corto", "alarm_aspiratore",
   "alarm_no_accensione", "alarm_no_fiamma", "alarm_depression", "alarm_coclea_cmd"}

------------------------------------------------------------------------------
(* The sections of mqtt_bridge_publish_discovery *)

Water == Show("sensor", "t_water", "t_water")

Measures(type) ==
  ShowAll("sensor", {"t_ambient", "t_smoke", "power_real"})
    \union {Show("sensor", "power_level", "power"), Show("sensor", "alarm_code", "alarm")}
    \union (IF type \in Hydro THEN {Water} ELSE {})

(* Mutant: nothing removes the temperature of the water. *)
DryDeletesForgotten(type) == {}

(* A stove without water deletes what an earlier firmware announced. *)
DryDeletes(type) == IF type \in Hydro THEN {} ELSE {Water.id}

Counters == ShowAll("sensor",
  {"hours_total", "starts_total", "hours_p1", "hours_p2", "hours_p3", "hours_p4", "hours_p5"})

Pellets ==
  ShowAll("sensor", {"pellets_total_kg", "pellets_remaining_kg", "pellets_kg_per_day",
                     "pellets_days_left", "pellets_empty_ts"})
    \union {Show("sensor", "pellets_cost_lifetime", "pellets_cost_lifetime_eur")}

(* The announcements of earlier firmwares, of another component or name. *)
ChronoDeletes ==
  {Id("binary_sensor", "chrono_master", 0)}
    \union {Id("sensor", o, n) : o \in {"chrono_prog", "chrono_prog_sum", "chrono_prog_sum_v2"},
                                 n \in Progs}
    \union {Id("text", o, n) : o \in {"chrono_prog_sum_txt", "chrono_prog_start",
                                      "chrono_prog_stop"}, n \in Progs}

ProgReads == {"enabled", "start", "stop", "temp_c"}

ChronoEntity(component, object, reads, command, n) ==
  Entity(Id(component, object, n), "chrono", {Item(r, n) : r \in reads}, command)

ChronoSummaries == {ChronoEntity("sensor", "chrono_prog_sum_v3", ProgReads, "", n) : n \in Progs}

ChronoControls ==
  {Entity(Id("switch", "chrono_master", 0), "chrono", Items({"master_enabled"}), "chrono_master")}
    \union UNION {{
      ChronoEntity("switch", "chrono_prog_enable", {"enabled"}, "chrono_enable", n),
      ChronoEntity("number", "chrono_prog_temp", {"temp_c"}, "chrono_temp", n),
      ChronoEntity("time", "chrono_prog_start", {"start"}, "chrono_start", n),
      ChronoEntity("time", "chrono_prog_stop", {"stop"}, "chrono_stop", n)} : n \in Progs}

StateAndAlarms ==
  {Show("sensor", "state", "state"), Show("binary_sensor", "safe_mode_next", "safe_mode_next"),
   Show("sensor", "uptime", "uptime_s"), Show("sensor", "last_boot", "uptime_s"),
   Show("binary_sensor", "online", "online")}
    \union ShowAll("binary_sensor", AlarmBits)

Maintenance ==
  ShowAll("sensor", {"hours_before_service", "hours_since_service", "starts_before_cleaning",
                     "starts_since_cleaning", "modulation"})
    \union {Entity(Id("sensor", "history_alarms", 0), "history_alarms",
                   Items({"count", "events"}), ""),
            On("sensor", "params_tech", "params_tech", "divergent_count"),
            On("sensor", "combustion_diag", "combustion_diag", "severity"),
            Show("binary_sensor", "tremie_vide", "tremie_vide")}

ResetButtons == {Button("reset_service"), Button("reset_cleaning"), Button("rollback_firmware")}

CloudSwitch == Entity(Id("switch", "cloud", 0), "state", Items({"cloud_enabled"}), "cloud_toggle")

(* The switch is there for those who gave an account. *)
CloudEntities(account) ==
  {Show("binary_sensor", "cloud_connected", "cloud_connected")}
    \union (IF account THEN {CloudSwitch} ELSE {})

CloudDeletes(account) ==
  {Id("binary_sensor", "cloud_enabled", 0)} \union (IF account THEN {} ELSE {CloudSwitch.id})

StoveControls ==
  {Entity(Id("switch", "on_off", 0), "state", Items({"state"}), "on"),
   Button("reset_alarm"),
   Entity(Id("number", "setpoint", 0), "state", Items({"setpoint"}), "setpoint"),
   Entity(Id("select", "power_level_cmd", 0), "state", Items({"power"}), "power")}

(* What a third of the discovery deletes and announces; its last message   *)
(* is the availability.                                                    *)
LastSection == 3
Sections == 1..LastSection

Announced == [section \in Sections |-> [type \in StoveTypes |-> [account \in BOOLEAN |->
  CASE section = 1 -> Measures(type) \union Counters \union Pellets
    [] section = 2 -> ChronoSummaries \union ChronoControls \union StateAndAlarms
                        \union Maintenance \union ResetButtons
    [] section = 3 -> CloudEntities(account) \union StoveControls]]]

Deleted == [section \in Sections |-> [type \in StoveTypes |-> [account \in BOOLEAN |->
  CASE section = 1 -> DryDeletes(type)
    [] section = 2 -> ChronoDeletes
    [] section = 3 -> CloudDeletes(account)]]]

Entities == [type \in StoveTypes |-> [account \in BOOLEAN |->
  UNION {Announced[s][type][account] : s \in Sections}]]

Ids(entities) == {e.id : e \in entities}

AnnouncedIds == [section \in Sections |-> [type \in StoveTypes |-> [account \in BOOLEAN |->
  Ids(Announced[section][type][account])]]]

EntityIds == [type \in StoveTypes |-> [account \in BOOLEAN |-> Ids(Entities[type][account])]]

------------------------------------------------------------------------------
(* The payloads of mqtt_bridge_publish_state *)

(* Mutant: the temperature of the water is published for two of the types. *)
StateItemsNoCald(type) ==
  Items({"online", "state", "power", "power_real", "alarm", "t_ambient", "t_smoke", "setpoint"})
    \union (IF type \in {"I_IDRO", "I_IDRO_2"} THEN Items({"t_water"}) ELSE {})

StateItems(type) ==
  Items({"online", "state", "power", "power_real", "alarm", "t_ambient", "t_smoke", "setpoint"})
    \union (IF type \in Hydro THEN Items({"t_water"}) ELSE {})

CounterItems == Items(
  {"hours_total", "starts_total", "hours_p1", "hours_p2", "hours_p3", "hours_p4", "hours_p5",
   "pellets_total_kg", "pellets_since_refill_kg", "pellets_remaining_kg",
   "pellets_cost_lifetime_eur", "pellets_days_left", "pellets_kg_per_day", "pellets_empty_ts"})

StatusItems == Items(AlarmBits) \union Items(
  {"hours_since_service", "hours_before_service", "starts_since_cleaning",
   "starts_before_cleaning", "tremie_vide", "modulation", "causa_stato7", "cloud_enabled",
   "cloud_connected", "uptime_s", "safe_mode_next"})

(* mn_chrono_json *)
ChronoItems ==
  Items({"master_enabled"}) \union {Item(r, n) : r \in ProgReads \union {"days"}, n \in Progs}

PelletItems == Items(
  {"tank_capacity_kg", "sack_size_kg", "price_per_sack", "winter_days", "consumption_p1",
   "consumption_p2", "consumption_p3", "consumption_p4", "consumption_p5"})

Topics == {"state", "chrono", "history_alarms", "params_tech", "combustion_diag", "pellet"}

Published == [type \in StoveTypes |-> [topic \in Topics |->
  CASE topic = "state" -> StateItems(type) \union CounterItems \union StatusItems
    [] topic = "chrono" -> ChronoItems
    [] topic = "history_alarms" -> Items({"events", "count"})
    [] topic = "params_tech" -> Items({"params", "divergent_count"})
    [] topic = "combustion_diag" -> Items({"diagnostics", "severity"})
    [] topic = "pellet" -> PelletItems]]
==============================================================================
