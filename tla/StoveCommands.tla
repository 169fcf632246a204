---------------------------- MODULE StoveCommands ----------------------------
(***************************************************************************)
(* The controls of the stove and the registers they end in.  Three parts   *)
(* of the firmware turn a request into a call of mn_write_register: the    *)
(* MQTT bridge (handle_command), the cloud bridge (handle_in_settings) and *)
(* the web server (handle_stove_cmd and the chrono form).  What users see  *)
(* of a control is read back from the same mirror of the registers.        *)
(*                                                                         *)
(* A control is a command and a programme of the chrono, 0 for the others. *)
(* A value is what the user chose: degrees, a level, minutes since         *)
(* midnight, 1 for on and 0 for off.  Between mn_write_register and the    *)
(* stove lie the queue and the bus, which modules WriteQueue and StoveBus  *)
(* describe.                                                               *)
(***************************************************************************)
EXTENDS MqttContract

CONSTANTS
  Setpoints, Levels, Temps, Times   \* what users choose among

ASSUME OptionsAssumption ==
  /\ Setpoints \subseteq 10..30 /\ Levels \subseteq 1..5 /\ Temps \subseteq 1..30
  /\ Times \subseteq 0..1439

VARIABLES
  shadow,  \* mn_ram_shadow, the registers below
  asked    \* history: what was last asked of each control, by anybody

vars == <<shadow, asked>>

(* The addresses of micronova.h *)
StoveState == 33
TempSet == 381
PowerSet == 383
ChronoMaster == 430
ChronoEnabled == <<431, 432, 433, 434>>
ChronoStart == <<333, 343, 353, 363>>

Registers ==
  {StoveState, TempSet, PowerSet, ChronoMaster}
    \union {ChronoEnabled[n] : n \in Progs}
    \union {ChronoStart[n] + k : n \in Progs, k \in 0..9}

ProgCommands == {"chrono_enable", "chrono_start", "chrono_stop", "chrono_temp"}

Controls ==
  {<<c, 0>> : c \in {"on", "setpoint", "power", "chrono_master"}}
    \union {<<c, n>> : c \in ProgCommands, n \in Progs}

OnOff == <<"on", 0>>
Power == <<"power", 0>>
Setpoint == <<"setpoint", 0>>

Options(control) ==
  CASE control[1] \in {"on", "chrono_master", "chrono_enable"} -> {0, 1}
    [] control[1] = "setpoint" -> Setpoints
    [] control[1] = "power" -> Levels
    [] control[1] = "chrono_temp" -> Temps
    [] OTHER -> Times

Byte(v) == v % 256

(* A time of the chrono is kept in steps of ten minutes. *)
Rounded(control, v) ==
  IF control[1] \in {"chrono_start", "chrono_stop"} THEN (v \div 10) * 10 ELSE v

Burning == {1, 2, 3, 4, 5, 7}

(* What users are shown: the snapshot for the stove, mn_chrono_json for    *)
(* the chrono.                                                             *)
Shown(control, regs) ==
  LET n == control[2]
  IN CASE control[1] = "on" -> IF regs[StoveState] \in Burning THEN 1 ELSE 0
       [] control[1] = "setpoint" -> regs[TempSet]
       [] control[1] = "power" -> regs[PowerSet]
       [] control[1] = "chrono_master" -> IF regs[ChronoMaster] # 0 THEN 1 ELSE 0
       [] control[1] = "chrono_enable" -> IF regs[ChronoEnabled[n]] # 0 THEN 1 ELSE 0
       [] control[1] = "chrono_start" -> regs[ChronoStart[n]] * 10
       [] control[1] = "chrono_stop" -> regs[ChronoStart[n] + 1] * 10
       [] control[1] = "chrono_temp" -> regs[ChronoStart[n] + 9]

Init ==
  /\ shadow = [r \in Registers |-> 0]
  /\ asked = [c \in Controls |-> Shown(c, [r \in Registers |-> 0])]

------------------------------------------------------------------------------
(* A command topic and its payload, as handle_command takes them *)

(* Mutant: the end of a programme is written to the first one. *)
StopOfFirst(n) == ChronoStart[1] + 1

StopRegister(n) == ChronoStart[n] + 1

Written(command, n, v) ==
  CASE command = "on" -> [reg |-> StoveState, value |-> 1]
    [] command = "off" -> [reg |-> StoveState, value |-> 6]
    [] command = "reset_alarm" -> [reg |-> StoveState, value |-> 0]
    [] command = "setpoint" -> [reg |-> TempSet, value |-> Byte(v)]
    [] command = "power" -> [reg |-> PowerSet, value |-> Byte(v)]
    [] command = "chrono_master" -> [reg |-> ChronoMaster, value |-> v]
    [] command = "chrono_enable" -> [reg |-> ChronoEnabled[n], value |-> v]
    [] command = "chrono_start" -> [reg |-> ChronoStart[n], value |-> Byte(v \div 10)]
    [] command = "chrono_stop" -> [reg |-> StopRegister(n), value |-> Byte(v \div 10)]
    [] command = "chrono_temp" -> [reg |-> ChronoStart[n] + 9, value |-> Byte(v)]

Put(regs, w) == [regs EXCEPT ![w.reg] = w.value]

(* The controls Home Assistant offers: the command topic an entity was     *)
(* announced with, and a choice as the payload.                            *)
ControlEntities == {e \in Entities["I_VENT"][FALSE] : <<e.command, e.id[3]>> \in Controls}

HaCommand ==
  \E e \in ControlEntities : \E v \in Options(<<e.command, e.id[3]>>) :
    /\ shadow' = Put(shadow, Written(e.command, e.id[3], v))
    /\ asked' = [asked EXCEPT ![<<e.command, e.id[3]>>] = v]

(* Topics without a payload: a script's "off", the button of the alarm.    *)
Script ==
  \E command \in {"off", "reset_alarm"} :
    /\ shadow' = Put(shadow, Written(command, 0, 1))
    /\ asked' = [asked EXCEPT ![OnOff] = 0]

------------------------------------------------------------------------------
(* The web server: POST /api/stove/..., and the form of the chrono, which  *)
(* writes what it finds of the programme one register after the other.     *)
WebWritten(control, v) ==
  IF control = OnOff THEN [reg |-> StoveState, value |-> IF v = 1 THEN 1 ELSE 6]
                     ELSE Written(control[1], control[2], v)

WebCommand ==
  \E c \in {OnOff, Setpoint, Power} : \E v \in Options(c) :
    /\ shadow' = Put(shadow, WebWritten(c, v))
    /\ asked' = [asked EXCEPT ![c] = v]

(* The form of the chrono: the main switch and, of every programme, its    *)
(* switch, its times, its temperature and, between these in the registers, *)
(* its days, each written in turn.                                         *)
ProgForms == [chrono_enable : {0, 1}, chrono_start : Times, chrono_stop : Times,
              chrono_temp : Temps, day : {0, 1}]

WebChrono ==
  \E master \in {0, 1}, form \in [Progs -> ProgForms] :
    /\ shadow' = [r \in Registers |->
         IF r = ChronoMaster THEN master
         ELSE IF r = StoveState \/ r = TempSet \/ r = PowerSet THEN shadow[r]
         ELSE LET n == CHOOSE n \in Progs : r = ChronoEnabled[n] \/ r - ChronoStart[n] \in 0..9
              IN CASE r = ChronoEnabled[n] -> form[n].chrono_enable
                   [] r = ChronoStart[n] -> Byte(form[n].chrono_start \div 10)
                   [] r = ChronoStart[n] + 1 -> Byte(form[n].chrono_stop \div 10)
                   [] r = ChronoStart[n] + 9 -> Byte(form[n].chrono_temp)
                   [] OTHER -> form[n].day]
    /\ asked' = [c \in Controls |->
         IF c[1] \in ProgCommands THEN form[c[2]][c[1]]
         ELSE IF c[1] = "chrono_master" THEN master ELSE asked[c]]

(* The cloud: IN/settings, with any of its three items. *)
CloudSettings ==
  \E given \in SUBSET {OnOff, Power, Setpoint}, on \in {0, 1}, level \in Levels, temp \in Setpoints :
    /\ shadow' = [shadow EXCEPT
         ![StoveState] = IF OnOff \in given THEN (IF on = 0 THEN 6 ELSE 1) ELSE @,
         ![PowerSet] = IF Power \in given THEN Byte(level) ELSE @,
         ![TempSet] = IF Setpoint \in given THEN Byte(temp) ELSE @]
    /\ asked' = [asked EXCEPT
         ![OnOff] = IF OnOff \in given THEN on ELSE @,
         ![Power] = IF Power \in given THEN level ELSE @,
         ![Setpoint] = IF Setpoint \in given THEN temp ELSE @]

(* The stove itself: somebody at its buttons, or the course of the fire.   *)
Buttons ==
  \E c \in {Setpoint, Power} : \E v \in Options(c) :
    /\ shadow' = Put(shadow, Written(c[1], c[2], v))
    /\ asked' = [asked EXCEPT ![c] = v]

Fire ==
  /\ shadow[StoveState] \in {1, 6}
  /\ shadow' = [shadow EXCEPT ![StoveState] = IF @ = 1 THEN 4 ELSE 0]
  /\ UNCHANGED asked

Next == HaCommand \/ Script \/ WebCommand \/ WebChrono \/ CloudSettings \/ Buttons \/ Fire

Spec == Init /\ [][Next]_vars

------------------------------------------------------------------------------
(* What users are shown of every control is what was last asked of it, by  *)
(* whatever way and whatever was asked of the others: each command ends in *)
(* the register, and in the encoding, its reader expects.  The main switch *)
(* is left to SwitchObeyed.                                                *)
ControlsObeyed == \A c \in Controls \ {OnOff} : Shown(c, shadow) = Rounded(c, asked[c])

(* docs/MQTT_PROTOCOL.md:78: "homeassistant/switch/<mac>_power/config -    *)
(* switch on/off".  A stove that was switched off does not burn.           *)
SwitchObeyed == asked[OnOff] = 0 => Shown(OnOff, shadow) = 0
==============================================================================
