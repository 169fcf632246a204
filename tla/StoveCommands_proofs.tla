------------------------ MODULE StoveCommands_proofs -------------------------
(***************************************************************************)
(* Every control but the main switch shows what was last asked of it, for  *)
(* every set of programmes, times, temperatures and levels: the addresses  *)
(* and the encodings of the writers and of the readers agree.              *)
(***************************************************************************)
EXTENDS StoveCommands, TLAPS

LEMMA Ranges ==
  /\ \A n \in Progs : n \in 1..4
  /\ \A v \in Setpoints : v \in 10..30
  /\ \A v \in Levels : v \in 1..5
  /\ \A v \in Temps : v \in 1..30
  /\ \A v \in Times : v \in 0..1439
  BY ProgsAssumption, OptionsAssumption

(* The registers of a programme. *)
LEMMA Addresses ==
  ASSUME NEW n \in Progs
  PROVE  /\ ChronoEnabled[n] = 430 + n
         /\ ChronoStart[n] = 323 + 10 * n
  BY Ranges DEF ChronoEnabled, ChronoStart

LEMMA InRegisters ==
  /\ StoveState \in Registers /\ TempSet \in Registers /\ PowerSet \in Registers
  /\ ChronoMaster \in Registers
  /\ \A n \in Progs : /\ ChronoEnabled[n] \in Registers
                      /\ \A k \in 0..9 : ChronoStart[n] + k \in Registers
                      /\ ChronoStart[n] \in Registers
<1>1. ASSUME NEW n \in Progs PROVE ChronoStart[n] = ChronoStart[n] + 0
  <2>1. n \in 1..4 /\ ChronoStart[n] = 323 + 10 * n
    BY Addresses, Ranges
  <2> QED BY <2>1
<1> QED BY <1>1 DEF Registers

(* A control ends in one register, another one in another. *)
RegisterOf(c) ==
  IF c[1] = "on" THEN StoveState
  ELSE IF c[1] = "setpoint" THEN TempSet
  ELSE IF c[1] = "power" THEN PowerSet
  ELSE IF c[1] = "chrono_master" THEN ChronoMaster
  ELSE IF c[1] = "chrono_enable" THEN ChronoEnabled[c[2]]
  ELSE IF c[1] = "chrono_start" THEN ChronoStart[c[2]]
  ELSE IF c[1] = "chrono_stop" THEN ChronoStart[c[2]] + 1
  ELSE ChronoStart[c[2]] + 9

LEMMA ControlForms ==
  ASSUME NEW c \in Controls
  PROVE  \/ c = <<"on", 0>> \/ c = <<"setpoint", 0>> \/ c = <<"power", 0>>
         \/ c = <<"chrono_master", 0>>
         \/ \E n \in Progs : \/ c = <<"chrono_enable", n>> \/ c = <<"chrono_start", n>>
                             \/ c = <<"chrono_stop", n>> \/ c = <<"chrono_temp", n>>
  BY DEF Controls, ProgCommands

LEMMA RegisterDistinct ==
  ASSUME NEW c \in Controls, NEW d \in Controls
  PROVE  /\ RegisterOf(c) \in Registers
         /\ RegisterOf(c) = RegisterOf(d) => c = d
  BY ControlForms, Addresses, Ranges, InRegisters
     DEF RegisterOf, StoveState, TempSet, PowerSet, ChronoMaster

(* What is shown of a control depends on its register alone. *)
Reading(c, x) ==
  IF c[1] = "on" THEN (IF x \in Burning THEN 1 ELSE 0)
  ELSE IF c[1] \in {"chrono_master", "chrono_enable"} THEN (IF x # 0 THEN 1 ELSE 0)
  ELSE IF c[1] \in {"chrono_start", "chrono_stop"} THEN x * 10
  ELSE x

LEMMA ShownIsReading ==
  ASSUME NEW c \in Controls, NEW regs
  PROVE  Shown(c, regs) = Reading(c, regs[RegisterOf(c)])
<1> USE DEF Shown, Reading, RegisterOf
<1>1. CASE c = <<"on", 0>> \/ c = <<"setpoint", 0>> \/ c = <<"power", 0>> \/ c = <<"chrono_master", 0>>
  BY <1>1
<1>2. ASSUME NEW n \in Progs, c = <<"chrono_enable", n>> \/ c = <<"chrono_temp", n>>
      PROVE  Shown(c, regs) = Reading(c, regs[RegisterOf(c)])
  BY <1>2
<1>3. ASSUME NEW n \in Progs, c = <<"chrono_start", n>> \/ c = <<"chrono_stop", n>>
      PROVE  Shown(c, regs) = Reading(c, regs[RegisterOf(c)])
  BY <1>3
<1> QED BY <1>1, <1>2, <1>3, ControlForms

------------------------------------------------------------------------------
TypeInv ==
  /\ shadow \in [Registers -> Nat]
  /\ asked \in [Controls -> Nat]

LEMMA OptionsTyped ==
  ASSUME NEW c \in Controls, NEW v \in Options(c)
  PROVE  /\ v \in 0..1439 /\ v \in Nat
         /\ c[1] \in {"on", "chrono_master", "chrono_enable"} => v \in {0, 1}
         /\ c[1] \in {"setpoint", "power", "chrono_temp"} => v \in 1..30
<1>1. /\ c[1] \in {"on", "chrono_master", "chrono_enable"} => v \in {0, 1}
      /\ c[1] = "setpoint" => v \in Setpoints
      /\ c[1] = "power" => v \in Levels
      /\ c[1] = "chrono_temp" => v \in Temps
      /\ c[1] \in {"chrono_start", "chrono_stop"} => v \in Times
  BY DEF Options
<1>2. c[1] \in {"on", "chrono_master", "chrono_enable", "setpoint", "power", "chrono_temp",
                "chrono_start", "chrono_stop"}
  BY ControlForms
<1> QED BY <1>1, <1>2, Ranges

(* A byte holds what users choose, and a time comes back rounded down. *)
LEMMA WrittenRight ==
  ASSUME NEW c \in Controls, NEW v \in Options(c)
  PROVE  /\ Written(c[1], c[2], v).reg = RegisterOf(c)
         /\ Written(c[1], c[2], v).value \in Nat
         /\ c # OnOff => Reading(c, Written(c[1], c[2], v).value) = Rounded(c, v)
<1>1. CASE c = <<"on", 0>> \/ c = <<"setpoint", 0>> \/ c = <<"power", 0>> \/ c = <<"chrono_master", 0>>
  <2>1. /\ c[1] \in {"setpoint", "power"} => v \in Nat /\ Byte(v) = v
        /\ c[1] = "chrono_master" => v \in {0, 1}
    BY OptionsTyped DEF Byte
  <2> QED BY <1>1, <2>1 DEF Written, RegisterOf, Reading, Rounded, OnOff
<1>2. ASSUME NEW n \in Progs, c = <<"chrono_enable", n>> \/ c = <<"chrono_temp", n>>
      PROVE  /\ Written(c[1], c[2], v).reg = RegisterOf(c)
             /\ Written(c[1], c[2], v).value \in Nat
             /\ c # OnOff => Reading(c, Written(c[1], c[2], v).value) = Rounded(c, v)
  <2>1. /\ c[1] = "chrono_temp" => v \in Nat /\ Byte(v) = v
        /\ c[1] = "chrono_enable" => v \in {0, 1}
    BY OptionsTyped DEF Byte
  <2> QED BY <1>2, <2>1 DEF Written, RegisterOf, Reading, Rounded, OnOff
<1>3. ASSUME NEW n \in Progs, c = <<"chrono_start", n>> \/ c = <<"chrono_stop", n>>
      PROVE  /\ Written(c[1], c[2], v).reg = RegisterOf(c)
             /\ Written(c[1], c[2], v).value \in Nat
             /\ c # OnOff => Reading(c, Written(c[1], c[2], v).value) = Rounded(c, v)
  <2>1. v \in 0..1439 /\ Byte(v \div 10) = v \div 10 /\ v \div 10 \in Nat
    <3>1. v \in 0..1439
      BY OptionsTyped
    <3>2. Byte(v \div 10) = v \div 10 /\ v \div 10 \in Nat
      BY <3>1 DEF Byte
    <3> QED BY <3>1, <3>2
  <2>2. Written(c[1], c[2], v).reg = RegisterOf(c) /\ Written(c[1], c[2], v).value = v \div 10
    BY <1>3, <2>1 DEF Written, RegisterOf, StopRegister
  <2>3. Rounded(c, v) = (v \div 10) * 10 /\ Reading(c, v \div 10) = (v \div 10) * 10
    BY <1>3 DEF Rounded, Reading
  <2> QED BY <2>1, <2>2, <2>3
<1> QED BY <1>1, <1>2, <1>3, ControlForms, Zenon

(* One register written, one control asked: the others are as before. *)
LEMMA PutObeyed ==
  ASSUME TypeInv, ControlsObeyed,
         NEW c \in Controls, NEW v \in Nat, NEW w,
         w.reg = RegisterOf(c), w.value \in Nat,
         c # OnOff => Reading(c, w.value) = Rounded(c, v),
         shadow' = Put(shadow, w),
         asked' = [asked EXCEPT ![c] = v]
  PROVE  TypeInv' /\ ControlsObeyed'
<1>1. shadow' = [shadow EXCEPT ![RegisterOf(c)] = w.value]
  BY DEF Put
<1>2. TypeInv'
  BY <1>1, RegisterDistinct DEF TypeInv
<1>3. ASSUME NEW d \in Controls \ {OnOff}
      PROVE  Shown(d, shadow') = Rounded(d, asked'[d])
  <2>1. CASE d = c
    <3>1. shadow'[RegisterOf(c)] = w.value /\ asked'[c] = v
      BY <1>1, RegisterDistinct DEF TypeInv
    <3> QED BY <2>1, <3>1, ShownIsReading
  <2>2. CASE d # c
    <3>1. shadow'[RegisterOf(d)] = shadow[RegisterOf(d)] /\ asked'[d] = asked[d]
      BY <1>1, <2>2, RegisterDistinct DEF TypeInv
    <3> QED BY <3>1, ShownIsReading DEF ControlsObeyed
  <2> QED BY <2>1, <2>2
<1> QED BY <1>2, <1>3 DEF ControlsObeyed

(* A choice written as handle_command writes it. *)
LEMMA AskedObeyed ==
  ASSUME TypeInv, ControlsObeyed,
         NEW c \in Controls, NEW v \in Options(c),
         shadow' = Put(shadow, Written(c[1], c[2], v)),
         asked' = [asked EXCEPT ![c] = v]
  PROVE  TypeInv' /\ ControlsObeyed'
<1> DEFINE w == Written(c[1], c[2], v)
<1>1. /\ w.reg = RegisterOf(c) /\ w.value \in Nat
      /\ c # OnOff => Reading(c, w.value) = Rounded(c, v)
  BY WrittenRight
<1>2. v \in Nat
  BY OptionsTyped
<1>3. shadow' = Put(shadow, w)
  OBVIOUS
<1> HIDE DEF w
<1> QED BY <1>1, <1>2, <1>3, PutObeyed

LEMMA InitObeyed == Init => TypeInv /\ ControlsObeyed
<1> SUFFICES ASSUME Init PROVE TypeInv /\ ControlsObeyed
  OBVIOUS
<1>1. ASSUME NEW c \in Controls
      PROVE  /\ Shown(c, shadow) = 0 /\ asked[c] = 0
             /\ Rounded(c, 0) = 0
  <2>1. shadow[RegisterOf(c)] = 0
    BY RegisterDistinct DEF Init
  <2>2. Reading(c, 0) = 0 /\ Rounded(c, 0) = 0
    BY DEF Reading, Rounded, Burning
  <2>3. asked[c] = Shown(c, shadow)
    BY DEF Init
  <2> QED BY <2>1, <2>2, <2>3, ShownIsReading
<1>2. TypeInv
  BY <1>1 DEF TypeInv, Init
<1> QED BY <1>1, <1>2 DEF ControlsObeyed

LEMMA HaStep == TypeInv /\ ControlsObeyed /\ HaCommand => TypeInv' /\ ControlsObeyed'
<1> SUFFICES ASSUME TypeInv, ControlsObeyed, HaCommand PROVE TypeInv' /\ ControlsObeyed'
  OBVIOUS
<1>1. PICK e \in ControlEntities : \E v \in Options(<<e.command, e.id[3]>>) :
         /\ shadow' = Put(shadow, Written(e.command, e.id[3], v))
         /\ asked' = [asked EXCEPT ![<<e.command, e.id[3]>>] = v]
  BY DEF HaCommand
<1> DEFINE c == <<e.command, e.id[3]>>
<1>2. PICK v \in Options(c) : /\ shadow' = Put(shadow, Written(c[1], c[2], v))
                             /\ asked' = [asked EXCEPT ![c] = v]
  BY <1>1
<1>3. c \in Controls
  BY DEF ControlEntities
<1> HIDE DEF c
<1> QED BY <1>2, <1>3, AskedObeyed

LEMMA ScriptStep == TypeInv /\ ControlsObeyed /\ Script => TypeInv' /\ ControlsObeyed'
<1> SUFFICES ASSUME TypeInv, ControlsObeyed,
                    NEW command \in {"off", "reset_alarm"},
                    shadow' = Put(shadow, Written(command, 0, 1)),
                    asked' = [asked EXCEPT ![OnOff] = 0]
             PROVE  TypeInv' /\ ControlsObeyed'
  BY DEF Script
<1>1. OnOff \in Controls /\ RegisterOf(OnOff) = StoveState
  BY DEF OnOff, Controls, RegisterOf
<1>2. Written(command, 0, 1).reg = StoveState /\ Written(command, 0, 1).value \in Nat
  BY DEF Written
<1> QED BY <1>1, <1>2, PutObeyed

LEMMA WebStep == TypeInv /\ ControlsObeyed /\ (WebCommand \/ Buttons)
                   => TypeInv' /\ ControlsObeyed'
<1> SUFFICES ASSUME TypeInv, ControlsObeyed, WebCommand \/ Buttons
             PROVE  TypeInv' /\ ControlsObeyed'
  OBVIOUS
<1>1. {OnOff, Setpoint, Power} \subseteq Controls
  BY DEF OnOff, Setpoint, Power, Controls
<1>2. ASSUME NEW v \in Options(OnOff),
             shadow' = Put(shadow, WebWritten(OnOff, v)), asked' = [asked EXCEPT ![OnOff] = v]
      PROVE  TypeInv' /\ ControlsObeyed'
  <2>1. RegisterOf(OnOff) = StoveState
    BY DEF OnOff, RegisterOf
  <2>2. WebWritten(OnOff, v).reg = StoveState /\ WebWritten(OnOff, v).value \in Nat
    BY DEF WebWritten
  <2>3. OnOff \in Controls /\ v \in Nat
    BY <1>1, OptionsTyped
  <2> QED BY <1>2, <2>1, <2>2, <2>3, PutObeyed
<1>3. ASSUME NEW c \in {Setpoint, Power}, NEW v \in Options(c),
             shadow' = Put(shadow, Written(c[1], c[2], v)), asked' = [asked EXCEPT ![c] = v]
      PROVE  TypeInv' /\ ControlsObeyed'
  BY <1>1, <1>3, AskedObeyed
<1>4. CASE WebCommand
  <2>0. PICK c \in {OnOff, Setpoint, Power} : \E v \in Options(c) :
          shadow' = Put(shadow, WebWritten(c, v)) /\ asked' = [asked EXCEPT ![c] = v]
    BY <1>4 DEF WebCommand
  <2>1. PICK v \in Options(c) :
          shadow' = Put(shadow, WebWritten(c, v)) /\ asked' = [asked EXCEPT ![c] = v]
    BY <2>0
  <2>2. c # OnOff => WebWritten(c, v) = Written(c[1], c[2], v)
    BY DEF WebWritten
  <2> QED BY <1>2, <1>3, <2>1, <2>2
<1>5. CASE Buttons
  BY <1>3, <1>5 DEF Buttons
<1> QED BY <1>4, <1>5

(* What the form of the chrono leaves in a register of a programme. *)
LEMMA FormRegister ==
  ASSUME NEW n \in Progs, NEW r \in {ChronoEnabled[n]} \cup {ChronoStart[n] + k : k \in 0..9}
  PROVE  (CHOOSE m \in Progs : r = ChronoEnabled[m] \/ r - ChronoStart[m] \in 0..9) = n
<1>1. r = ChronoEnabled[n] \/ r - ChronoStart[n] \in 0..9
  BY Addresses, Ranges
<1>2. ASSUME NEW m \in Progs, r = ChronoEnabled[m] \/ r - ChronoStart[m] \in 0..9
      PROVE  m = n
  <2>1. /\ n \in 1..4 /\ ChronoEnabled[n] = 430 + n /\ ChronoStart[n] = 323 + 10 * n
        /\ m \in 1..4 /\ ChronoEnabled[m] = 430 + m /\ ChronoStart[m] = 323 + 10 * m
    BY Addresses, Ranges
  <2> QED BY <1>1, <1>2, <2>1
<1> QED BY <1>1, <1>2

LEMMA FormStep == TypeInv /\ ControlsObeyed /\ WebChrono => TypeInv' /\ ControlsObeyed'
<1> SUFFICES ASSUME TypeInv, ControlsObeyed, WebChrono PROVE TypeInv' /\ ControlsObeyed'
  OBVIOUS
<1>0. PICK master \in {0, 1} : \E form \in [Progs -> ProgForms] :
        /\ shadow' = [r \in Registers |->
             IF r = ChronoMaster THEN master
             ELSE IF r = StoveState \/ r = TempSet \/ r = PowerSet THEN shadow[r]
             ELSE LET n == CHOOSE n \in Progs : r = ChronoEnabled[n] \/ r - ChronoStart[n] \in 0..9
                  IN CASE r = ChronoEnabled[n] -> form[n].chrono_enable
                       [] r = ChronoStart[n] -> Byte(form[n].chrono_start \div 10)
                       [] r = ChronoStart[n] + 1 -> Byte(form[n].chrono_stop \div 10)
                       [] r = ChronoStart[n] + 9 -> Byte(form[n].chrono_temp)
                       [] OTHER -> form[n].day]
        /\ asked' = [c \in Controls |->
             IF c[1] \in ProgCommands THEN form[c[2]][c[1]]
             ELSE IF c[1] = "chrono_master" THEN master ELSE asked[c]]
  BY Zenon DEF WebChrono
<1> DEFINE Prog(r) == CHOOSE n \in Progs : r = ChronoEnabled[n] \/ r - ChronoStart[n] \in 0..9
           Put1(form, r, n) ==
             CASE r = ChronoEnabled[n] -> form[n].chrono_enable
               [] r = ChronoStart[n] -> Byte(form[n].chrono_start \div 10)
               [] r = ChronoStart[n] + 1 -> Byte(form[n].chrono_stop \div 10)
               [] r = ChronoStart[n] + 9 -> Byte(form[n].chrono_temp)
               [] OTHER -> form[n].day
<1>1. PICK form \in [Progs -> ProgForms] :
        /\ shadow' = [r \in Registers |->
             IF r = ChronoMaster THEN master
             ELSE IF r = StoveState \/ r = TempSet \/ r = PowerSet THEN shadow[r]
             ELSE Put1(form, r, Prog(r))]
        /\ asked' = [c \in Controls |->
             IF c[1] \in ProgCommands THEN form[c[2]][c[1]]
             ELSE IF c[1] = "chrono_master" THEN master ELSE asked[c]]
  BY <1>0, Zenon
<1>f. form \in [Progs -> ProgForms]
  BY <1>1
<1>2. ASSUME NEW n \in Progs
      PROVE  /\ form[n].chrono_enable \in {0, 1} /\ form[n].day \in {0, 1}
             /\ form[n].chrono_start \in 0..1439 /\ form[n].chrono_stop \in 0..1439
             /\ form[n].chrono_temp \in 1..30
  <2>1. form[n] \in ProgForms
    BY <1>f
  <2> QED BY <2>1, Ranges DEF ProgForms
<1>3. ASSUME NEW n \in Progs
      PROVE  /\ Byte(form[n].chrono_start \div 10) = form[n].chrono_start \div 10
             /\ Byte(form[n].chrono_stop \div 10) = form[n].chrono_stop \div 10
             /\ Byte(form[n].chrono_temp) = form[n].chrono_temp
             /\ form[n].chrono_start \div 10 \in Nat /\ form[n].chrono_stop \div 10 \in Nat
  <2>1. /\ form[n].chrono_start \in 0..1439 /\ form[n].chrono_stop \in 0..1439
        /\ form[n].chrono_temp \in 1..30
    BY <1>2
  <2> DEFINE start == form[n].chrono_start
             stop == form[n].chrono_stop
             temp == form[n].chrono_temp
  <2> HIDE DEF start, stop, temp
  <2>2. start \in 0..1439 /\ stop \in 0..1439 /\ temp \in 1..30
    BY <2>1 DEF start, stop, temp
  <2>3. Byte(start \div 10) = start \div 10 /\ start \div 10 \in Nat
    BY <2>2 DEF Byte
  <2>4. Byte(stop \div 10) = stop \div 10 /\ stop \div 10 \in Nat
    BY <2>2 DEF Byte
  <2>5. Byte(temp) = temp
    BY <2>2 DEF Byte
  <2> QED BY <2>3, <2>4, <2>5, Zenon DEF start, stop, temp
<1> HIDE DEF Prog, Put1
<1>4. ASSUME NEW n \in Progs
      PROVE  /\ Put1(form, ChronoEnabled[n], n) = form[n].chrono_enable
             /\ Put1(form, ChronoStart[n], n) = form[n].chrono_start \div 10
             /\ Put1(form, ChronoStart[n] + 1, n) = form[n].chrono_stop \div 10
             /\ Put1(form, ChronoStart[n] + 9, n) = form[n].chrono_temp
             /\ \A r : Put1(form, r, n) \in Nat
  <2>1. /\ ChronoEnabled[n] \in Nat /\ ChronoStart[n] \in Nat
        /\ ChronoEnabled[n] # ChronoStart[n] /\ ChronoEnabled[n] # ChronoStart[n] + 1
        /\ ChronoEnabled[n] # ChronoStart[n] + 9
    <3>1. n \in 1..4 /\ ChronoEnabled[n] = 430 + n /\ ChronoStart[n] = 323 + 10 * n
      BY Addresses, Ranges
    <3> QED BY <3>1
  <2>2. /\ form[n].chrono_enable \in Nat /\ form[n].day \in Nat /\ form[n].chrono_temp \in Nat
    BY <1>2
  <2> QED BY <1>3, <2>1, <2>2 DEF Put1
<1>5. ASSUME NEW n \in Progs, NEW r \in {ChronoEnabled[n]} \cup {ChronoStart[n] + k : k \in 0..9}
      PROVE  /\ r \in Registers /\ Prog(r) = n
             /\ r \notin {StoveState, TempSet, PowerSet, ChronoMaster}
             /\ shadow'[r] = Put1(form, r, n)
  <2>1. r \in Registers
    BY InRegisters
  <2>2. Prog(r) = n
    BY FormRegister DEF Prog
  <2>3. r \notin {StoveState, TempSet, PowerSet, ChronoMaster}
    BY Addresses, Ranges DEF StoveState, TempSet, PowerSet, ChronoMaster
  <2> QED BY <1>1, <2>1, <2>2, <2>3
<1>6. ASSUME NEW n \in Progs
      PROVE  /\ shadow'[ChronoEnabled[n]] = form[n].chrono_enable
             /\ shadow'[ChronoStart[n]] = form[n].chrono_start \div 10
             /\ shadow'[ChronoStart[n] + 1] = form[n].chrono_stop \div 10
             /\ shadow'[ChronoStart[n] + 9] = form[n].chrono_temp
  <2>1. /\ ChronoEnabled[n] \in {ChronoEnabled[n]} \cup {ChronoStart[n] + k : k \in 0..9}
        /\ ChronoStart[n] + 1 \in {ChronoEnabled[n]} \cup {ChronoStart[n] + k : k \in 0..9}
        /\ ChronoStart[n] + 9 \in {ChronoEnabled[n]} \cup {ChronoStart[n] + k : k \in 0..9}
    OBVIOUS
  <2>2. ChronoStart[n] \in {ChronoEnabled[n]} \cup {ChronoStart[n] + k : k \in 0..9}
    <3>1. n \in 1..4 /\ ChronoStart[n] = 323 + 10 * n
      BY Addresses, Ranges
    <3>2. ChronoStart[n] = ChronoStart[n] + 0
      BY <3>1
    <3> QED BY <3>2
  <2> QED BY <1>4, <1>5, <2>1, <2>2
<1>7. asked' \in [Controls -> Nat]
  <2>1. ASSUME NEW c \in Controls
        PROVE  (IF c[1] \in ProgCommands THEN form[c[2]][c[1]]
                ELSE IF c[1] = "chrono_master" THEN master ELSE asked[c]) \in Nat
    <3>1. CASE c \in {<<"on", 0>>, <<"setpoint", 0>>, <<"power", 0>>, <<"chrono_master", 0>>}
      BY <3>1 DEF ProgCommands, TypeInv
    <3>2. ASSUME NEW n \in Progs,
                 c \in {<<"chrono_enable", n>>, <<"chrono_start", n>>, <<"chrono_stop", n>>,
                       <<"chrono_temp", n>>}
          PROVE  c[1] \in ProgCommands /\ form[c[2]][c[1]] \in Nat
      <4>1. c[2] = n
        BY <3>2
      <4>2. /\ form[n].chrono_enable \in Nat /\ form[n].chrono_start \in Nat
            /\ form[n].chrono_stop \in Nat /\ form[n].chrono_temp \in Nat
        <5> DEFINE start == form[n].chrono_start
                   stop == form[n].chrono_stop
        <5> HIDE DEF start, stop
        <5>1. start \in 0..1439 /\ stop \in 0..1439
          BY <1>2 DEF start, stop
        <5>2. start \in Nat /\ stop \in Nat
          BY <5>1
        <5>3. form[n].chrono_enable \in {0, 1} /\ form[n].chrono_temp \in 1..30
          BY <1>2
        <5>4. form[n].chrono_enable \in Nat
          BY <5>3
        <5>5. form[n].chrono_temp \in Nat
          BY <5>3
        <5> QED BY <5>2, <5>4, <5>5, Zenon DEF start, stop
      <4>3. c[1] \in ProgCommands
        BY <3>2 DEF ProgCommands
      <4>4. form[n] \in ProgForms
        BY <1>1
      <4>5. CASE c[1] = "chrono_enable"
        BY <4>1, <4>2, <4>3, <4>4, <4>5 DEF ProgForms
      <4>6. CASE c[1] = "chrono_start"
        BY <4>1, <4>2, <4>3, <4>4, <4>6 DEF ProgForms
      <4>7. CASE c[1] = "chrono_stop"
        BY <4>1, <4>2, <4>3, <4>4, <4>7 DEF ProgForms
      <4>8. CASE c[1] = "chrono_temp"
        BY <4>1, <4>2, <4>3, <4>4, <4>8 DEF ProgForms
      <4> QED BY <4>3, <4>5, <4>6, <4>7, <4>8 DEF ProgCommands
    <3> QED BY <3>1, <3>2, ControlForms
  <2> QED BY <1>1, <2>1
<1>8. shadow' \in [Registers -> Nat]
  <2>1. ASSUME NEW r \in Registers PROVE shadow'[r] \in Nat
    <3>1. CASE r \in {StoveState, TempSet, PowerSet, ChronoMaster}
      BY <1>1, <3>1 DEF TypeInv
    <3>2. CASE r \notin {StoveState, TempSet, PowerSet, ChronoMaster}
      <4>1. PICK n \in Progs : r \in {ChronoEnabled[n]} \cup {ChronoStart[n] + k : k \in 0..9}
        BY <3>2 DEF Registers
      <4> QED BY <1>4, <1>5, <4>1
    <3> QED BY <3>1, <3>2
  <2> QED BY <1>1, <2>1
<1>9. ASSUME NEW c \in Controls \ {OnOff}
      PROVE  Shown(c, shadow') = Rounded(c, asked'[c])
  <2>1. CASE c \in {<<"setpoint", 0>>, <<"power", 0>>}
    <3>1. shadow'[RegisterOf(c)] = shadow[RegisterOf(c)] /\ asked'[c] = asked[c]
      <4>1. /\ RegisterOf(c) \in {TempSet, PowerSet} /\ c[1] \notin ProgCommands
            /\ c[1] # "chrono_master"
        BY <2>1 DEF RegisterOf, ProgCommands
      <4>2. RegisterOf(c) \in Registers /\ RegisterOf(c) # ChronoMaster
        BY <4>1, InRegisters DEF TempSet, PowerSet, ChronoMaster
      <4> QED BY <1>1, <4>1, <4>2
    <3> QED BY <3>1, ShownIsReading DEF ControlsObeyed
  <2>2. CASE c = <<"chrono_master", 0>>
    <3>1. shadow'[ChronoMaster] = master /\ asked'[c] = master
      BY <1>1, <2>2, InRegisters DEF ProgCommands
    <3> QED BY <2>2, <3>1, ShownIsReading DEF RegisterOf, Reading, Rounded
  <2>3. ASSUME NEW n \in Progs, c = <<"chrono_enable", n>> \/ c = <<"chrono_temp", n>>
        PROVE  Shown(c, shadow') = Rounded(c, asked'[c])
    <3>1. asked'[c] = form[n][c[1]]
      BY <1>1, <2>3 DEF ProgCommands
    <3>2. CASE c = <<"chrono_enable", n>>
      BY <1>2, <1>6, <3>1, <3>2, ShownIsReading DEF RegisterOf, Reading, Rounded
    <3>3. CASE c = <<"chrono_temp", n>>
      BY <1>6, <3>1, <3>3, ShownIsReading DEF RegisterOf, Reading, Rounded
    <3> QED BY <2>3, <3>2, <3>3
  <2>4. ASSUME NEW n \in Progs, c = <<"chrono_start", n>> \/ c = <<"chrono_stop", n>>
        PROVE  Shown(c, shadow') = Rounded(c, asked'[c])
    <3>1. asked'[c] = form[n][c[1]]
      BY <1>1, <2>4 DEF ProgCommands
    <3>2. CASE c = <<"chrono_start", n>>
      BY <1>6, <3>1, <3>2, ShownIsReading DEF RegisterOf, Reading, Rounded
    <3>3. CASE c = <<"chrono_stop", n>>
      BY <1>6, <3>1, <3>3, ShownIsReading DEF RegisterOf, Reading, Rounded
    <3> QED BY <2>4, <3>2, <3>3
  <2> QED BY <2>1, <2>2, <2>3, <2>4, ControlForms DEF OnOff
<1> QED BY <1>7, <1>8, <1>9 DEF TypeInv, ControlsObeyed

LEMMA CloudStep == TypeInv /\ ControlsObeyed /\ CloudSettings => TypeInv' /\ ControlsObeyed'
<1> SUFFICES ASSUME TypeInv, ControlsObeyed,
                    NEW given \in SUBSET {OnOff, Power, Setpoint}, NEW on \in {0, 1},
                    NEW level \in Levels, NEW temp \in Setpoints,
                    shadow' = [shadow EXCEPT
                      ![StoveState] = IF OnOff \in given THEN (IF on = 0 THEN 6 ELSE 1) ELSE @,
                      ![PowerSet] = IF Power \in given THEN Byte(level) ELSE @,
                      ![TempSet] = IF Setpoint \in given THEN Byte(temp) ELSE @],
                    asked' = [asked EXCEPT
                      ![OnOff] = IF OnOff \in given THEN on ELSE @,
                      ![Power] = IF Power \in given THEN level ELSE @,
                      ![Setpoint] = IF Setpoint \in given THEN temp ELSE @]
             PROVE  TypeInv' /\ ControlsObeyed'
  BY Zenon DEF CloudSettings
<1>1. level \in Nat /\ temp \in Nat /\ Byte(level) = level /\ Byte(temp) = temp
  BY Ranges DEF Byte
<1>2. OnOff \in Controls /\ Power \in Controls /\ Setpoint \in Controls
  BY DEF OnOff, Power, Setpoint, Controls
<1>3. /\ RegisterOf(OnOff) = StoveState /\ RegisterOf(Power) = PowerSet
      /\ RegisterOf(Setpoint) = TempSet
      /\ OnOff # Power /\ OnOff # Setpoint /\ Power # Setpoint
  BY DEF RegisterOf, OnOff, Power, Setpoint
<1>4. TypeInv'
  BY <1>1, <1>2, InRegisters DEF TypeInv
<1>5. ASSUME NEW c \in Controls \ {OnOff}
      PROVE  Shown(c, shadow') = Rounded(c, asked'[c])
  <2>1. c \in {Power, Setpoint} => \A x : Reading(c, x) = x /\ Rounded(c, x) = x
    BY DEF Reading, Rounded, Power, Setpoint
  <2>2. CASE c \in {Power, Setpoint}
    <3>1. \/ shadow'[RegisterOf(c)] = shadow[RegisterOf(c)] /\ asked'[c] = asked[c]
          \/ shadow'[RegisterOf(c)] = asked'[c]
      BY <1>1, <1>2, <1>3, <2>2, RegisterDistinct, InRegisters
         DEF TypeInv, StoveState, PowerSet, TempSet
    <3>2. Shown(c, shadow) = Rounded(c, asked[c]) /\ Shown(c, shadow) = shadow[RegisterOf(c)]
      BY <2>1, <2>2, ShownIsReading DEF ControlsObeyed
    <3>3. shadow'[RegisterOf(c)] = asked'[c]
      BY <2>1, <2>2, <3>1, <3>2
    <3>4. Shown(c, shadow') = Reading(c, shadow'[RegisterOf(c)])
      BY ShownIsReading
    <3> QED BY <2>1, <2>2, <3>3, <3>4
  <2>3. CASE c \notin {Power, Setpoint}
    <3>1. RegisterOf(c) \notin {StoveState, PowerSet, TempSet} /\ RegisterOf(c) \in Registers
      BY <1>2, <1>3, <2>3, RegisterDistinct
    <3>2. shadow'[RegisterOf(c)] = shadow[RegisterOf(c)] /\ asked'[c] = asked[c]
      BY <1>2, <1>5, <2>3, <3>1 DEF TypeInv
    <3> QED BY <3>2, ShownIsReading DEF ControlsObeyed
  <2> QED BY <2>2, <2>3
<1> QED BY <1>4, <1>5 DEF ControlsObeyed

LEMMA FireStep == TypeInv /\ ControlsObeyed /\ Fire => TypeInv' /\ ControlsObeyed'
<1> SUFFICES ASSUME TypeInv, ControlsObeyed, Fire PROVE TypeInv' /\ ControlsObeyed'
  OBVIOUS
<1>1. TypeInv'
  BY InRegisters DEF TypeInv, Fire
<1>2. ASSUME NEW c \in Controls \ {OnOff}
      PROVE  Shown(c, shadow') = Rounded(c, asked'[c])
  <2>1. OnOff \in Controls /\ RegisterOf(OnOff) = StoveState
    BY DEF OnOff, Controls, RegisterOf
  <2>2. RegisterOf(c) # StoveState /\ RegisterOf(c) \in Registers
    BY <2>1, RegisterDistinct
  <2>3. shadow'[RegisterOf(c)] = shadow[RegisterOf(c)] /\ asked' = asked
    BY <2>2 DEF TypeInv, Fire
  <2> QED BY <2>3, ShownIsReading DEF ControlsObeyed
<1> QED BY <1>1, <1>2 DEF ControlsObeyed

(* Whatever the programmes and the choices of users, what is shown of a    *)
(* control other than the main switch is what was last asked of it, over   *)
(* handle_command, handle_in_settings, the web handlers and the stove.     *)
THEOREM AlwaysObeyed == Spec => []ControlsObeyed
<1>1. TypeInv /\ ControlsObeyed /\ [Next]_vars => TypeInv' /\ ControlsObeyed'
  <2> SUFFICES ASSUME TypeInv, ControlsObeyed, [Next]_vars PROVE TypeInv' /\ ControlsObeyed'
    OBVIOUS
  <2>1. CASE UNCHANGED vars
    BY <2>1 DEF vars, TypeInv, ControlsObeyed
  <2> QED BY <2>1, HaStep, ScriptStep, WebStep, FormStep, CloudStep, FireStep DEF Next
<1> QED BY <1>1, InitObeyed, PTL DEF Spec
=============================================================================
