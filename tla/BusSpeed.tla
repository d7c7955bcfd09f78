------------------------------ MODULE BusSpeed ------------------------------
(***************************************************************************)
(* The I2C controller's address mode and bus clock: what the driver's      *)
(* initialisation sets, and the calls by which a program reads, computes   *)
(* and sets them (altera_avalon_i2c.c).                                    *)
(*                                                                         *)
(* The clock is counted in clocks of the controller, high, low, and held   *)
(* after an edge; the fields have 16 bits.                                 *)
(***************************************************************************)
EXTENDS Board

CONSTANT Speeds      (* Those a program asks for, in Hz.                     *)

ASSUME SpeedsAssumption == Speeds \subseteq Nat

ADDR_MODE_7_BIT  == "7 bit"
ADDR_MODE_10_BIT == "10 bit"
SPEED_STANDARD   == "standard"
SPEED_FAST       == "fast"
FS_MAX_HZ == 400000
FS_MIN_HZ == 100000
SS_MAX_HZ == 100000
SS_MIN_HZ == 1
DIFF_LCNT_HCNT == 60

(* ALT_AVALON_I2C_MASTER_CONFIG_t.                                         *)
Config(address, speed, high, low, hold) ==
  [addr_mode |-> address, speed_mode |-> speed, scl_hcnt |-> high, scl_lcnt |-> low, sda_cnt |-> hold]

(* What a field of 16 bits counts.                                         *)
CountSpan == 65536
Short(n) == n % CountSpan

VARIABLES
  cfg,             (* The program's structure.                               *)
  bus,             (* The same in the device and the controller.             *)
  wanted,           (* History: the speeds they were computed for, 0 if none. *)
  answer           (* The speed the last speed_get answered for `cfg', or 0. *)

speedVars == <<cfg, bus, wanted, answer>>

ip_freq_in_hz == I2C_0.freq

(* Half a period.                                                          *)
Half(speed) == ip_freq_in_hz \div (2 * speed)

HighCount(speed) == Half(speed) + DIFF_LCNT_HCNT
LowCount(speed)  == Half(speed) - DIFF_LCNT_HCNT

(* The low count is a local variable of 32 bits, that the hold is made of. *)
ForSpeed(c, speed) ==
  LET low == LowCount(speed) IN
  Config(c.addr_mode, IF speed > FS_MIN_HZ THEN SPEED_FAST ELSE SPEED_STANDARD,
         Short(HighCount(speed)), Short(low), Short(low - low \div 2))

InRange(speed) == speed <= FS_MAX_HZ /\ speed >= SS_MIN_HZ

alt_avalon_i2c_master_config_speed_set(speed) ==
  /\ IF InRange(speed) THEN cfg' = ForSpeed(cfg, speed) /\ wanted' = [wanted EXCEPT !.cfg = speed]
     ELSE UNCHANGED <<cfg, wanted>>
  /\ answer' = 0 /\ UNCHANGED bus

alt_avalon_i2c_master_config_speed_get ==
  /\ answer' = IF cfg.scl_lcnt = 0 \/ cfg.scl_hcnt = 0 THEN 0
               ELSE ip_freq_in_hz \div (cfg.scl_lcnt + cfg.scl_hcnt)
  /\ UNCHANGED <<cfg, bus, wanted>>

alt_avalon_i2c_master_config_get ==
  cfg' = bus /\ wanted' = [wanted EXCEPT !.cfg = wanted.bus] /\ answer' = 0 /\ UNCHANGED bus

alt_avalon_i2c_master_config_set ==
  bus' = cfg /\ wanted' = [wanted EXCEPT !.bus = wanted.cfg] /\ UNCHANGED <<cfg, answer>>

(* A program chooses the address mode in the structure.                    *)
ChooseMode ==
  /\ cfg' = [cfg EXCEPT !.addr_mode = IF @ = ADDR_MODE_7_BIT THEN ADDR_MODE_10_BIT ELSE ADDR_MODE_7_BIT]
  /\ UNCHANGED <<bus, wanted, answer>>

(* The initialisation computes with a structure of its own; the program's  *)
(* has not been set.                                                       *)
SpeedInit ==
  /\ cfg = Config(ADDR_MODE_7_BIT, SPEED_STANDARD, 0, 0, 0)
  /\ bus = ForSpeed(Config(ADDR_MODE_7_BIT, SPEED_STANDARD, 0, 0, 0), SS_MAX_HZ)
  /\ wanted = [cfg |-> 0, bus |-> SS_MAX_HZ] /\ answer = 0

SpeedNext ==
  \/ \E speed \in Speeds : alt_avalon_i2c_master_config_speed_set(speed)
  \/ alt_avalon_i2c_master_config_speed_get \/ alt_avalon_i2c_master_config_get
  \/ alt_avalon_i2c_master_config_set \/ ChooseMode

SpeedSpec == SpeedInit /\ [][SpeedNext]_speedVars
-----------------------------------------------------------------------------
Configs ==
  [addr_mode : {ADDR_MODE_7_BIT, ADDR_MODE_10_BIT}, speed_mode : {SPEED_STANDARD, SPEED_FAST},
   scl_hcnt : 0 .. CountSpan - 1, scl_lcnt : 0 .. CountSpan - 1, sda_cnt : 0 .. CountSpan - 1]

SpeedTypeOK ==
  cfg \in Configs /\ bus \in Configs /\ wanted \in [{"cfg", "bus"} -> Speeds \cup {0, SS_MAX_HZ}]
    /\ answer \in Nat

(* The clock is the one asked for, or faster by less than two clocks of a  *)
(* period, in the mode that allows it; and data is held for no longer than *)
(* the clock is low.                                                       *)
Runs(speed, c) ==
  LET period == c.scl_lcnt + c.scl_hcnt IN
  /\ period * speed <= ip_freq_in_hz /\ ip_freq_in_hz < (period + 2) * speed
  /\ speed > SS_MAX_HZ => c.speed_mode = SPEED_FAST
  /\ c.sda_cnt <= c.scl_lcnt

(* 50 MHz / 2 / 382 and 60 clocks more are the most 16 bits can count.     *)
Countable(speed) == speed >= 382

(* Whatever is computed, refused, set and read back in whatever order, the *)
(* controller runs at a speed it was asked for, and the driver tells it    *)
(* within the same bounds (altera_avalon_i2c.c:242-321).                   *)
SpeedKept ==
  /\ \A c \in {"cfg", "bus"} : Countable(wanted[c]) => Runs(wanted[c], IF c = "cfg" THEN cfg ELSE bus)
  /\ Countable(wanted.cfg) /\ answer # 0 =>
       answer >= wanted.cfg /\ ip_freq_in_hz < (ip_freq_in_hz \div answer + 2) * wanted.cfg
=============================================================================
