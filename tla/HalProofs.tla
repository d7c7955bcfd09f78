----------------------------- MODULE HalProofs -----------------------------
(***************************************************************************)
(* Theorems about the parts of the HAL: the files, for any number of       *)
(* descriptors and any devices and drivers with any functions; the console *)
(* for rings and FIFOs of any length; the memory for sections of any       *)
(* lengths and any calls of sbrk; the alarms for any number of them; the   *)
(* ticks for words of any width and any rate of the timer; the flash for   *)
(* pages, words and sectors of any size; the clock of the I2C bus for any  *)
(* speeds.  At the end, about all of it, the drivers of DriverProofs       *)
(* included: HalTypeTheorem, HalTheorem and HalStepsTheorem.               *)
(***************************************************************************)
EXTENDS Hal, DriverProofs, SequenceTheorems, TLAPS

LEMMA MinType ==
  ASSUME NEW S, S \subseteq Nat, S # {}
  PROVE  Min(S) \in S
BY MinNat DEF Min

LEMMA FreeType ==
  ASSUME FreeFds # {}
  PROVE  Min(FreeFds) \in Fds /\ ~Open(Min(FreeFds))
<1>1. FreeFds \subseteq Nat
  BY FilesAssumption DEF FreeFds, Fds
<1>2. QED  BY <1>1, MinType DEF FreeFds, Open

(* The mark covers what it covered and the descriptor found.               *)
LEMMA HighWaterType ==
  ASSUME FilesTypeOK, NEW f \in Fds
  PROVE  HighWater(f) \in 0 .. MaxFd - 1 /\ HighWater(f) >= f /\ HighWater(f) >= alt_max_fd
<1>1. alt_max_fd \in Int /\ f \in Int /\ f >= 0 /\ MaxFd \in Nat
  BY FilesAssumption DEF FilesTypeOK, Fds
<1>2. \E x \in {alt_max_fd, f} : \A y \in {alt_max_fd, f} : x >= y
  BY <1>1
<1>3. /\ Max({alt_max_fd, f}) \in {alt_max_fd, f}
      /\ \A y \in {alt_max_fd, f} : Max({alt_max_fd, f}) >= y
  BY <1>2 DEF Max
<1>4. QED  BY <1>1, <1>3, FilesAssumption DEF HighWater, FilesTypeOK, Fds
-----------------------------------------------------------------------------
(* The bus clock.  What is in the structure and in the controller is what  *)
(* the formula gave for the speed it is known by.                          *)
SpeedsKnown == Speeds \cup {0, SS_MAX_HZ}

Given(speed, c) ==
  speed # 0 =>
    /\ speed <= FS_MAX_HZ /\ c.speed_mode = (IF speed > FS_MIN_HZ THEN SPEED_FAST ELSE SPEED_STANDARD)
    /\ c.scl_hcnt = Short(HighCount(speed)) /\ c.scl_lcnt = Short(LowCount(speed))
    /\ c.sda_cnt = Short(LowCount(speed) - LowCount(speed) \div 2)

SpeedInv ==
  /\ SpeedTypeOK
  /\ Given(wanted["cfg"], cfg) /\ Given(wanted["bus"], bus)
  /\ answer # 0 => cfg.scl_lcnt + cfg.scl_hcnt # 0
                   /\ answer = ip_freq_in_hz \div (cfg.scl_lcnt + cfg.scl_hcnt)

(* What a quotient says of its product.                                    *)
LEMMA QuotientIs ==
  ASSUME NEW n \in Nat, NEW p \in Nat \ {0}
  PROVE  /\ n \div p \in Nat /\ p * (n \div p) <= n /\ n < p * (n \div p) + p
         /\ n % p \in Nat
  OBVIOUS

(* A product grows with its factor.                                        *)
LEMMA ProductGrows ==
  ASSUME NEW p \in Nat, NEW r \in Nat, p <= r, NEW k \in Nat
  PROVE  p * k <= r * k
  OBVIOUS

(* And what a product says of a quotient.                                 *)
LEMMA QuotientAtLeast ==
  ASSUME NEW n \in Nat, NEW p \in Nat \ {0}, NEW k \in Nat, p * k <= n
  PROVE  n \div p >= k
<1> DEFINE d == n \div p
<1>1. d \in Nat /\ n < p * d + p
  BY QuotientIs
<1> HIDE DEF d
<1>2. SUFFICES ASSUME d + 1 <= k PROVE FALSE
  BY <1>1 DEF d
<1>3. (d + 1) * p <= k * p
  BY <1>1, <1>2, ProductGrows
<1>4. (d + 1) * p = p * d + p /\ k * p = p * k
  BY <1>1
<1> QED  BY <1>1, <1>3, <1>4

LEMMA CountSpanIs == CountSpan \in Nat \ {0} /\ CountSpan = 65536
  BY SMT DEF CountSpan

LEMMA FrequencyIs == ip_freq_in_hz \in Nat /\ ip_freq_in_hz = 50000000
  BY SMT DEF ip_freq_in_hz, I2C_0

(* The counts of a speed that can be counted fit into their 16 bits.       *)
LEMMA HalfIs ==
  ASSUME NEW n \in Nat, n >= 382, n <= FS_MAX_HZ
  PROVE  /\ Half(n) \in Nat /\ Half(n) >= 62 /\ Half(n) + 60 < CountSpan
         /\ (2 * n) * Half(n) <= ip_freq_in_hz /\ ip_freq_in_hz < (2 * n) * Half(n) + 2 * n
<1> DEFINE h == Half(n)
           d == 2 * n
<1>1. n <= 400000
  BY SMT DEF FS_MAX_HZ
<1>2. d \in Nat \ {0} /\ d >= 764 /\ d <= 800000
  BY <1>1, SMT
<1>3. h = ip_freq_in_hz \div d
  BY DEF Half
<1> HIDE DEF d, h
<1>4. h \in Nat /\ d * h <= ip_freq_in_hz /\ ip_freq_in_hz < d * h + d
  <2>1. d \in Nat \ {0}
    BY <1>2, SMT
  <2>2. ip_freq_in_hz \in Nat
    BY FrequencyIs, SMT
  <2> QED  BY <1>3, <2>1, <2>2, QuotientIs
<1>5. 764 * h <= d * h
  BY <1>2, <1>4, ProductGrows, SMT
<1>6. h <= 65445
  <2>1. 764 * h <= ip_freq_in_hz
    <3> DEFINE q == d * h
    <3>1. q \in Nat /\ 764 * h \in Nat
      BY <1>2, <1>4, SMT
    <3>2. q <= ip_freq_in_hz /\ 764 * h <= q
      BY <1>4, <1>5
    <3>3. ip_freq_in_hz \in Nat
      BY FrequencyIs, SMT
    <3> HIDE DEF q
    <3> QED  BY <3>1, <3>2, <3>3
  <2> QED  BY <1>4, <2>1, FrequencyIs, SMT
<1>7. d * (h + 1) <= 800000 * (h + 1)
  BY <1>2, <1>4, ProductGrows, SMT
<1>8. d * (h + 1) = d * h + d
  BY <1>2, <1>4, SMT
<1>9. h >= 62
  <2>1. ip_freq_in_hz < 800000 * (h + 1)
    <3> DEFINE q == d * (h + 1)
               r == 800000 * (h + 1)
    <3>1. q \in Nat /\ r \in Nat
      BY <1>2, <1>4, SMT
    <3>2. ip_freq_in_hz < q /\ q <= r
      BY <1>4, <1>7, <1>8
    <3>3. ip_freq_in_hz \in Nat
      BY FrequencyIs, SMT
    <3> HIDE DEF q, r
    <3>4. ip_freq_in_hz < r
      BY <3>1, <3>2, <3>3
    <3> QED  BY <3>4, SMT DEF r
  <2> QED  BY <1>4, <2>1, FrequencyIs, SMT
<1>10. h + 60 < CountSpan
  BY <1>4, <1>6, CountSpanIs, SMT
<1> QED  BY <1>4, <1>9, <1>10 DEF d, h

(* What was computed for a speed runs at it.                               *)
LEMMA GivenRuns ==
  ASSUME NEW n \in Nat, NEW c, Given(n, c), Countable(n)
  PROVE  /\ Runs(n, c)
         /\ c.scl_lcnt \in Nat \ {0} /\ c.scl_hcnt \in Nat \ {0}
<1> DEFINE h == Half(n)
<1>1. n # 0 /\ n >= 382
  BY DEF Countable
<1>2. /\ n <= FS_MAX_HZ /\ c.speed_mode = (IF n > FS_MIN_HZ THEN SPEED_FAST ELSE SPEED_STANDARD)
      /\ c.scl_hcnt = Short(HighCount(n)) /\ c.scl_lcnt = Short(LowCount(n))
      /\ c.sda_cnt = Short(LowCount(n) - LowCount(n) \div 2)
  BY <1>1 DEF Given
<1>3. /\ h \in Nat /\ h >= 62 /\ h + 60 < CountSpan
      /\ (2 * n) * h <= ip_freq_in_hz /\ ip_freq_in_hz < (2 * n) * h + 2 * n
  BY <1>1, <1>2, HalfIs
<1>4. HighCount(n) = h + 60 /\ LowCount(n) = h - 60
  BY DEF HighCount, LowCount, DIFF_LCNT_HCNT
<1> HIDE DEF h
<1>5. CountSpan \in Nat \ {0}
  BY CountSpanIs, SMT
<1>6. \A k \in Nat : k < CountSpan => Short(k) = k
  BY <1>5 DEF Short
<1>7. c.scl_hcnt = h + 60 /\ c.scl_lcnt = h - 60
  <2>1. h + 60 \in Nat /\ h - 60 \in Nat /\ h - 60 < CountSpan
    BY <1>3, <1>5
  <2> QED  BY <1>2, <1>3, <1>4, <1>6, <2>1
<1>8. c.sda_cnt <= c.scl_lcnt
  <2> DEFINE k == (h - 60) - (h - 60) \div 2
  <2>1. k \in Nat /\ k <= h - 60
    BY <1>3
  <2>2. k < CountSpan
    BY <1>3, <1>5, <2>1
  <2>3. c.sda_cnt = Short(k)
    BY <1>2, <1>4
  <2> HIDE DEF k
  <2> QED  BY <1>3, <1>6, <1>7, <2>1, <2>2, <2>3
<1>9. c.scl_lcnt + c.scl_hcnt = 2 * h
  BY <1>3, <1>7
<1>10. (2 * h) * n = (2 * n) * h /\ (2 * h + 2) * n = (2 * n) * h + 2 * n
  BY <1>3
<1>11. n > SS_MAX_HZ => c.speed_mode = SPEED_FAST
  BY <1>2, SMT DEF SS_MAX_HZ, FS_MIN_HZ
<1> QED  BY <1>3, <1>7, <1>8, <1>9, <1>10, <1>11 DEF Runs

(* The driver's answer is the speed of those counts.                       *)
LEMMA AnswerRuns ==
  ASSUME NEW n \in Nat, NEW c, Runs(n, c), n # 0,
         c.scl_lcnt \in Nat \ {0}, c.scl_hcnt \in Nat \ {0},
         NEW a \in Nat, a = ip_freq_in_hz \div (c.scl_lcnt + c.scl_hcnt)
  PROVE  a >= n /\ ip_freq_in_hz < (ip_freq_in_hz \div a + 2) * n
<1> DEFINE p == c.scl_lcnt + c.scl_hcnt
           k == ip_freq_in_hz \div a
<1>0. ip_freq_in_hz \in Nat
  BY FrequencyIs, SMT
<1>1. p \in Nat \ {0} /\ p * n <= ip_freq_in_hz /\ ip_freq_in_hz < (p + 2) * n
  BY DEF Runs
<1>2. a = ip_freq_in_hz \div p
  OBVIOUS
<1> HIDE DEF p
<1>3. a >= n
  BY <1>0, <1>1, <1>2, QuotientAtLeast
<1>4. p * a <= ip_freq_in_hz
  BY <1>0, <1>1, <1>2, QuotientIs
<1>5. a \in Nat \ {0} /\ a * p <= ip_freq_in_hz
  BY <1>1, <1>3, <1>4
<1>6. k >= p /\ k \in Nat
  BY <1>0, <1>1, <1>5, QuotientAtLeast, QuotientIs
<1> HIDE DEF k
<1>7. (p + 2) * n <= (k + 2) * n
  BY <1>1, <1>6, ProductGrows
<1>8. (k + 2) * n \in Nat /\ (p + 2) * n \in Nat
  BY <1>1, <1>6
<1>9. ip_freq_in_hz < (k + 2) * n
  BY <1>0, <1>1, <1>7, <1>8
<1> QED  BY <1>3, <1>9 DEF k

(* What is computed for a speed has the types of the fields.               *)
LEMMA ForSpeedType ==
  ASSUME NEW c \in Configs, NEW n \in Nat, n >= 1
  PROVE  ForSpeed(c, n) \in Configs
<1>1. ip_freq_in_hz \in Nat /\ 2 * n \in Nat \ {0}
  BY FrequencyIs, SMT
<1>2. Half(n) \in Nat
  BY <1>1, QuotientIs DEF Half
<1>3. HighCount(n) \in Int /\ LowCount(n) \in Int /\ LowCount(n) - LowCount(n) \div 2 \in Int
  BY <1>2 DEF HighCount, LowCount, DIFF_LCNT_HCNT
<1>4. \A a \in Int : Short(a) \in 0..CountSpan - 1
  <2>1. CountSpan \in Nat \ {0}
    BY CountSpanIs, SMT
  <2> QED  BY <2>1 DEF Short
<1>5. Short(HighCount(n)) \in 0..CountSpan - 1 /\ Short(LowCount(n)) \in 0..CountSpan - 1
      /\ Short(LowCount(n) - LowCount(n) \div 2) \in 0..CountSpan - 1
         /\ c.addr_mode \in {ADDR_MODE_7_BIT, ADDR_MODE_10_BIT}
  BY <1>3, <1>4 DEF Configs
<1> QED  BY <1>5 DEF ForSpeed, Config, Configs

LEMMA SpeedInitHolds == SpeedInit => SpeedInv
<1> SUFFICES ASSUME SpeedInit PROVE SpeedInv
  OBVIOUS
<1>1. wanted["cfg"] = 0 /\ wanted["bus"] = SS_MAX_HZ /\ answer = 0
  BY DEF SpeedInit
<1>2. Given(wanted["cfg"], cfg)
  BY <1>1 DEF Given
<1>3. Given(wanted["bus"], bus)
  BY <1>1, SMT DEF SpeedInit, Given, ForSpeed, Config, SS_MAX_HZ, FS_MAX_HZ, FS_MIN_HZ
<1>4. SpeedTypeOK
  <2>1. cfg \in Configs /\ bus \in Configs
    <3>1. SS_MAX_HZ \in Nat /\ SS_MAX_HZ >= 1
      BY SMT DEF SS_MAX_HZ
    <3>2. Config(ADDR_MODE_7_BIT, SPEED_STANDARD, 0, 0, 0) \in Configs
      BY CountSpanIs, SMT DEF Config, Configs
    <3> QED  BY <3>1, <3>2, ForSpeedType DEF SpeedInit
  <2> QED  BY <1>1, <2>1 DEF SpeedTypeOK, SpeedInit
<1> QED  BY <1>1, <1>2, <1>3, <1>4 DEF SpeedInv

LEMMA SpeedSetKeeps ==
  ASSUME SpeedInv, NEW speed \in Speeds, alt_avalon_i2c_master_config_speed_set(speed)
  PROVE  SpeedInv'
<1>1. answer' = 0 /\ bus' = bus
  BY DEF alt_avalon_i2c_master_config_speed_set
<1>2. CASE ~InRange(speed)
  BY <1>1, <1>2 DEF alt_avalon_i2c_master_config_speed_set, SpeedInv, SpeedTypeOK
<1>3. CASE InRange(speed)
  <2>1. cfg' = ForSpeed(cfg, speed) /\ wanted' = [wanted EXCEPT !["cfg"] = speed]
    BY <1>3 DEF alt_avalon_i2c_master_config_speed_set
  <2>2. speed \in Nat /\ speed >= 1 /\ speed <= FS_MAX_HZ
    BY <1>3, SpeedsAssumption DEF InRange, SS_MIN_HZ
  <2>3. wanted["cfg"]' = speed /\ wanted["bus"]' = wanted["bus"]
    BY <2>1 DEF SpeedInv, SpeedTypeOK
  <2>4. Given(wanted["cfg"], cfg)'
    BY <2>1, <2>2, <2>3 DEF Given, ForSpeed, Config
  <2>5. Given(wanted["bus"], bus)'
    BY <1>1, <2>3 DEF SpeedInv, Given
  <2>6. cfg' \in Configs
    BY <2>1, <2>2, ForSpeedType DEF SpeedInv, SpeedTypeOK
  <2> QED  BY <1>1, <2>1, <2>4, <2>5, <2>6 DEF SpeedInv, SpeedTypeOK
<1> QED  BY <1>2, <1>3

LEMMA SpeedStepKeeps == SpeedInv /\ [SpeedNext]_speedVars => SpeedInv'
<1> SUFFICES ASSUME SpeedInv, [SpeedNext]_speedVars PROVE SpeedInv'
  OBVIOUS
<1>1. ASSUME NEW speed \in Speeds, alt_avalon_i2c_master_config_speed_set(speed) PROVE SpeedInv'
  BY <1>1, SpeedSetKeeps
<1>2. CASE alt_avalon_i2c_master_config_speed_get
  <2> DEFINE p == cfg.scl_lcnt + cfg.scl_hcnt
  <2>1. UNCHANGED <<cfg, bus, wanted>>
        /\ answer' = IF cfg.scl_lcnt = 0 \/ cfg.scl_hcnt = 0 THEN 0 ELSE ip_freq_in_hz \div p
    BY <1>2 DEF alt_avalon_i2c_master_config_speed_get
  <2>2. cfg.scl_lcnt \in Nat /\ cfg.scl_hcnt \in Nat
    <3>1. cfg.scl_lcnt \in 0..CountSpan - 1 /\ cfg.scl_hcnt \in 0..CountSpan - 1
      BY DEF SpeedInv, SpeedTypeOK, Configs
    <3>2. CountSpan \in Nat
      BY CountSpanIs, SMT
    <3> QED  BY <3>1, <3>2
  <2>3. ip_freq_in_hz \in Nat
    BY FrequencyIs, SMT
  <2>4. answer' # 0 => cfg.scl_lcnt # 0 /\ cfg.scl_hcnt # 0 /\ answer' = ip_freq_in_hz \div p /\ p \in Nat \ {0}
    BY <2>1, <2>2
  <2> HIDE DEF p
  <2>5. answer' \in Nat
    BY <2>3, <2>4, QuotientIs
  <2> QED  BY <2>1, <2>4, <2>5 DEF SpeedInv, SpeedTypeOK, Given, p
<1>3. CASE alt_avalon_i2c_master_config_get
  <2>1. cfg' = bus /\ bus' = bus /\ answer' = 0 /\ wanted' = [wanted EXCEPT !["cfg"] = wanted["bus"]]
    BY <1>3 DEF alt_avalon_i2c_master_config_get
  <2>2. wanted["cfg"]' = wanted["bus"] /\ wanted["bus"]' = wanted["bus"]
    BY <2>1 DEF SpeedInv, SpeedTypeOK
  <2> QED  BY <2>1, <2>2 DEF SpeedInv, SpeedTypeOK, Given
<1>4. CASE alt_avalon_i2c_master_config_set
  <2>1. bus' = cfg /\ cfg' = cfg /\ answer' = answer /\ wanted' = [wanted EXCEPT !["bus"] = wanted["cfg"]]
    BY <1>4 DEF alt_avalon_i2c_master_config_set
  <2>2. wanted["cfg"]' = wanted["cfg"] /\ wanted["bus"]' = wanted["cfg"]
    BY <2>1 DEF SpeedInv, SpeedTypeOK
  <2> QED  BY <2>1, <2>2 DEF SpeedInv, SpeedTypeOK, Given
<1>5. CASE ChooseMode
  <2>1. UNCHANGED <<bus, wanted, answer>>
    BY <1>5 DEF ChooseMode
  <2>2. cfg' \in Configs /\ cfg'.speed_mode = cfg.speed_mode /\ cfg'.scl_hcnt = cfg.scl_hcnt
        /\ cfg'.scl_lcnt = cfg.scl_lcnt /\ cfg'.sda_cnt = cfg.sda_cnt
    BY <1>5 DEF ChooseMode, SpeedInv, SpeedTypeOK, Configs, ADDR_MODE_7_BIT, ADDR_MODE_10_BIT
  <2> QED  BY <2>1, <2>2 DEF SpeedInv, SpeedTypeOK, Given
<1>6. CASE UNCHANGED speedVars
  BY <1>6 DEF speedVars, SpeedInv, SpeedTypeOK, Given
<1> QED  BY <1>1, <1>2, <1>3, <1>4, <1>5, <1>6 DEF SpeedNext

LEMMA SpeedInvKeeps == SpeedInv => SpeedKept
<1> SUFFICES ASSUME SpeedInv PROVE SpeedKept
  OBVIOUS
<1>1. wanted["cfg"] \in Nat /\ wanted["bus"] \in Nat
  <2>1. Speeds \cup {0, SS_MAX_HZ} \subseteq Nat
    <3>1. SS_MAX_HZ \in Nat
      BY SMT DEF SS_MAX_HZ
    <3> QED  BY <3>1, SpeedsAssumption
  <2>2. wanted["cfg"] \in Speeds \cup {0, SS_MAX_HZ} /\ wanted["bus"] \in Speeds \cup {0, SS_MAX_HZ}
    BY DEF SpeedInv, SpeedTypeOK
  <2> QED  BY <2>1, <2>2, Zenon
<1>2. Given(wanted["cfg"], cfg) /\ Given(wanted["bus"], bus)
  BY DEF SpeedInv
<1>3. Countable(wanted["cfg"]) => Runs(wanted["cfg"], cfg)
  BY <1>1, <1>2, GivenRuns
<1>4. Countable(wanted["bus"]) => Runs(wanted["bus"], bus)
  BY <1>1, <1>2, GivenRuns
<1>5. ASSUME Countable(wanted["cfg"]), answer # 0
      PROVE  answer >= wanted["cfg"] /\ ip_freq_in_hz < (ip_freq_in_hz \div answer + 2) * wanted["cfg"]
  <2>1. cfg.scl_lcnt \in Nat \ {0} /\ cfg.scl_hcnt \in Nat \ {0} /\ Runs(wanted["cfg"], cfg)
    BY <1>1, <1>2, <1>5, GivenRuns
  <2>2. answer \in Nat /\ answer = ip_freq_in_hz \div (cfg.scl_lcnt + cfg.scl_hcnt) /\ wanted["cfg"] # 0
    BY <1>1, <1>5 DEF SpeedInv, SpeedTypeOK, Countable
  <2> QED  BY <1>1, <2>1, <2>2, AnswerRuns
<1> QED  BY <1>3, <1>4, <1>5 DEF SpeedKept

(* At any speed that the counts can hold the controller and the program's  *)
(* structure run as they were asked to, and the driver says so, for any    *)
(* speeds a program asks for (altera_avalon_i2c.c:242-321).                *)
THEOREM SpeedTheorem == SpeedSpec => [](SpeedTypeOK /\ SpeedKept)
<1>1. SpeedInv => SpeedTypeOK /\ SpeedKept
  BY SpeedInvKeeps DEF SpeedInv
<1> QED  BY <1>1, SpeedInitHolds, SpeedStepKeeps, PTL DEF SpeedSpec
-----------------------------------------------------------------------------
(* Nothing can be opened before the standard channels are redirected, so   *)
(* that a descriptor is free for them.                                     *)
FilesInv == FilesTypeOK /\ NoFdLost /\ (opened # {} => booted = Std)

LEMMA FilesInvInit == FilesInit => FilesInv
<1> SUFFICES ASSUME FilesInit PROVE FilesInv
  OBVIOUS
<1> USE FilesAssumption DEF FilesInit
<1>1. Std \subseteq Fds /\ DevNull \in Drivers /\ DevNull # Nothing
  BY DEF Fds, Std, STDIN, STDOUT, STDERR, Drivers
<1>2. dev \in [Fds -> Drivers \cup {Nothing}]
  BY <1>1
<1>3. FilesTypeOK
  <2>1. registered \subseteq Drivers /\ booted \subseteq Std /\ opened \subseteq Fds
    BY <1>1
  <2>2. fd_flags \in [Fds -> SUBSET (ALT_FD_FLAGS_MASK \cup ALT_FCNTL_FLAGS_MASK \cup ACCMODE)]
    OBVIOUS
  <2>3. alt_max_fd \in -1 .. MaxFd - 1 /\ result \in Int
    OBVIOUS
  <2>4. exited \in BOOLEAN
    BY Zenon
  <2>5. QED  BY <1>2, <2>1, <2>2, <2>3, <2>4, Zenon DEF FilesTypeOK
<1>4. NoFdLost
  BY <1>1 DEF NoFdLost, Open
<1>5. opened = {}
  OBVIOUS
<1>6. QED  BY <1>3, <1>4, <1>5, Zenon DEF FilesInv

(* Calls with a descriptor change no more than one descriptor's flags, but *)
(* for close.                                                              *)
FlagsType == fd_flags' \in [Fds -> SUBSET (ALT_FD_FLAGS_MASK \cup ALT_FCNTL_FLAGS_MASK \cup ACCMODE)]

LEMMA FileCallsType ==
  ASSUME FilesInv, NEW f \in Fds, Open(f), FileCalls(f)
  PROVE  FilesInv'
<1> USE FilesAssumption DEF FilesInv, FilesTypeOK
<1>1. CASE ALT_CLOSE(f)
  <2>1. result' \in Int
    BY <1>1 DEF ALT_CLOSE
  <2>2. /\ dev' \in [Fds -> Drivers \cup {Nothing}] /\ FlagsType
        /\ opened' \subseteq Fds
    BY <1>1 DEF ALT_CLOSE, alt_release_fd, FlagsType
  <2>3. NoFdLost'
    <3>1. CASE f \in Std
      BY <1>1, <3>1 DEF ALT_CLOSE, alt_release_fd, NoFdLost, Open
    <3>2. CASE f \notin Std
      BY <1>1, <3>2 DEF ALT_CLOSE, alt_release_fd, NoFdLost, Open
    <3>3. QED  BY <3>1, <3>2
  <2>4. QED  BY <1>1, <2>1, <2>2, <2>3 DEF FileCalls, ALT_CLOSE, FlagsType
<1>2. CASE UNCHANGED <<dev, alt_max_fd, opened>> /\ ~ALT_CLOSE(f)
  <2>1. result' \in Int /\ FlagsType
    <3>1. CASE ALT_IOCTL(f)
      BY <3>1 DEF ALT_IOCTL, alt_fd_lock, alt_fd_unlock, DriverAnswers, FlagsType, EXCL, ALT_FD_FLAGS_MASK
    <3>2. CASE ALT_FCNTL(f)
      BY <3>2 DEF ALT_FCNTL, FlagsType
    <3>3. CASE ALT_READ(f) \/ ALT_WRITE(f)
      BY <3>3 DEF ALT_READ, ALT_WRITE, DriverAnswers, FlagsType
    <3>4. CASE ALT_LSEEK(f) \/ ALT_FSTAT(f) \/ ALT_ISATTY(f)
      BY <3>4 DEF ALT_LSEEK, ALT_FSTAT, ALT_ISATTY, DriverAnswers, FlagsType
    <3>5. QED  BY <1>2, <3>1, <3>2, <3>3, <3>4 DEF FileCalls
  <2>2. NoFdLost'
    BY <1>2 DEF NoFdLost, Open
  <2>3. QED  BY <1>2, <2>1, <2>2 DEF FileCalls, FlagsType
<1>3. QED  BY <1>1, <1>2 DEF FileCalls

(* open takes the first free descriptor and keeps it only when it returns  *)
(* it.                                                                     *)
LEMMA OpenCallType ==
  ASSUME FilesInv, OpenCall
  PROVE  FilesInv'
<1> USE FilesAssumption DEF FilesInv, FilesTypeOK
<1>1. UNCHANGED <<registered, booted, exited>> /\ booted = Std
  BY DEF OpenCall
<1>2. ASSUME NEW name \in Drivers, NEW flags \in Modes, ALT_OPEN(name, flags)
      PROVE  FilesInv'
  <2>1. CASE (~alt_find_dev(name) /\ ~alt_find_file(name)) \/ FreeFds = {}
    <3>1. UNCHANGED <<dev, fd_flags, alt_max_fd, opened>> /\ result' \in {-24, -19}
      BY <1>2, <2>1 DEF ALT_OPEN
    <3>2. QED  BY <1>1, <3>1 DEF NoFdLost, Open
  <2>2. CASE (alt_find_dev(name) \/ alt_find_file(name)) /\ FreeFds # {}
    <3> DEFINE f == Min(FreeFds)
    <3>1. f \in Fds /\ ~Open(f)
      BY <2>2, FreeType
    <3>2. alt_max_fd' = HighWater(f)
      BY <1>2, <2>2 DEF ALT_OPEN
    <3>3. alt_max_fd' \in 0 .. MaxFd - 1 /\ alt_max_fd' >= f /\ alt_max_fd' >= alt_max_fd
      BY <3>1, <3>2, HighWaterType
    <3>4. CASE \E e \in {-13, -5} : Refused(e, name, f)
      <4>1. result' \in Int /\ FlagsType /\ UNCHANGED <<dev, opened>>
        BY <3>1, <3>4 DEF Refused, FlagsType
      <4>2. NoFdLost'
        BY <3>3, <4>1 DEF NoFdLost, Open, Fds
      <4>3. QED  BY <1>1, <3>3, <4>1, <4>2 DEF FlagsType
    <3>5. CASE Opened(name, f, flags)
      <4>1. name # Nothing
        OBVIOUS
      <4>2. result' \in Int /\ FlagsType
        <5> DEFINE given == (flags \ ALT_FD_FLAGS_MASK) \cup (IF name \in Devices THEN {DEV} ELSE {})
        <5>1. flags \in SUBSET (ALT_FCNTL_FLAGS_MASK \cup ACCMODE)
          BY DEF ALT_FCNTL_FLAGS_MASK, ACCMODE
        <5>2. given \in SUBSET (ALT_FD_FLAGS_MASK \cup ALT_FCNTL_FLAGS_MASK \cup ACCMODE)
          BY <5>1 DEF ALT_FD_FLAGS_MASK
        <5>3. fd_flags' = [fd_flags EXCEPT ![f] = given] /\ result' = 0
          BY <3>5 DEF Opened
        <5> HIDE DEF given
        <5>4. QED  BY <3>1, <5>2, <5>3 DEF FlagsType
      <4>3. dev' = [dev EXCEPT ![f] = name] /\ opened' = opened \cup {f}
        BY <3>5 DEF Opened
      <4>4. NoFdLost'
        BY <3>1, <3>3, <4>1, <4>3 DEF NoFdLost, Open, Fds
      <4>5. QED  BY <1>1, <3>1, <3>3, <4>2, <4>3, <4>4 DEF FlagsType
    <3>6. Refused(-13, name, f) \/ Refused(-5, name, f) \/ Opened(name, f, flags)
      <4>1. IF alt_find_dev(name) /\ alt_file_locked(name, f) THEN Refused(-13, name, f)
            ELSE \/ Opened(name, f, flags)
                 \/ "open" \in Functions[name] /\ Refused(-5, name, f)
        BY <1>2, <2>2, Zenon DEF ALT_OPEN
      <4>2. QED  BY <4>1, Zenon
    <3>7. QED  BY <3>4, <3>5, <3>6
  <2>3. QED  BY <2>1, <2>2
<1>3. ASSUME NEW name \in Drivers, ALT_STAT(name)
      PROVE  FilesInv'
  <2>1. UNCHANGED <<dev, fd_flags, opened>> /\ result' \in Int
    BY <1>3 DEF ALT_STAT
  <2>2. alt_max_fd' \in -1 .. MaxFd - 1 /\ alt_max_fd' >= alt_max_fd
    <3>1. CASE Statable(name)
      <4>1. Min(FreeFds) \in Fds
        BY <3>1, FreeType DEF Statable
      <4>2. alt_max_fd' = HighWater(Min(FreeFds))
        BY <1>3, <3>1 DEF ALT_STAT
      <4>3. QED  BY <4>1, <4>2, HighWaterType
    <3>2. CASE ~Statable(name)
      BY <1>3, <3>2 DEF ALT_STAT
    <3>3. QED  BY <3>1, <3>2
  <2>3. NoFdLost'
    BY <2>1, <2>2 DEF NoFdLost, Open, Fds
  <2>4. QED  BY <1>1, <2>1, <2>2, <2>3
<1>4. QED  BY <1>2, <1>3 DEF OpenCall

(* The descriptor that a channel's device is opened with is free again.    *)
LEMMA RedirectType ==
  ASSUME FilesInv, NEW f \in Std, NEW flags \in SUBSET ACCMODE, Redirect(f, flags)
  PROVE  FilesInv'
<1> USE FilesAssumption DEF FilesInv, FilesTypeOK
<1>1. f \in Fds /\ booted' \subseteq Std /\ UNCHANGED <<registered, opened, exited>>
  BY DEF Redirect, Fds, Std, STDIN, STDOUT, STDERR
<1>2. opened = {}
  BY DEF Redirect
<1>3. CASE Console \notin registered
  BY <1>1, <1>2, <1>3 DEF Redirect, NoFdLost, Open
<1>4. CASE Console \in registered
  <2>1. 3 \in FreeFds
    BY <1>2 DEF FreeFds, NoFdLost, Open, Fds, Std, STDIN, STDOUT, STDERR
  <2>2. Min(FreeFds) \in Fds
    BY <2>1, FreeType
  <2>3. alt_max_fd' \in 0 .. MaxFd - 1 /\ result' \in Int
    BY <1>4, <2>2, HighWaterType DEF Redirect
  <2>4. dev' = [dev EXCEPT ![f] = Console] /\ fd_flags' = [fd_flags EXCEPT ![f] = flags \cup {DEV}]
    BY <1>4 DEF Redirect
  <2>5. Console # Nothing /\ Console \in Drivers
    BY <1>4
  <2>6. FlagsType
    BY <1>1, <2>4 DEF FlagsType, DEV, ALT_FD_FLAGS_MASK
  <2>7. NoFdLost'
    BY <1>1, <1>2, <2>4, <2>5 DEF NoFdLost, Open
  <2>8. QED  BY <1>1, <1>2, <2>3, <2>4, <2>5, <2>6, <2>7 DEF FlagsType
<1>5. QED  BY <1>3, <1>4

LEMMA FilesInvStep == FilesInv /\ [FilesNext]_filesVars => FilesInv'
<1> SUFFICES ASSUME FilesInv, [FilesNext]_filesVars PROVE FilesInv'
  OBVIOUS
<1> USE FilesAssumption
<1>1. CASE UNCHANGED filesVars
  BY <1>1 DEF filesVars, FilesInv, FilesTypeOK, NoFdLost, Open
<1>2. ASSUME NEW d \in Drivers, Register(d)
      PROVE  FilesInv'
  BY <1>2 DEF Register, alt_dev_llist_insert, alt_fs_reg, FilesInv, FilesTypeOK, NoFdLost, Open, Drivers
<1>3. CASE alt_io_redirect
  <2>1. {"WRONLY"} \in SUBSET ACCMODE /\ {} \in SUBSET ACCMODE /\ Std = {STDIN, STDOUT, STDERR}
    BY DEF ACCMODE, Std
  <2>2. QED  BY <1>3, <2>1, RedirectType DEF alt_io_redirect
<1>4. CASE OpenCall
  BY <1>4, OpenCallType
<1>5. ASSUME NEW f \in Fds, Open(f), FileCalls(f)
      PROVE  FilesInv'
  BY <1>5, FileCallsType
<1>6. CASE BadFd
  BY <1>6 DEF BadFd, FilesInv, FilesTypeOK, NoFdLost, Open
<1>7. CASE SystemCall
  <2>1. CASE ALT_KILL
    <3>1. result' \in Int
      BY <2>1 DEF ALT_KILL, FilesInv, FilesTypeOK
    <3>2. exited' \in BOOLEAN
      BY <2>1, Zenon DEF ALT_KILL, FilesInv, FilesTypeOK
    <3>3. QED  BY <1>7, <3>1, <3>2 DEF SystemCall, FilesInv, FilesTypeOK, NoFdLost, Open
  <2>2. CASE ~ALT_KILL
    <3>1. result' \in {-88, -10, 0}
      BY <1>7, <2>2 DEF SystemCall, ALT_LINK, ALT_UNLINK, ALT_RENAME, ALT_FORK, ALT_EXECVE, ALT_WAIT,
                        ALT_GETPID, ENOSYS
    <3>2. UNCHANGED exited
      BY <1>7, <2>2 DEF SystemCall
    <3>3. QED  BY <1>7, <3>1, <3>2 DEF SystemCall, FilesInv, FilesTypeOK, NoFdLost, Open
  <2>3. QED  BY <2>1, <2>2
<1>8. QED  BY <1>1, <1>2, <1>3, <1>4, <1>5, <1>6, <1>7 DEF FilesNext

(* The types of all that the file calls keep.                              *)
THEOREM FilesTypeTheorem == FilesSpec => []FilesTypeOK
<1>1. FilesInv => FilesTypeOK
  BY DEF FilesInv
<1>2. QED  BY FilesInvInit, FilesInvStep, <1>1, PTL DEF FilesSpec

(* No descriptor is lost, however opens fail and drivers answer, and none  *)
(* in use is beyond the mark.                                              *)
THEOREM NoFdLostTheorem == FilesSpec => []NoFdLost
<1>1. FilesInv => NoFdLost
  BY DEF FilesInv
<1>2. QED  BY FilesInvInit, FilesInvStep, <1>1, PTL DEF FilesSpec
-----------------------------------------------------------------------------
(* A lock is only on a device, below the mark where the search for others  *)
(* ends, and on none before the standard channels are redirected.          *)
Marked(f) == dev[f] \in Devices /\ f <= alt_max_fd
LockInv ==
  \A f \in Fds : /\ DEV \in fd_flags[f] => Marked(f)
                 /\ EXCL \in fd_flags[f] => DEV \in fd_flags[f] /\ booted = Std

Names == FilesAssumption /\ EXCL \notin StatusFlags /\ DEV \notin StatusFlags /\ EXCL # DEV

LEMMA NamesDiffer == Names
  BY FilesAssumption DEF Names, EXCL, DEV

(* What open gives a descriptor: the mark of a device, and no lock.        *)
LEMMA OpenedFlags ==
  ASSUME NEW flags \in Modes, NEW name \in Drivers
  PROVE  LET given == (flags \ ALT_FD_FLAGS_MASK) \cup (IF name \in Devices THEN {DEV} ELSE {})
         IN EXCL \notin given /\ (DEV \in given => name \in Devices)
  BY DEF ALT_FD_FLAGS_MASK, EXCL, DEV

LEMMA LockInvInit == FilesInit => LockInv
  BY DEF FilesInit, LockInv

LEMMA LockInvOpen ==
  ASSUME FilesInv, LockInv, OpenCall
  PROVE  LockInv'
<1> USE DEF FilesInv, FilesTypeOK
<1>1. booted' = booted /\ alt_max_fd \in Int
  BY DEF OpenCall
<1>2. ASSUME UNCHANGED <<dev, fd_flags>>, alt_max_fd' \in Int, alt_max_fd' >= alt_max_fd
      PROVE  LockInv'
  BY <1>1, <1>2, FilesAssumption DEF LockInv, Marked, Fds
<1>3. ASSUME NEW f \in Fds
      PROVE  HighWater(f) \in Int /\ HighWater(f) >= alt_max_fd /\ HighWater(f) >= f
  BY <1>3, HighWaterType
<1>4. ASSUME NEW name \in Drivers, NEW flags \in Modes, ALT_OPEN(name, flags)
      PROVE  LockInv'
  <2>1. CASE (~alt_find_dev(name) /\ ~alt_find_file(name)) \/ FreeFds = {}
    BY <1>1, <1>2, <1>4, <2>1 DEF ALT_OPEN
  <2>2. CASE (alt_find_dev(name) \/ alt_find_file(name)) /\ FreeFds # {}
    <3> DEFINE f == Min(FreeFds)
    <3>1. f \in Fds /\ alt_max_fd' = HighWater(f)
      BY <1>4, <2>2, FreeType DEF ALT_OPEN
    <3>2. alt_max_fd' \in Int /\ alt_max_fd' >= alt_max_fd /\ alt_max_fd' >= f
      BY <1>3, <3>1
    <3>3. IF alt_find_dev(name) /\ alt_file_locked(name, f) THEN Refused(-13, name, f)
          ELSE \/ Opened(name, f, flags)
               \/ "open" \in Functions[name] /\ Refused(-5, name, f)
      BY <1>4, <2>2, Zenon DEF ALT_OPEN
    <3>4. CASE Refused(-13, name, f) \/ Refused(-5, name, f)
      <4>1. dev' = dev /\ fd_flags' = [fd_flags EXCEPT ![f] = {}]
        BY <3>4 DEF Refused
      <4>2. QED  BY <1>1, <3>1, <3>2, <4>1, FilesAssumption DEF LockInv, Marked, Fds
    <3>5. CASE Opened(name, f, flags)
      <4> DEFINE given == (flags \ ALT_FD_FLAGS_MASK) \cup (IF name \in Devices THEN {DEV} ELSE {})
      <4>1. dev' = [dev EXCEPT ![f] = name] /\ fd_flags' = [fd_flags EXCEPT ![f] = given]
        BY <3>5 DEF Opened
      <4>2. EXCL \notin given /\ (DEV \in given => name \in Devices)
        BY OpenedFlags
      <4> HIDE DEF given
      <4>3. QED  BY <1>1, <3>1, <3>2, <4>1, <4>2, FilesAssumption DEF LockInv, Marked, Fds
    <3>6. QED  BY <3>3, <3>4, <3>5, Zenon
  <2>3. QED  BY <2>1, <2>2
<1>5. ASSUME NEW name \in Drivers, ALT_STAT(name)
      PROVE  LockInv'
  <2>1. UNCHANGED <<dev, fd_flags>>
    BY <1>5 DEF ALT_STAT
  <2>2. CASE Statable(name)
    <3>1. Min(FreeFds) \in Fds /\ alt_max_fd' = HighWater(Min(FreeFds))
      BY <1>5, <2>2, FreeType DEF ALT_STAT, Statable
    <3>2. QED  BY <1>2, <1>3, <2>1, <3>1
  <2>3. CASE ~Statable(name)
    BY <1>1, <1>2, <1>5, <2>1, <2>3 DEF ALT_STAT
  <2>4. QED  BY <2>2, <2>3
<1>6. QED  BY <1>4, <1>5 DEF OpenCall

LEMMA LockInvCalls ==
  ASSUME FilesInv, LockInv, NEW f \in Fds, Open(f), FileCalls(f)
  PROVE  LockInv'
<1> USE NamesDiffer DEF FilesInv, FilesTypeOK, Names
<1>1. booted' = booted /\ booted = Std
  BY DEF FileCalls
<1>2. CASE ALT_CLOSE(f)
  BY <1>1, <1>2 DEF ALT_CLOSE, alt_release_fd, LockInv, Marked
<1>3. ASSUME UNCHANGED <<dev, alt_max_fd>>,
             NEW S, fd_flags' = [fd_flags EXCEPT ![f] = S],
             DEV \in S <=> DEV \in fd_flags[f], EXCL \in S => DEV \in fd_flags[f]
      PROVE  LockInv'
  BY <1>1, <1>3 DEF LockInv, Marked
<1>4. CASE UNCHANGED <<dev, alt_max_fd, opened>> /\ UNCHANGED fd_flags
  BY <1>1, <1>4 DEF LockInv, Marked
<1>5. CASE UNCHANGED <<dev, alt_max_fd, opened>> /\ ~UNCHANGED fd_flags
  <2>1. CASE ALT_IOCTL(f)
    <3>1. DEV \in fd_flags[f] /\ (alt_fd_lock(f) \/ alt_fd_unlock(f))
      BY <1>5, <2>1 DEF ALT_IOCTL, DriverAnswers
    <3>2. CASE alt_fd_lock(f)
      <4>1. fd_flags' = [fd_flags EXCEPT ![f] = fd_flags[f] \cup {EXCL}]
        BY <1>5, <3>2 DEF alt_fd_lock
      <4>2. QED  BY <1>3, <1>5, <3>1, <4>1
    <3>3. CASE alt_fd_unlock(f)
      <4>1. fd_flags' = [fd_flags EXCEPT ![f] = fd_flags[f] \ {EXCL}]
        BY <3>3 DEF alt_fd_unlock
      <4>2. QED  BY <1>3, <1>5, <3>1, <4>1
    <3>4. QED  BY <3>1, <3>2, <3>3
  <2>2. CASE ALT_FCNTL(f)
    <3>1. PICK flags \in SUBSET StatusFlags :
            fd_flags' = [fd_flags EXCEPT ![f] = (fd_flags[f] \ StatusFlags) \cup flags]
      BY <1>5, <2>2 DEF ALT_FCNTL, ALT_FCNTL_FLAGS_MASK
    <3>2. EXCL \in fd_flags[f] => DEV \in fd_flags[f]
      BY DEF LockInv
    <3>3. QED  BY <1>3, <1>5, <3>1, <3>2
  <2>3. CASE ALT_READ(f) \/ ALT_WRITE(f) \/ ALT_LSEEK(f) \/ ALT_FSTAT(f) \/ ALT_ISATTY(f)
    BY <1>5, <2>3 DEF ALT_READ, ALT_WRITE, ALT_LSEEK, ALT_FSTAT, ALT_ISATTY, DriverAnswers
  <2>4. CASE ALT_CLOSE(f)
    BY <1>2, <2>4
  <2>5. QED  BY <2>1, <2>2, <2>3, <2>4 DEF FileCalls
<1>6. QED  BY <1>2, <1>4, <1>5 DEF FileCalls

LEMMA LockInvRedirect ==
  ASSUME FilesInv, LockInv, NEW f \in Std, NEW flags \in SUBSET ACCMODE, Redirect(f, flags)
  PROVE  LockInv'
<1> USE FilesAssumption DEF FilesInv, FilesTypeOK
<1>1. f \in Fds /\ opened = {} /\ alt_max_fd \in Int
  BY DEF Redirect, Fds, Std, STDIN, STDOUT, STDERR
<1>2. \A g \in Fds : EXCL \notin fd_flags[g]
  BY DEF Redirect, LockInv
<1>3. CASE Console \notin registered
  BY <1>2, <1>3 DEF Redirect, LockInv, Marked
<1>4. CASE Console \in registered
  <2>1. 3 \in FreeFds
    BY <1>1 DEF FreeFds, NoFdLost, Open, Fds, Std, STDIN, STDOUT, STDERR
  <2>2. Min(FreeFds) \in Fds /\ Min(FreeFds) \notin Std
    BY <2>1, FreeType DEF NoFdLost
  <2>3. Min(FreeFds) > f
    BY <1>1, <2>2 DEF Std, Fds, STDIN, STDOUT, STDERR
  <2>4. alt_max_fd' = HighWater(Min(FreeFds))
    BY <1>4 DEF Redirect
  <2>5. alt_max_fd' \in Int /\ alt_max_fd' >= alt_max_fd /\ alt_max_fd' >= f
    BY <1>1, <2>2, <2>3, <2>4, HighWaterType DEF Fds
  <2>6. dev' = [dev EXCEPT ![f] = Console] /\ fd_flags' = [fd_flags EXCEPT ![f] = flags \cup {DEV}]
    BY <1>4 DEF Redirect
  <2>7. EXCL \notin flags \cup {DEV}
    BY DEF ACCMODE, EXCL, DEV
  <2>8. QED  BY <1>1, <1>2, <2>5, <2>6, <2>7 DEF LockInv, Marked, Fds
<1>5. QED  BY <1>3, <1>4

LEMMA LockInvStep == FilesInv /\ LockInv /\ [FilesNext]_filesVars => LockInv'
<1> SUFFICES ASSUME FilesInv, LockInv, [FilesNext]_filesVars PROVE LockInv'
  OBVIOUS
<1>1. CASE UNCHANGED <<dev, fd_flags, alt_max_fd, booted>>
  BY <1>1 DEF LockInv, Marked
<1>2. CASE alt_io_redirect
  <2>1. {"WRONLY"} \in SUBSET ACCMODE /\ {} \in SUBSET ACCMODE /\ Std = {STDIN, STDOUT, STDERR}
    BY DEF ACCMODE, Std
  <2>2. QED  BY <1>2, <2>1, LockInvRedirect DEF alt_io_redirect
<1>3. CASE OpenCall
  BY <1>3, LockInvOpen
<1>4. ASSUME NEW f \in Fds, Open(f), FileCalls(f)
      PROVE  LockInv'
  BY <1>4, LockInvCalls
<1>5. QED  BY <1>1, <1>2, <1>3, <1>4 DEF FilesNext, filesVars, Register, BadFd, SystemCall
-----------------------------------------------------------------------------
(* No step adds a descriptor to a device that is locked, or takes the lock *)
(* from another descriptor than its own.                                   *)
LEMMA LockStep ==
  ASSUME FilesInv, LockInv, FilesNext, NEW f \in Fds, EXCL \in fd_flags[f]
  PROVE  Locks(f)
<1> USE NamesDiffer DEF FilesInv, FilesTypeOK, Names
<1>1. dev[f] \in Devices /\ f <= alt_max_fd /\ booted = Std /\ Open(f)
  BY DEF LockInv, Marked, Open, Drivers
<1>2. CASE UNCHANGED <<dev, fd_flags>>
  BY <1>2 DEF Locks
<1>3. CASE OpenCall
  <2>1. ASSUME NEW name \in Drivers, NEW flags \in Modes,
               ALT_OPEN(name, flags), ~UNCHANGED <<dev, fd_flags>>
        PROVE  Locks(f)
    <3> DEFINE new == Min(FreeFds)
    <3>1. (alt_find_dev(name) \/ alt_find_file(name)) /\ FreeFds # {}
      BY <2>1 DEF ALT_OPEN
    <3>2. new \in Fds /\ ~Open(new) /\ new # f
      BY <1>1, <3>1, FreeType
    <3>3. IF alt_find_dev(name) /\ alt_file_locked(name, new) THEN Refused(-13, name, new)
          ELSE \/ Opened(name, new, flags)
               \/ "open" \in Functions[name] /\ Refused(-5, name, new)
      BY <2>1, <3>1, Zenon DEF ALT_OPEN
    <3>4. CASE Refused(-13, name, new) \/ Refused(-5, name, new)
      BY <3>2, <3>4 DEF Refused, Locks
    <3>5. CASE Opened(name, new, flags) /\ ~(alt_find_dev(name) /\ alt_file_locked(name, new))
      <4>1. name # dev[f]
        <5>1. SUFFICES ASSUME name = dev[f] PROVE FALSE
          OBVIOUS
        <5>2. alt_find_dev(name)
          BY <1>1, <3>1, <5>1 DEF alt_find_dev, alt_find_file
        <5>3. f \in 0 .. alt_max_fd
          BY <1>1 DEF Fds
        <5>4. alt_file_locked(name, new)
          BY <3>2, <5>1, <5>3 DEF alt_file_locked
        <5>5. QED  BY <3>5, <5>2, <5>4
      <4>2. dev' = [dev EXCEPT ![new] = name] /\ fd_flags'[f] = fd_flags[f]
        BY <3>2, <3>5 DEF Opened
      <4>3. QED  BY <3>2, <4>1, <4>2 DEF Locks
    <3>6. QED  BY <3>3, <3>4, <3>5, Zenon
  <2>2. ASSUME NEW name \in Drivers, ALT_STAT(name)
        PROVE  UNCHANGED <<dev, fd_flags>>
    BY <2>2 DEF ALT_STAT
  <2>3. QED  BY <1>2, <1>3, <2>1, <2>2 DEF OpenCall
<1>4. ASSUME NEW g \in Fds, Open(g), FileCalls(g), ~UNCHANGED <<dev, fd_flags>>
      PROVE  Locks(f)
  <2>1. CASE ALT_CLOSE(g)
    <3>1. CASE g = f
      BY <1>1, <2>1, <3>1 DEF ALT_CLOSE, alt_release_fd, Locks, Drivers
    <3>2. CASE g # f
      BY <1>1, <2>1, <3>2 DEF ALT_CLOSE, alt_release_fd, Locks, Drivers
    <3>3. QED  BY <3>1, <3>2
  <2>2. CASE UNCHANGED dev /\ ALT_IOCTL(g)
    <3>1. alt_fd_lock(g) \/ alt_fd_unlock(g)
      BY <1>4, <2>2 DEF ALT_IOCTL, DriverAnswers
    <3>2. CASE g = f
      BY <2>2, <3>1, <3>2 DEF alt_fd_lock, Locks
    <3>3. CASE g # f
      BY <2>2, <3>1, <3>3 DEF alt_fd_lock, alt_fd_unlock, Locks
    <3>4. QED  BY <3>2, <3>3
  <2>3. CASE UNCHANGED dev /\ ALT_FCNTL(g)
    BY <2>3 DEF ALT_FCNTL, ALT_FCNTL_FLAGS_MASK, Locks
  <2>4. QED  BY <1>4, <2>1, <2>2, <2>3
             DEF FileCalls, ALT_READ, ALT_WRITE, ALT_LSEEK, ALT_FSTAT, ALT_ISATTY, DriverAnswers
<1>5. ~alt_io_redirect
  BY <1>1 DEF alt_io_redirect, Redirect, Std
<1>6. QED  BY <1>2, <1>3, <1>4, <1>5 DEF FilesNext, filesVars, Register, BadFd, SystemCall

(* Exclusive access to a device is kept until its holder gives it up.      *)
THEOREM LockKeptTheorem == FilesSpec => LockKept
<1>1. FilesInv /\ LockInv /\ [FilesNext]_filesVars
        => [\A f \in Fds : EXCL \in fd_flags[f] => Locks(f)]_filesVars
  BY LockStep
<1>2. QED  BY FilesInvInit, FilesInvStep, LockInvInit, LockInvStep, <1>1, PTL DEF FilesSpec, LockKept

-----------------------------------------------------------------------------
(* The console.  The invariant says of each slot in use which character it *)
(* holds, counted from the last one that left; that a copy of the other    *)
(* side's pointer is behind it, so that the room or the characters it      *)
(* showed are still there; and that the handler knows of no more room in   *)
(* the FIFO than there is.                                                 *)
JtagPcs == {"idle", "write", "copy", "kick", "wait", "inactive", "return", "close",
            "read", "take", "await", "enable"}

JtagFacts ==
  /\ wfifo \in Seq(Char) /\ rfifo \in Seq(Char) /\ Len(wfifo) <= Fifo /\ Len(rfifo) <= Fifo
  /\ rx_in \in Slots /\ rx_out \in Slots /\ tx_in \in Slots /\ tx_out \in Slots /\ other \in Slots
  /\ put \in Char /\ jtag_got \in Char /\ heard \in Char /\ typed \in Char
  /\ tx_buf \in [Slots -> Char \cup {Free}] /\ rx_buf \in [Slots -> Char \cup {Free}]
  /\ irq_enable \subseteq {"RE", "WE"}
  /\ jtag_isr \in {"off", "control", "rx", "tx"} /\ space \in 0..Fifo
  /\ jtag_pc \in JtagPcs /\ jtag_left \in Nat /\ moved \in Nat
  /\ host_inactive \in 0..IntMax - 2 /\ timeout \in 2..IntMax - 1

Sent == Used(tx_in, tx_out)
Waiting == Used(rx_in, rx_out)

TxOrder ==
  /\ \A k \in 1..Len(wfifo) : wfifo[k] = Plus(heard, k)
  /\ \A s \in Slots : Used(s, tx_out) < Sent =>
       tx_buf[s] = Plus(heard, Len(wfifo) + Used(s, tx_out) + 1)
  /\ put = Plus(heard, Len(wfifo) + Sent)

RxOrder ==
  /\ \A k \in 1..Len(rfifo) : rfifo[k] = Plus(jtag_got, Waiting + k)
  /\ \A s \in Slots : Used(s, rx_out) < Waiting => rx_buf[s] = Plus(jtag_got, Used(s, rx_out) + 1)
  /\ typed = Plus(jtag_got, Waiting + Len(rfifo))

\* what was looked at is still there
Behind ==
  /\ jtag_isr \in {"rx", "tx"} => space <= Fifo - Len(wfifo)
  /\ jtag_pc = "copy" => Sent <= Used(tx_in, other)
  /\ jtag_pc = "take" => jtag_left > 0 /\ Ready(other, rx_out) > 0 /\ Used(other, rx_out) <= Waiting

Awake ==
  /\ "RE" \notin irq_enable => RxFull \/ jtag_pc = "enable" \/ (jtag_pc \in {"read", "take"} /\ moved > 0)
  /\ tx_in # tx_out => "WE" \in irq_enable \/ jtag_pc \in {"write", "copy", "kick"}

JtagInv == JtagFacts /\ TxOrder /\ RxOrder /\ Behind /\ Awake

(* Counting modulo some number, and around a ring.                         *)
LEMMA Modulo ==
  ASSUME NEW C \in Nat \ {0}
  PROVE  /\ \A a \in Int : a % C \in 0..C - 1
         /\ \A a \in 0..C - 1 : a % C = a
         /\ \A a \in Int, b \in Int : ((a % C) + b) % C = (a + b) % C
<1>1. ASSUME NEW a \in Int
      PROVE  a % C \in 0..C - 1 /\ a \div C \in Int /\ a = C * (a \div C) + (a % C)
  OBVIOUS
<1>2. ASSUME NEW r \in 0..C - 1, NEW i \in Int
      PROVE  (C * i + r) % C = r
  OBVIOUS
<1>3. ASSUME NEW a \in 0..C - 1
      PROVE  a % C = a
  <2>1. (C * 0 + a) % C = a
    BY <1>2
  <2>2. C * 0 + a = a
    <3>1. C * 0 = 0 /\ a \in Int
      OBVIOUS
    <3> QED  BY <3>1
  <2> QED  BY <2>1, <2>2
<1>4. ASSUME NEW a \in Int, NEW b \in Int
      PROVE  ((a % C) + b) % C = (a + b) % C
  <2> DEFINE r == a % C
             q == a \div C
  <2>1. r \in 0..C - 1 /\ q \in Int /\ a = C * q + r
    BY <1>1
  <2> HIDE DEF r, q
  <2> DEFINE r2 == (r + b) % C
             q2 == (r + b) \div C
  <2>2. r + b \in Int
    BY <2>1
  <2>3. r2 \in 0..C - 1 /\ q2 \in Int /\ r + b = C * q2 + r2
    BY <1>1, <2>2
  <2> HIDE DEF r2, q2
  <2>4. a + b = C * (q + q2) + r2 /\ q + q2 \in Int
    BY <2>1, <2>3
  <2>5. (C * (q + q2) + r2) % C = r2
    BY <1>2, <2>3, <2>4
  <2>6. (a + b) % C = r2
    BY <2>4, <2>5
  <2> QED  BY <2>6 DEF r, r2
<1> QED  BY <1>1, <1>3, <1>4

LEMMA CodesType == Codes \in Nat \ {0} /\ Char = 0..Codes - 1 /\ BufLen \in Nat /\ BufLen > 1 /\ Fifo \in Nat
<1>1. BufLen \in Nat /\ BufLen > 1 /\ Fifo \in Nat
  BY JtagAssumption
<1>2. Codes \in Nat \ {0}
  BY <1>1 DEF Codes
<1> QED  BY <1>1, <1>2 DEF Char

LEMMA Counting ==
  /\ \A c \in Char : c \in Int
  /\ \A c \in Int, n \in Int : Plus(c, n) \in Char
  /\ \A c \in Char : Plus(c, 0) = c
  /\ \A c \in Int, n \in Int, m \in Int : Plus(Plus(c, n), m) = Plus(c, n + m)
<1>1. PICK C \in Nat \ {0} : C = Codes
  BY CodesType
<1>2. Char = 0..C - 1 /\ \A c, n : Plus(c, n) = (c + n) % C
  BY <1>1 DEF Char, Plus
<1>3. \A a \in Int : a % C \in 0..C - 1
  BY Modulo, Zenon
<1>4. \A a \in 0..C - 1 : a % C = a
  BY Modulo, Zenon
<1>5. \A a \in Int, b \in Int : ((a % C) + b) % C = (a + b) % C
  BY Modulo, Zenon
<1>6. ASSUME NEW c \in Int, NEW n \in Int
      PROVE  Plus(c, n) \in Char
  <2>1. c + n \in Int
    OBVIOUS
  <2> QED  BY <1>2, <1>3, <2>1, Zenon
<1>7. ASSUME NEW c \in Char
      PROVE  Plus(c, 0) = c /\ c \in Int
  <2>1. c \in Int /\ c + 0 = c
    BY <1>2
  <2> QED  BY <1>2, <1>4, <2>1, Zenon
<1>8. ASSUME NEW c \in Int, NEW n \in Int, NEW m \in Int
      PROVE  Plus(Plus(c, n), m) = Plus(c, n + m)
  <2>1. c + n \in Int /\ (c + n) + m = c + (n + m)
    OBVIOUS
  <2>2. (((c + n) % C) + m) % C = ((c + n) + m) % C
    BY <1>5, <2>1, Zenon
  <2> QED  BY <1>2, <2>1, <2>2, Zenon
<1> QED  BY <1>6, <1>7, <1>8

LEMMA Around ==
  ASSUME NEW k \in 0..2 * BufLen - 1
  PROVE  Slot(k) = (IF k < BufLen THEN k ELSE k - BufLen) /\ Slot(k) \in 0..BufLen - 1 /\ Slot(k) \in Slots
<1>1. BufLen \in Nat /\ BufLen > 1
  BY JtagAssumption
<1>2. Slot(k) = IF k < BufLen THEN k ELSE k - BufLen
  <2>1. CASE k < BufLen
    BY <1>1, <2>1 DEF Slot
  <2>2. CASE k >= BufLen
    <3>1. k = BufLen + (k - BufLen) /\ k - BufLen \in 0..BufLen - 1
      BY <1>1, <2>2
    <3>2. (BufLen * 1 + (k - BufLen)) % BufLen = k - BufLen
      BY <1>1, <3>1
    <3>3. BufLen * 1 + (k - BufLen) = k
      BY <1>1
    <3> QED  BY <1>1, <2>2, <3>2, <3>3 DEF Slot
  <2> QED  BY <1>1, <2>1, <2>2
<1> QED  BY <1>1, <1>2 DEF Slots

LEMMA Ring ==
  ASSUME NEW i \in Slots, NEW o \in Slots
  PROVE  /\ Used(i, o) = (IF i >= o THEN i - o ELSE i - o + BufLen)
         /\ Used(i, o) \in 0..BufLen - 1 /\ Used(i, o) \in Slots
<1>1. BufLen \in Nat /\ BufLen > 1
  BY JtagAssumption
<1>2. i - o + BufLen \in 0..2 * BufLen - 1
  BY <1>1 DEF Slots
<1>3. Used(i, o) = Slot(i - o + BufLen)
  BY DEF Used
<1> DEFINE k == i - o + BufLen
<1>4. Slot(k) = (IF k < BufLen THEN k ELSE k - BufLen) /\ Slot(k) \in 0..BufLen - 1 /\ Slot(k) \in Slots
  <2>1. k \in 0..2 * BufLen - 1
    BY <1>2
  <2> HIDE DEF k
  <2> QED  BY <2>1, Around
<1> QED  BY <1>1, <1>3, <1>4 DEF Slots

(* What the pointers of a ring do to the distances from them.              *)
LEMMA Moves ==
  ASSUME NEW i \in Slots, NEW o \in Slots, NEW n \in Slots
  PROVE  /\ Slot(o + n) \in Slots
         /\ Used(Slot(o + n), o) = n
         /\ Used(i, o) + n < BufLen => Used(Slot(i + n), o) = Used(i, o) + n
         /\ n <= Used(i, o) => Used(i, Slot(o + n)) = Used(i, o) - n
         /\ \A s \in Slots : n <= Used(i, o) /\ Used(s, Slot(o + n)) < Used(i, o) - n
                               => Used(s, o) = Used(s, Slot(o + n)) + n
<1>1. BufLen \in Nat /\ BufLen > 1
  BY JtagAssumption
<1>2. /\ o + n \in 0..2 * BufLen - 1 /\ i + n \in 0..2 * BufLen - 1
      /\ i \in 0..BufLen - 1 /\ o \in 0..BufLen - 1 /\ n \in 0..BufLen - 1
  BY <1>1 DEF Slots
<1> DEFINE a == o + n
           b == i + n
           p == Slot(a)
           j == Slot(b)
<1>3. /\ p \in 0..BufLen - 1 /\ p \in Slots /\ p = (IF o + n < BufLen THEN o + n ELSE (o + n) - BufLen)
      /\ j \in 0..BufLen - 1 /\ j \in Slots /\ j = (IF i + n < BufLen THEN i + n ELSE (i + n) - BufLen)
  <2>1. a \in 0..2 * BufLen - 1 /\ b \in 0..2 * BufLen - 1
    BY <1>2
  <2> HIDE DEF a, b
  <2>2. /\ p \in 0..BufLen - 1 /\ p \in Slots /\ p = (IF a < BufLen THEN a ELSE a - BufLen)
        /\ j \in 0..BufLen - 1 /\ j \in Slots /\ j = (IF b < BufLen THEN b ELSE b - BufLen)
    BY <2>1, Around
  <2> QED  BY <2>2 DEF a, b
<1> HIDE DEF p, j
<1>4. \A c \in Slots, d \in Slots : Used(c, d) = IF c >= d THEN c - d ELSE c - d + BufLen
  BY Ring
<1>5. Used(p, o) = n
  BY <1>1, <1>2, <1>3, <1>4
<1>6. Used(i, o) + n < BufLen => Used(j, o) = Used(i, o) + n
  BY <1>1, <1>2, <1>3, <1>4
<1>7. n <= Used(i, o) => Used(i, p) = Used(i, o) - n
  BY <1>1, <1>2, <1>3, <1>4
<1>8. ASSUME NEW s \in Slots, n <= Used(i, o), Used(s, p) < Used(i, o) - n
      PROVE  Used(s, o) = Used(s, p) + n
  <2>1. s \in 0..BufLen - 1
    BY DEF Slots
  <2>2. /\ Used(s, p) = IF s >= p THEN s - p ELSE s - p + BufLen
        /\ Used(s, o) = IF s >= o THEN s - o ELSE s - o + BufLen
        /\ Used(i, o) = IF i >= o THEN i - o ELSE i - o + BufLen
    BY <1>3, <1>4
  <2> QED  BY <1>1, <1>2, <1>3, <1>8, <2>1, <2>2
<1> QED  BY <1>3, <1>5, <1>6, <1>7, <1>8 DEF p, j

(* Empty and full, and the room or the characters in one piece.            *)
LEMMA Pieces ==
  ASSUME NEW i \in Slots, NEW o \in Slots
  PROVE  /\ Used(i, o) = 0 <=> i = o
         /\ Slot(i + 1) = o <=> Used(i, o) = BufLen - 1
         /\ Room(i, o) \in Nat /\ i + Room(i, o) <= BufLen /\ Used(i, o) + Room(i, o) < BufLen
         /\ Ready(i, o) \in Nat /\ o + Ready(i, o) <= BufLen /\ Ready(i, o) <= Used(i, o)
         /\ Ready(i, o) = 0 => i = o
<1>1. BufLen \in Nat /\ BufLen > 1 /\ i \in 0..BufLen - 1 /\ o \in 0..BufLen - 1
  BY JtagAssumption DEF Slots
<1>2. Used(i, o) = IF i >= o THEN i - o ELSE i - o + BufLen
  BY Ring
<1>3. Slot(i + 1) = IF i + 1 < BufLen THEN i + 1 ELSE (i + 1) - BufLen
  <2> DEFINE k == i + 1
  <2>1. k \in 0..2 * BufLen - 1
    BY <1>1
  <2> HIDE DEF k
  <2>2. Slot(k) = IF k < BufLen THEN k ELSE k - BufLen
    BY <2>1, Around
  <2> QED  BY <2>2 DEF k
<1>4. Slot(i + 1) = o <=> Used(i, o) = BufLen - 1
  BY <1>1, <1>2, <1>3
<1>5. Used(i, o) = 0 <=> i = o
  BY <1>1, <1>2
<1>6. Room(i, o) \in Nat /\ i + Room(i, o) <= BufLen /\ Used(i, o) + Room(i, o) < BufLen
  BY <1>1, <1>2 DEF Room
<1>7. Ready(i, o) \in Nat /\ o + Ready(i, o) <= BufLen /\ Ready(i, o) <= Used(i, o)
      /\ (Ready(i, o) = 0 => i = o)
  BY <1>1, <1>2 DEF Ready
<1> QED  BY <1>4, <1>5, <1>6, <1>7

(* What the facts say of the rings.                                        *)
LEMMA JtagRings ==
  ASSUME JtagFacts
  PROVE  /\ Sent \in Slots /\ Waiting \in Slots /\ Sent \in Nat /\ Waiting \in Nat
         /\ BufLen \in Nat /\ BufLen > 1 /\ Fifo \in Nat \ {0} /\ Len(wfifo) \in Nat /\ Len(rfifo) \in Nat
         /\ heard \in Int /\ jtag_got \in Int /\ put \in Int /\ typed \in Int
<1>1. BufLen \in Nat /\ BufLen > 1 /\ Fifo \in Nat \ {0}
  BY JtagAssumption
<1>2. Sent \in Slots /\ Waiting \in Slots
  BY Ring DEF JtagFacts, Sent, Waiting
<1>3. Sent \in Nat /\ Waiting \in Nat
  BY <1>1, <1>2 DEF Slots
<1>4. heard \in Int /\ jtag_got \in Int /\ put \in Int /\ typed \in Int
  BY Counting DEF JtagFacts
<1>5. Len(wfifo) \in Nat /\ Len(rfifo) \in Nat
  BY DEF JtagFacts
<1> QED  BY <1>1, <1>2, <1>3, <1>4, <1>5

(* Of what a step leaves alone, what was said still holds.                 *)
LEMMA TxKept ==
  ASSUME TxOrder, UNCHANGED <<wfifo, heard, txring, put>>
  PROVE  TxOrder' /\ Sent' = Sent
<1>1. wfifo' = wfifo /\ heard' = heard /\ tx_in' = tx_in /\ tx_out' = tx_out /\ tx_buf' = tx_buf /\ put' = put
  BY DEF txring
<1> QED  BY <1>1, Zenon DEF TxOrder, Sent, Used, Slot, Plus

LEMMA RxKept ==
  ASSUME RxOrder, UNCHANGED <<rfifo, typed, rxring, jtag_got>>
  PROVE  RxOrder' /\ Waiting' = Waiting
<1>1. rfifo' = rfifo /\ typed' = typed /\ rx_in' = rx_in /\ rx_out' = rx_out /\ rx_buf' = rx_buf
      /\ jtag_got' = jtag_got
  BY DEF rxring
<1> QED  BY <1>1, Zenon DEF RxOrder, Waiting, Used, Slot, Plus
LEMMA JtagQuiet ==
  ASSUME JtagInv, JtagFacts', Behind', Awake',
         UNCHANGED <<wfifo, heard, txring, put, rfifo, typed, rxring, jtag_got>>
  PROVE  JtagInv'
BY TxKept, RxKept, Zenon DEF JtagInv

LEMMA JtagStart == JtagInit => JtagInv
<1> SUFFICES ASSUME JtagInit PROVE JtagInv
  OBVIOUS
<1>1. 0 \in Slots /\ 0 \in Char /\ BufLen \in Nat /\ BufLen > 1 /\ Fifo \in Nat \ {0}
  BY CodesType, JtagAssumption DEF Slots
<1>2. Used(0, 0) = 0
  BY <1>1, Ring
<1>3. IntMax \in Nat /\ Default \in 2..IntMax - 2
  BY JtagAssumption
<1>4. JtagFacts
  <2>1. tx_buf \in [Slots -> Char \cup {Free}] /\ rx_buf \in [Slots -> Char \cup {Free}]
    BY DEF JtagInit
  <2>2. wfifo = <<>> /\ rfifo = <<>> /\ wfifo \in Seq(Char) /\ rfifo \in Seq(Char) /\ Len(wfifo) = 0 /\ Len(rfifo) = 0
    BY DEF JtagInit
  <2>3. 0 \in 0..IntMax - 2 /\ Default \in 2..IntMax - 1
    BY <1>3
  <2>4. /\ irq_enable \subseteq {"RE", "WE"} /\ jtag_isr \in {"off", "control", "rx", "tx"} /\ jtag_pc \in JtagPcs
    BY DEF JtagInit, JtagPcs
  <2>5. space \in 0..Fifo /\ jtag_left \in Nat /\ moved \in Nat
    BY <1>1 DEF JtagInit
  <2> QED  BY <1>1, <2>1, <2>2, <2>3, <2>4, <2>5 DEF JtagInit, JtagFacts
<1>5. Plus(0, 0) = 0
  BY <1>1, Counting
<1>6. wfifo = <<>> /\ rfifo = <<>> /\ tx_in = 0 /\ tx_out = 0 /\ rx_in = 0 /\ rx_out = 0
      /\ heard = 0 /\ put = 0 /\ typed = 0 /\ jtag_got = 0 /\ Len(wfifo) = 0 /\ Len(rfifo) = 0
  BY DEF JtagInit
<1>7. Sent = 0 /\ Waiting = 0 /\ \A s \in Slots : Used(s, 0) \in 0..BufLen - 1
  BY <1>1, <1>2, <1>6, Ring DEF Sent, Waiting
<1>8. TxOrder
  BY <1>1, <1>5, <1>6, <1>7 DEF TxOrder
<1>9. RxOrder
  BY <1>1, <1>5, <1>6, <1>7 DEF RxOrder
<1>10. Behind /\ Awake
  BY <1>6 DEF JtagInit, Behind, Awake
<1> QED  BY <1>4, <1>8, <1>9, <1>10 DEF JtagInv

(* The host takes a character, and types another.                          *)
LEMMA HostKeeps == JtagInv /\ HostAccess => JtagInv'
<1> SUFFICES ASSUME JtagInv, HostAccess PROVE JtagInv'
  OBVIOUS
<1>0. JtagFacts
  BY DEF JtagInv
<1>1. /\ tx_in' = tx_in /\ tx_out' = tx_out /\ tx_buf' = tx_buf /\ rx_in' = rx_in /\ rx_out' = rx_out
      /\ rx_buf' = rx_buf /\ put' = put /\ jtag_got' = jtag_got
      /\ UNCHANGED <<irq_enable, host_inactive, timeout, jtag_isr, space, jtag_pc, jtag_left, moved, other>>
  BY DEF HostAccess, txring, rxring, handler, program
<1>2. Sent' = Sent /\ Waiting' = Waiting
  BY <1>1 DEF Sent, Waiting, Used, Slot
<1>3. /\ wfifo' \in Seq(Char) /\ Len(wfifo') <= Len(wfifo) /\ Len(wfifo') \in Nat /\ heard' \in Char
      /\ \A k \in 1..Len(wfifo') : wfifo'[k] = Plus(heard', k)
      /\ \A n \in Nat : Plus(heard', Len(wfifo') + n) = Plus(heard, Len(wfifo) + n)
  <2>1. CASE wfifo = <<>>
    BY <1>0, <2>1 DEF HostAccess, JtagInv, JtagFacts, TxOrder
  <2>2. CASE wfifo # <<>>
    <3>1. /\ Len(wfifo) \in Nat \ {0} /\ wfifo' = Tail(wfifo) /\ heard' = Head(wfifo)
          /\ Head(wfifo) = wfifo[1] /\ Len(Tail(wfifo)) = Len(wfifo) - 1 /\ Tail(wfifo) \in Seq(Char)
          /\ wfifo[1] \in Char /\ \A k \in 1..Len(wfifo) - 1 : Tail(wfifo)[k] = wfifo[k + 1]
      BY <1>0, <2>2 DEF HostAccess, JtagFacts
    <3>2. \A k \in 1..Len(wfifo) : wfifo[k] = Plus(heard, k)
      BY DEF JtagInv, TxOrder
    <3>3. heard' = Plus(heard, 1) /\ heard \in Int
      BY <1>0, <3>1, <3>2, JtagRings
    <3>4. \A m \in Int : Plus(heard', m) = Plus(heard, 1 + m)
      BY <3>3, Counting
    <3>5. ASSUME NEW k \in 1..Len(wfifo')
          PROVE  wfifo'[k] = Plus(heard', k)
      <4>1. k \in Int /\ k + 1 \in 1..Len(wfifo) /\ 1 + k = k + 1 /\ wfifo'[k] = wfifo[k + 1]
        BY <3>1
      <4> QED  BY <3>2, <3>4, <4>1
    <3>6. ASSUME NEW n \in Nat
          PROVE  Plus(heard', Len(wfifo') + n) = Plus(heard, Len(wfifo) + n)
      <4>1. Len(wfifo') + n \in Int /\ 1 + (Len(wfifo') + n) = Len(wfifo) + n
        BY <3>1
      <4> QED  BY <3>4, <4>1
    <3> QED  BY <3>1, <3>5, <3>6
  <2> QED  BY <2>1, <2>2
<1>4. /\ rfifo' \in Seq(Char) /\ Len(rfifo') <= Fifo /\ typed' \in Char
      /\ \A k \in 1..Len(rfifo') : rfifo'[k] = Plus(jtag_got, Waiting + k)
      /\ typed' = Plus(jtag_got, Waiting + Len(rfifo'))
  <2>1. CASE UNCHANGED <<rfifo, typed>>
    BY <1>0, <2>1 DEF JtagInv, JtagFacts, RxOrder
  <2>2. CASE Len(rfifo) < Fifo /\ typed' = Plus(typed, 1) /\ rfifo' = Append(rfifo, typed')
    <3>1. typed \in Int /\ jtag_got \in Int /\ Waiting \in Nat /\ Len(rfifo) \in Nat /\ Fifo \in Nat
      BY <1>0, JtagRings
    <3>2. typed = Plus(jtag_got, Waiting + Len(rfifo)) /\ \A k \in 1..Len(rfifo) : rfifo[k] = Plus(jtag_got, Waiting + k)
      BY DEF JtagInv, RxOrder
    <3>3. typed' \in Char
      BY <2>2, <3>1, Counting
    <3>4. typed' = Plus(jtag_got, (Waiting + Len(rfifo)) + 1)
      <4>1. Waiting + Len(rfifo) \in Int
        BY <3>1
      <4> QED  BY <2>2, <3>1, <3>2, <4>1, Counting
    <3>5. /\ rfifo' \in Seq(Char) /\ Len(rfifo') = Len(rfifo) + 1 /\ rfifo'[Len(rfifo) + 1] = typed'
          /\ \A k \in 1..Len(rfifo) : rfifo'[k] = rfifo[k]
      BY <1>0, <2>2, <3>3 DEF JtagFacts
    <3>6. Len(rfifo') <= Fifo /\ (Waiting + Len(rfifo)) + 1 = Waiting + Len(rfifo')
      BY <2>2, <3>1, <3>5
    <3>7. ASSUME NEW k \in 1..Len(rfifo')
          PROVE  rfifo'[k] = Plus(jtag_got, Waiting + k)
      <4>1. CASE k \in 1..Len(rfifo)
        BY <3>2, <3>5, <4>1
      <4>2. CASE k = Len(rfifo')
        <5>1. rfifo'[k] = typed' /\ Waiting + k = (Waiting + Len(rfifo)) + 1
          BY <3>5, <3>6, <4>2
        <5> QED  BY <3>4, <5>1
      <4> QED  BY <3>1, <3>5, <4>1, <4>2
    <3> QED  BY <3>3, <3>4, <3>5, <3>6, <3>7
  <2> QED  BY <2>1, <2>2 DEF HostAccess
<1>5. JtagFacts'
  <2>1. Len(wfifo') <= Fifo /\ Fifo \in Nat
    BY <1>0, <1>3, JtagRings DEF JtagFacts
  <2> QED  BY <1>0, <1>1, <1>3, <1>4, <2>1 DEF JtagFacts
<1>6. TxOrder'
  <2>1. \A s \in Slots : Used(s, tx_out) \in 0..BufLen - 1
    BY <1>0, Ring DEF JtagFacts
  <2>2. /\ \A s \in Slots : Used(s, tx_out) < Sent =>
             tx_buf[s] = Plus(heard, Len(wfifo) + Used(s, tx_out) + 1)
        /\ put = Plus(heard, Len(wfifo) + Sent)
    BY DEF JtagInv, TxOrder
  <2>3. put' = Plus(heard', Len(wfifo') + Sent')
    BY <1>0, <1>1, <1>2, <1>3, <2>2, JtagRings
  <2>4. ASSUME NEW s \in Slots, Used(s, tx_out') < Sent'
        PROVE  tx_buf'[s] = Plus(heard', Len(wfifo') + Used(s, tx_out') + 1)
    <3>1. tx_buf'[s] = Plus(heard, Len(wfifo) + Used(s, tx_out) + 1)
      BY <1>1, <1>2, <2>2, <2>4
    <3>2. Used(s, tx_out) + 1 \in Nat /\ Used(s, tx_out) \in Int /\ Len(wfifo) \in Int /\ Len(wfifo') \in Int
      BY <1>0, <1>3, <2>1, JtagRings
    <3>3. /\ Len(wfifo) + Used(s, tx_out) + 1 = Len(wfifo) + (Used(s, tx_out) + 1)
          /\ Len(wfifo') + Used(s, tx_out) + 1 = Len(wfifo') + (Used(s, tx_out) + 1)
      BY <3>2
    <3>4. Plus(heard', Len(wfifo') + (Used(s, tx_out) + 1)) = Plus(heard, Len(wfifo) + (Used(s, tx_out) + 1))
      BY <1>3, <3>2
    <3> QED  BY <1>1, <3>1, <3>3, <3>4
  <2> QED  BY <1>3, <2>3, <2>4 DEF TxOrder
<1>7. RxOrder'
  <2>1. \A s \in Slots : Used(s, rx_out) < Waiting => rx_buf[s] = Plus(jtag_got, Used(s, rx_out) + 1)
    BY DEF JtagInv, RxOrder
  <2>2. \A s \in Slots : Used(s, rx_out') < Waiting' => rx_buf'[s] = Plus(jtag_got', Used(s, rx_out') + 1)
    BY <1>1, <1>2, <2>1
  <2> QED  BY <1>1, <1>2, <1>4, <2>2 DEF RxOrder
<1>8. Behind'
  <2>1. jtag_isr \in {"rx", "tx"} => space <= Fifo - Len(wfifo')
    BY <1>0, <1>3, JtagRings DEF JtagInv, JtagFacts, Behind
  <2>2. UNCHANGED <<Used(tx_in, other), Used(other, rx_out), Ready(other, rx_out)>>
    BY <1>1 DEF Used, Slot, Ready
  <2> QED  BY <1>1, <1>2, <2>1, <2>2 DEF JtagInv, Behind
<1>9. Awake'
  BY <1>1 DEF JtagInv, Awake, RxFull, Slot
<1> QED  BY <1>5, <1>6, <1>7, <1>8, <1>9 DEF JtagInv
(* The alarm, and the handler's looks at CONTROL.                          *)
LEMMA TimeoutKeeps == JtagInv /\ Timeout => JtagInv'
<1> SUFFICES ASSUME JtagInv, Timeout PROVE JtagInv'
  OBVIOUS
<1>1. JtagFacts'
  <2>1. host_inactive' \in 0..IntMax - 2
    BY JtagAssumption DEF JtagInv, JtagFacts, Timeout
  <2> QED  BY <2>1 DEF JtagInv, JtagFacts, Timeout, txring, rxring, handler, program
<1>2. Behind'
  BY DEF JtagInv, Behind, Timeout, txring, rxring, handler, program, Sent, Waiting, Used, Slot, Ready
<1>3. Awake'
  BY DEF JtagInv, Awake, Timeout, txring, rxring, handler, program, RxFull, Slot
<1> QED  BY <1>1, <1>2, <1>3, JtagQuiet DEF Timeout

LEMMA IrqKeeps == JtagInv /\ Irq => JtagInv'
<1> SUFFICES ASSUME JtagInv, Irq PROVE JtagInv'
  OBVIOUS
<1>0. JtagFacts /\ Fifo \in Nat /\ Len(wfifo) \in Nat /\ Len(wfifo) <= Fifo
  BY JtagRings DEF JtagInv, JtagFacts
<1>1. space' \in 0..Fifo /\ space' <= Fifo - Len(wfifo)
  BY <1>0 DEF Irq
<1>2. jtag_isr' \in {"off", "control", "rx", "tx"}
  BY DEF Irq
<1>3. JtagFacts'
  BY <1>0, <1>1, <1>2 DEF JtagFacts, Irq, jtagHost, txring, rxring, program
<1>4. Behind'
  BY <1>1 DEF JtagInv, Behind, Irq, jtagHost, txring, rxring, program, Sent, Waiting, Used, Slot, Ready
<1>5. Awake'
  BY DEF JtagInv, Awake, Irq, txring, rxring, program, RxFull, Slot
<1> QED  BY <1>3, <1>4, <1>5, JtagQuiet DEF Irq, jtagHost

(* A character goes from the FIFO to the ring.                             *)
LEMMA IrqReadKeeps == JtagInv /\ IrqRead => JtagInv'
<1> SUFFICES ASSUME JtagInv, IrqRead PROVE JtagInv'
  OBVIOUS
<1>0. JtagFacts
  BY DEF JtagInv
<1>1. /\ UNCHANGED <<wfifo, heard, typed, irq_enable, tx_in, tx_out, tx_buf, rx_out, host_inactive, timeout,
                     jtag_isr, space, jtag_pc, jtag_left, moved, other, put, jtag_got>>
      /\ rfifo' = Tail(rfifo) /\ rx_buf' = [rx_buf EXCEPT ![rx_in] = Head(rfifo)] /\ rx_in' = Slot(rx_in + 1)
  BY DEF IrqRead, txring, program
<1>2. /\ Len(rfifo) \in Nat \ {0} /\ Head(rfifo) = rfifo[1] /\ Len(rfifo') = Len(rfifo) - 1 /\ rfifo' \in Seq(Char)
      /\ rfifo[1] \in Char /\ \A k \in 1..Len(rfifo) - 1 : rfifo'[k] = rfifo[k + 1]
  BY <1>0, <1>1 DEF IrqRead, JtagFacts
<1>3. Waiting \in Nat /\ Waiting + 1 < BufLen /\ BufLen \in Nat /\ jtag_got \in Int
  <2>1. ~(Slot(rx_in + 1) = rx_out)
    BY DEF IrqRead, RxFull
  <2>2. Used(rx_in, rx_out) # BufLen - 1 /\ Used(rx_in, rx_out) \in 0..BufLen - 1
    BY <1>0, <2>1, Pieces, Ring DEF JtagFacts
  <2> QED  BY <1>0, <2>2, JtagRings DEF Waiting
<1>4. Waiting' = Waiting + 1 /\ rx_in' \in Slots
  <2>1. 1 \in Slots
    BY <1>3 DEF Slots
  <2>2. Slot(rx_in + 1) \in Slots /\ Used(Slot(rx_in + 1), rx_out) = Used(rx_in, rx_out) + 1
    BY <1>0, <1>3, <2>1, Moves DEF JtagFacts, Waiting
  <2> QED  BY <1>1, <2>2 DEF Waiting, Used, Slot
<1>5. JtagFacts'
  <2>1. rx_buf' \in [Slots -> Char \cup {Free}]
    BY <1>0, <1>1, <1>2 DEF JtagFacts
  <2>2. Len(rfifo') <= Fifo
    BY <1>0, <1>2, JtagRings DEF JtagFacts
  <2> QED  BY <1>0, <1>1, <1>2, <1>4, <2>1, <2>2 DEF JtagFacts
<1>6. TxOrder' /\ Sent' = Sent
  BY <1>1, TxKept DEF JtagInv, txring
<1>7. RxOrder'
  <2>1. /\ \A k \in 1..Len(rfifo) : rfifo[k] = Plus(jtag_got, Waiting + k)
        /\ \A s \in Slots : Used(s, rx_out) < Waiting => rx_buf[s] = Plus(jtag_got, Used(s, rx_out) + 1)
        /\ typed = Plus(jtag_got, Waiting + Len(rfifo))
    BY DEF JtagInv, RxOrder
  <2>2. ASSUME NEW k \in 1..Len(rfifo')
        PROVE  rfifo'[k] = Plus(jtag_got', Waiting' + k)
    <3>0. Len(rfifo) \in Nat /\ Len(rfifo') = Len(rfifo) - 1 /\ k \in 1..Len(rfifo) - 1
      BY <1>2
    <3>1. k + 1 \in 1..Len(rfifo) /\ rfifo'[k] = rfifo[k + 1]
      BY <1>2, <3>0
    <3>2. Waiting + (k + 1) = Waiting' + k
      BY <1>3, <1>4, <3>0
    <3> QED  BY <1>1, <2>1, <3>1, <3>2
  <2>3. ASSUME NEW s \in Slots, Used(s, rx_out') < Waiting'
        PROVE  rx_buf'[s] = Plus(jtag_got', Used(s, rx_out') + 1)
    <3>1. rx_in \in Slots /\ rx_out \in Slots /\ rx_buf \in [Slots -> Char \cup {Free}]
      BY <1>0 DEF JtagFacts
    <3>2. CASE s = rx_in
      <4>1. rx_buf'[s] = rfifo[1] /\ rfifo[1] = Plus(jtag_got, Waiting + 1)
        BY <1>1, <1>2, <2>1, <3>1, <3>2
      <4> QED  BY <1>1, <3>2, <4>1 DEF Waiting
    <3>3. CASE s # rx_in
      <4>1. Used(s, rx_out) # Waiting
        <5>1. s \in 0..BufLen - 1 /\ rx_in \in 0..BufLen - 1 /\ rx_out \in 0..BufLen - 1
          BY <3>1 DEF Slots
        <5>2. /\ Used(s, rx_out) = (IF s >= rx_out THEN s - rx_out ELSE s - rx_out + BufLen)
              /\ Used(rx_in, rx_out) = (IF rx_in >= rx_out THEN rx_in - rx_out ELSE rx_in - rx_out + BufLen)
          BY <3>1, Ring
        <5> QED  BY <1>3, <3>3, <5>1, <5>2 DEF Waiting
      <4>2. Used(s, rx_out) \in Nat /\ Used(s, rx_out) < Waiting + 1
        BY <1>1, <1>4, <2>3, <3>1, Ring
      <4>3. Used(s, rx_out) < Waiting
        BY <1>3, <4>1, <4>2
      <4>4. rx_buf'[s] = rx_buf[s]
        BY <1>1, <3>1, <3>3
      <4> QED  BY <1>1, <2>1, <4>3, <4>4
    <3> QED  BY <3>2, <3>3
  <2>4. typed' = Plus(jtag_got', Waiting' + Len(rfifo'))
    <3>1. Waiting + Len(rfifo) = Waiting' + Len(rfifo')
      BY <1>2, <1>3, <1>4
    <3> QED  BY <1>1, <2>1, <3>1
  <2> QED  BY <2>2, <2>3, <2>4 DEF RxOrder
<1>8. Behind'
  <2>1. UNCHANGED <<Used(tx_in, other), Used(other, rx_out), Ready(other, rx_out)>>
    BY <1>1 DEF Used, Slot, Ready
  <2>2. jtag_pc = "take" => Used(other, rx_out) <= Waiting'
    <3>1. other \in Slots /\ rx_out \in Slots
      BY <1>0 DEF JtagFacts
    <3>2. Used(other, rx_out) \in 0..BufLen - 1
      BY <3>1, Ring
    <3> QED  BY <1>3, <1>4, <3>2 DEF JtagInv, Behind
  <2> QED  BY <1>1, <1>6, <2>1, <2>2 DEF JtagInv, Behind
<1>9. Awake'
  BY <1>1 DEF JtagInv, Awake, IrqRead
<1> QED  BY <1>5, <1>6, <1>7, <1>8, <1>9 DEF JtagInv

LEMMA IrqReadEndKeeps == JtagInv /\ IrqReadEnd => JtagInv'
<1> SUFFICES ASSUME JtagInv, IrqReadEnd PROVE JtagInv'
  OBVIOUS
<1>1. JtagFacts'
  <2>1. jtag_isr' \in {"off", "control", "rx", "tx"} /\ irq_enable' \subseteq {"RE", "WE"}
    BY DEF JtagInv, JtagFacts, IrqReadEnd
  <2> QED  BY <2>1 DEF JtagInv, JtagFacts, IrqReadEnd, jtagHost, txring, rxring, program
<1>2. Behind'
  BY DEF JtagInv, Behind, IrqReadEnd, jtagHost, txring, rxring, program, Sent, Waiting, Used, Slot, Ready
<1>3. Awake'
  <2>1. "WE" \in irq_enable => "WE" \in irq_enable'
    BY DEF IrqReadEnd
  <2>2. RxFull' = RxFull
    BY DEF IrqReadEnd, rxring, RxFull, Slot
  <2>3. "RE" \notin irq_enable' => RxFull \/ "RE" \notin irq_enable
    BY DEF IrqReadEnd
  <2> QED  BY <2>1, <2>2, <2>3 DEF JtagInv, Awake, IrqReadEnd, txring, program
<1> QED  BY <1>1, <1>2, <1>3, JtagQuiet DEF IrqReadEnd, jtagHost
(* What a ring holds, as a sequence.                                       *)
LEMMA Holding ==
  ASSUME NEW i \in Slots, NEW o \in Slots, NEW ring \in [Slots -> Char \cup {Free}]
  PROVE  /\ Held(ring, i, o) \in Seq(Char \cup {Free}) /\ Len(Held(ring, i, o)) = Used(i, o)
         /\ Used(i, o) \in Nat
         /\ \A k \in 1..Used(i, o) : \E s \in Slots :
              Used(s, o) = k - 1 /\ Held(ring, i, o)[k] = ring[s]
<1>1. Used(i, o) \in 0..BufLen - 1 /\ BufLen \in Nat /\ o \in Nat
  <2>1. Used(i, o) \in 0..BufLen - 1
    BY Ring
  <2> QED  BY <2>1, JtagAssumption DEF Slots
<1>2. ASSUME NEW k \in 1..Used(i, o)
      PROVE  /\ Slot(o + k - 1) \in Slots /\ Used(Slot(o + k - 1), o) = k - 1
  <2> DEFINE n == k - 1
  <2>1. n \in Slots /\ o + k - 1 = o + n
    BY <1>1 DEF Slots
  <2> HIDE DEF n
  <2>2. Slot(o + n) \in Slots /\ Used(Slot(o + n), o) = n
    BY <2>1, Moves
  <2> QED  BY <2>1, <2>2 DEF n
<1>3. \A k \in 1..Used(i, o) : ring[Slot(o + k - 1)] \in Char \cup {Free}
  BY <1>2
<1> DEFINE u == Used(i, o)
           h == [k \in 1..u |-> ring[Slot(o + k - 1)]]
<1>4. h = Held(ring, i, o)
  BY DEF Held
<1> HIDE DEF u
<1>5. h \in Seq(Char \cup {Free}) /\ Len(h) = u
  BY <1>1, <1>3 DEF u
<1>6. \A k \in 1..u : h[k] = ring[Slot(o + k - 1)]
  OBVIOUS
<1> HIDE DEF h
<1>7. ASSUME NEW k \in 1..Used(i, o)
      PROVE  \E s \in Slots : Used(s, o) = k - 1 /\ Held(ring, i, o)[k] = ring[s]
  BY <1>2, <1>4, <1>6 DEF u
<1> QED  BY <1>1, <1>4, <1>5, <1>7 DEF u

(* Characters go from the ring to the FIFO, as many as there was room for. *)
LEMMA IrqWriteKeeps == JtagInv /\ IrqWrite => JtagInv'
<1> SUFFICES ASSUME JtagInv, IrqWrite PROVE JtagInv'
  OBVIOUS
<1>0. JtagFacts
  BY DEF JtagInv
<1> DEFINE n == AtMost(space, Used(tx_in, tx_out))
           h == Held(tx_buf, tx_in, tx_out)
<1>1. /\ UNCHANGED <<rfifo, heard, typed, rx_in, rx_out, rx_buf, tx_in, host_inactive, timeout,
                     jtag_pc, jtag_left, moved, other, put, jtag_got>>
      /\ wfifo' = wfifo \o SubSeq(h, 1, n) /\ tx_out' = Slot(tx_out + n)
      /\ tx_buf' = [s \in Slots |-> IF Used(s, tx_out) < n THEN Free ELSE tx_buf[s]]
      /\ irq_enable' = IF space > n THEN irq_enable \ {"WE"} ELSE irq_enable
      /\ jtag_isr' = "control" /\ space' = 0
  BY DEF IrqWrite, rxring, program
<1>2. /\ Sent \in Nat /\ Sent \in 0..BufLen - 1 /\ BufLen \in Nat /\ Fifo \in Nat /\ Len(wfifo) \in Nat
      /\ space \in Nat /\ space <= Fifo - Len(wfifo) /\ heard \in Int
  BY <1>0, JtagRings DEF JtagInv, JtagFacts, Behind, IrqWrite, Slots
<1>3. n \in 0..Sent /\ n \in Slots /\ n <= space /\ (space > n => n = Sent)
  BY <1>2 DEF AtMost, Sent, Slots
<1>4. /\ h \in Seq(Char \cup {Free}) /\ Len(h) = Sent
      /\ \A k \in 1..Sent : \E s \in Slots : Used(s, tx_out) = k - 1 /\ h[k] = tx_buf[s]
  BY <1>0, Holding DEF JtagFacts, Sent
<1>n. n = AtMost(space, Sent)
  BY DEF Sent
<1> HIDE DEF n, h
<1>5. ASSUME NEW k \in 1..Sent
      PROVE  h[k] = Plus(heard, Len(wfifo) + k) /\ h[k] \in Char
  <2>1. PICK s \in Slots : Used(s, tx_out) = k - 1 /\ h[k] = tx_buf[s]
    BY <1>4
  <2>2. tx_buf[s] = Plus(heard, Len(wfifo) + Used(s, tx_out) + 1)
    BY <1>2, <2>1 DEF JtagInv, TxOrder
  <2>3. Len(wfifo) + Used(s, tx_out) + 1 = Len(wfifo) + k /\ Len(wfifo) + k \in Int
    BY <1>2, <2>1
  <2> QED  BY <1>2, <2>1, <2>2, <2>3, Counting
<1>6. /\ wfifo' \in Seq(Char) /\ Len(wfifo') = Len(wfifo) + n
      /\ \A k \in 1..Len(wfifo') : wfifo'[k] = Plus(heard, k)
  <2> DEFINE t == SubSeq(h, 1, n)
  <2>1. /\ Len(t) = n /\ t \in Seq(Char \cup {Free}) /\ \A k \in 1..n : t[k] = h[k]
    BY <1>2, <1>3, <1>4
  <2>2. \A k \in 1..n : t[k] \in Char
    BY <1>2, <1>3, <1>5, <2>1
  <2> HIDE DEF t
  <2>3. t \in Seq(Char)
    BY <2>1, <2>2
  <2>4. wfifo' = wfifo \o t
    BY <1>1 DEF t
  <2>0. wfifo \in Seq(Char)
    BY <1>0 DEF JtagFacts
  <2>5. wfifo' \in Seq(Char) /\ Len(wfifo') = Len(wfifo) + n
    <3>1. Len(t) = n
      BY <2>1
    <3> QED  BY <2>0, <2>3, <2>4, <3>1, ConcatProperties
  <2>6. ASSUME NEW k \in 1..Len(wfifo')
        PROVE  wfifo'[k] = Plus(heard, k)
    <3>1. CASE k <= Len(wfifo)
      <4>1. wfifo'[k] = wfifo[k]
        BY <1>2, <2>0, <2>3, <2>4, <3>1
      <4> QED  BY <1>2, <3>1, <4>1 DEF JtagInv, TxOrder
    <3>2. CASE k > Len(wfifo)
      <4>1. k - Len(wfifo) \in 1..n /\ Len(wfifo) + (k - Len(wfifo)) = k
        BY <1>2, <1>3, <2>5, <3>2
      <4>2. wfifo'[k] = t[k - Len(wfifo)]
        BY <1>2, <2>0, <2>1, <2>3, <2>4, <2>5, <3>2
      <4>3. k - Len(wfifo) \in 1..Sent
        BY <1>2, <1>3, <4>1
      <4> QED  BY <1>5, <2>1, <4>1, <4>2, <4>3
    <3> QED  BY <1>2, <1>3, <2>5, <3>1, <3>2
  <2> QED  BY <2>5, <2>6
<1>7. tx_out' \in Slots /\ Sent' = Sent - n
  <2>1. Slot(tx_out + n) \in Slots /\ Used(tx_in, Slot(tx_out + n)) = Used(tx_in, tx_out) - n
    BY <1>0, <1>3, Moves DEF JtagFacts, Sent
  <2> QED  BY <1>1, <2>1 DEF Sent, Used, Slot
<1>8. JtagFacts'
  <2>1. tx_buf' \in [Slots -> Char \cup {Free}]
    BY <1>0, <1>1 DEF JtagFacts
  <2>2. Len(wfifo') <= Fifo
    BY <1>2, <1>3, <1>6
  <2>3. irq_enable' \subseteq {"RE", "WE"}
    BY <1>0, <1>1 DEF JtagFacts
  <2>4. space' \in 0..Fifo
    BY <1>1, <1>2
  <2> QED  BY <1>0, <1>1, <1>6, <1>7, <2>1, <2>2, <2>3, <2>4 DEF JtagFacts
<1>9. TxOrder'
  <2>1. ASSUME NEW s \in Slots, Used(s, tx_out') < Sent'
        PROVE  tx_buf'[s] = Plus(heard', Len(wfifo') + Used(s, tx_out') + 1)
    <3>1. Used(s, tx_out) = Used(s, tx_out') + n
      <4>1. tx_in \in Slots /\ tx_out \in Slots
        BY <1>0 DEF JtagFacts
      <4>2. n <= Used(tx_in, tx_out) /\ Used(s, Slot(tx_out + n)) < Used(tx_in, tx_out) - n
        BY <1>1, <1>2, <1>3, <1>7, <2>1 DEF Sent
      <4> QED  BY <1>1, <1>3, <4>1, <4>2, Moves
    <3>2. Used(s, tx_out') \in Nat
      BY <1>2, <1>7, Ring
    <3>3. tx_buf'[s] = tx_buf[s]
      BY <1>1, <1>2, <1>3, <3>1, <3>2
    <3>4. Used(s, tx_out) < Sent
      BY <1>2, <1>3, <1>7, <2>1, <3>1, <3>2
    <3>5. tx_buf[s] = Plus(heard, Len(wfifo) + Used(s, tx_out) + 1)
      BY <3>4 DEF JtagInv, TxOrder
    <3>6. Len(wfifo) + Used(s, tx_out) + 1 = Len(wfifo') + Used(s, tx_out') + 1
      BY <1>2, <1>3, <1>6, <3>1, <3>2
    <3> QED  BY <1>1, <3>3, <3>5, <3>6
  <2>2. put' = Plus(heard', Len(wfifo') + Sent')
    <3>1. Len(wfifo) + Sent = Len(wfifo') + Sent'
      BY <1>2, <1>3, <1>6, <1>7
    <3> QED  BY <1>1, <3>1 DEF JtagInv, TxOrder
  <2> QED  BY <1>1, <1>6, <2>1, <2>2 DEF TxOrder
<1>10. RxOrder' /\ Waiting' = Waiting
  BY <1>1, RxKept DEF JtagInv, rxring
<1>11. Behind'
  <2>1. UNCHANGED <<Used(tx_in, other), Used(other, rx_out), Ready(other, rx_out)>>
    BY <1>1 DEF Used, Slot, Ready
  <2>2. jtag_pc = "copy" => Sent' <= Used(tx_in, other)
    <3>1. other \in Slots /\ tx_in \in Slots
      BY <1>0 DEF JtagFacts
    <3>2. Used(tx_in, other) \in 0..BufLen - 1
      BY <3>1, Ring
    <3> QED  BY <1>2, <1>3, <1>7, <3>2 DEF JtagInv, Behind
  <2> QED  BY <1>1, <1>10, <2>1, <2>2 DEF JtagInv, Behind
<1>12. Awake'
  <2>1. RxFull' = RxFull /\ ("RE" \in irq_enable => "RE" \in irq_enable')
    BY <1>1 DEF RxFull, Slot
  <2>2. tx_in' # tx_out' => irq_enable' = irq_enable /\ tx_in # tx_out
    <3>1. tx_in \in Slots /\ tx_out \in Slots /\ tx_out' \in Slots
      BY <1>0, <1>7 DEF JtagFacts
    <3>2. (Used(tx_in, tx_out') = 0 <=> tx_in = tx_out') /\ (Used(tx_in, tx_out) = 0 <=> tx_in = tx_out)
      BY <3>1, Pieces
    <3>3. Sent' = Used(tx_in, tx_out') /\ Sent = Used(tx_in, tx_out)
      BY <1>1 DEF Sent, Used, Slot
    <3> QED  BY <1>1, <1>2, <1>3, <1>7, <3>2, <3>3
  <2> QED  BY <1>1, <2>1, <2>2 DEF JtagInv, Awake
<1> QED  BY <1>8, <1>9, <1>10, <1>11, <1>12 DEF JtagInv
(* A piece of a ring that does not go over its end: its slots are the next *)
(* ones, in their order.                                                   *)
LEMMA Piece ==
  ASSUME NEW i \in Slots, NEW o \in Slots, NEW s \in Slots, NEW n \in Nat,
         i + n <= BufLen, Used(i, o) + n < BufLen
  PROVE  /\ s \in i..i + n - 1 => Used(s, o) = Used(i, o) + (s - i) /\ s - i \in 0..n - 1
         /\ Used(s, o) >= Used(i, o) /\ Used(s, o) < Used(i, o) + n => s \in i..i + n - 1
<1>1. BufLen \in Nat /\ BufLen > 1 /\ i \in 0..BufLen - 1 /\ o \in 0..BufLen - 1 /\ s \in 0..BufLen - 1
  BY JtagAssumption DEF Slots
<1>2. Used(i, o) = (IF i >= o THEN i - o ELSE i - o + BufLen)
  BY Ring
<1>3. Used(s, o) = (IF s >= o THEN s - o ELSE s - o + BufLen)
  BY Ring
<1> QED  BY <1>1, <1>2, <1>3

(* The program writes.                                                     *)
LEMMA WriteCopyKeeps ==
  ASSUME JtagInv, WriteCopy, UNCHANGED <<jtagHost, rxring, host_inactive, timeout, handler, jtag_got, session>>
  PROVE  JtagInv'
<1>0. JtagFacts
  BY DEF JtagInv
<1> DEFINE n == AtMost(Room(tx_in, other), jtag_left)
<1>1. /\ UNCHANGED <<wfifo, rfifo, heard, typed, rx_in, rx_out, rx_buf, tx_out, host_inactive, timeout,
                     jtag_isr, space, other, jtag_got, irq_enable>>
      /\ jtag_pc = "copy" /\ jtag_pc' = "write"
      /\ tx_buf' = [s \in Slots |-> IF s \in tx_in..tx_in + n - 1 THEN Plus(put, s - tx_in + 1) ELSE tx_buf[s]]
      /\ tx_in' = Slot(tx_in + n) /\ put' = Plus(put, n) /\ jtag_left' = jtag_left - n /\ moved' = moved + n
  BY DEF WriteCopy, JtagAt, JtagGoto, jtagHost, rxring, handler
<1>2. /\ Sent \in 0..BufLen - 1 /\ Sent \in Nat /\ BufLen \in Nat /\ Fifo \in Nat /\ Len(wfifo) \in Nat
      /\ heard \in Int /\ put \in Int /\ tx_in \in Slots /\ tx_out \in Slots /\ other \in Slots
      /\ jtag_left \in Nat /\ moved \in Nat
  BY <1>0, JtagRings DEF JtagFacts, Slots
<1>3. /\ n \in Nat /\ n <= jtag_left /\ tx_in + n <= BufLen /\ Sent + n < BufLen
  <2>1. /\ Room(tx_in, other) \in Nat /\ tx_in + Room(tx_in, other) <= BufLen
        /\ Used(tx_in, other) + Room(tx_in, other) < BufLen
    BY <1>2, Pieces
  <2>2. Sent <= Used(tx_in, other) /\ Used(tx_in, other) \in 0..BufLen - 1 /\ tx_in \in 0..BufLen - 1
    <3>1. Used(tx_in, other) \in 0..BufLen - 1
      BY <1>2, Ring
    <3> QED  BY <1>1, <1>2, <3>1 DEF JtagInv, Behind, Slots
  <2>3. n \in Nat /\ n <= jtag_left /\ n <= Room(tx_in, other)
    BY <1>2, <2>1 DEF AtMost
  <2> HIDE DEF n
  <2> QED  BY <1>2, <2>1, <2>2, <2>3
<1> HIDE DEF n
<1>4. n \in Slots /\ tx_in' \in Slots /\ Sent' = Sent + n
  <2>1. n \in Slots
    BY <1>2, <1>3 DEF Slots
  <2>2. Used(tx_in, tx_out) + n < BufLen
    BY <1>3 DEF Sent
  <2>3. Used(Slot(tx_in + n), tx_out) = Used(tx_in, tx_out) + n
    BY <1>2, <2>1, <2>2, Moves
  <2>4. Slot(tx_in + n) \in Slots
    BY <1>2, <2>1, Moves
  <2> QED  BY <1>1, <2>1, <2>3, <2>4 DEF Sent, Used, Slot
<1>5. \A s \in Slots :
        /\ s \in tx_in..tx_in + n - 1 => Used(s, tx_out) = Sent + (s - tx_in) /\ s - tx_in \in 0..n - 1
        /\ Used(s, tx_out) >= Sent /\ Used(s, tx_out) < Sent + n => s \in tx_in..tx_in + n - 1
  BY <1>2, <1>3, Piece DEF Sent
<1>6. put = Plus(heard, Len(wfifo) + Sent)
  BY DEF JtagInv, TxOrder
<1>7. \A m \in Int : Plus(put, m) = Plus(heard, (Len(wfifo) + Sent) + m) /\ Plus(put, m) \in Char
  <2>1. Len(wfifo) + Sent \in Int
    BY <1>2
  <2> QED  BY <1>2, <1>6, <2>1, Counting
<1>8. JtagFacts'
  <2>1. \A s \in Slots : tx_buf'[s] \in Char \cup {Free}
    <3> TAKE s \in Slots
    <3>1. CASE s \in tx_in..tx_in + n - 1
      BY <1>1, <1>2, <1>5, <1>7, <3>1
    <3>2. CASE s \notin tx_in..tx_in + n - 1
      BY <1>0, <1>1, <3>2 DEF JtagFacts
    <3> QED  BY <3>1, <3>2
  <2>2. tx_buf' \in [Slots -> Char \cup {Free}]
    BY <1>1, <2>1
  <2>3. put' \in Char /\ jtag_left' \in Nat /\ moved' \in Nat /\ jtag_pc' \in JtagPcs
    BY <1>1, <1>2, <1>3, <1>7 DEF JtagPcs
  <2> QED  BY <1>0, <1>1, <1>4, <2>2, <2>3 DEF JtagFacts
<1>9. TxOrder'
  <2>1. ASSUME NEW s \in Slots, Used(s, tx_out') < Sent'
        PROVE  tx_buf'[s] = Plus(heard', Len(wfifo') + Used(s, tx_out') + 1)
    <3>1. Used(s, tx_out) \in Nat /\ Used(s, tx_out) < Sent + n
      <4>1. Used(s, tx_out) \in 0..BufLen - 1
        BY <1>2, Ring
      <4> QED  BY <1>1, <1>2, <1>4, <2>1, <4>1
    <3>2. CASE Used(s, tx_out) >= Sent
      <4>1. s \in tx_in..tx_in + n - 1 /\ s - tx_in \in 0..n - 1 /\ Used(s, tx_out) = Sent + (s - tx_in)
        BY <1>5, <3>1, <3>2
      <4>2. tx_buf'[s] = Plus(put, s - tx_in + 1) /\ s - tx_in + 1 \in Int
        BY <1>1, <1>3, <4>1
      <4>3. (Len(wfifo) + Sent) + (s - tx_in + 1) = Len(wfifo) + Used(s, tx_out) + 1
        BY <1>2, <1>3, <4>1
      <4> QED  BY <1>1, <1>7, <4>2, <4>3
    <3>3. CASE Used(s, tx_out) < Sent
      <4>1. s \notin tx_in..tx_in + n - 1
        BY <1>2, <1>3, <1>5, <3>3
      <4>2. tx_buf'[s] = tx_buf[s]
        BY <1>1, <4>1
      <4> QED  BY <1>1, <3>3, <4>2 DEF JtagInv, TxOrder
    <3> QED  BY <1>2, <3>1, <3>2, <3>3
  <2>2. put' = Plus(heard', Len(wfifo') + Sent')
    <3>1. (Len(wfifo) + Sent) + n = Len(wfifo') + Sent'
      BY <1>1, <1>2, <1>3, <1>4
    <3> QED  BY <1>1, <1>3, <1>7, <3>1
  <2> QED  BY <1>1, <2>1, <2>2 DEF JtagInv, TxOrder
<1>10. RxOrder' /\ Waiting' = Waiting
  BY <1>1, RxKept DEF JtagInv, rxring
<1>11. Behind' /\ Awake'
  BY <1>1 DEF JtagInv, Behind, Awake, RxFull, Slot
<1> QED  BY <1>8, <1>9, <1>10, <1>11 DEF JtagInv

LEMMA WriteKeeps == JtagInv /\ Write => JtagInv'
<1> SUFFICES ASSUME JtagInv, Write PROVE JtagInv'
  OBVIOUS
<1>0. JtagFacts
  BY DEF JtagInv
<1>1. UNCHANGED <<jtagHost, rxring, host_inactive, timeout, handler, jtag_got, session>>
  BY DEF Write
<1>2. UNCHANGED <<wfifo, rfifo, ac, heard, typed, rx_in, rx_out, rx_buf, jtag_isr, space>>
  BY <1>1 DEF jtagHost, rxring, handler
<1> DEFINE Quiet ==
      /\ UNCHANGED <<txring, put>> /\ irq_enable \subseteq irq_enable' /\ irq_enable' \subseteq {"RE", "WE"}
      /\ jtag_pc' \in JtagPcs \ {"take", "read"} /\ jtag_left' \in Nat /\ moved' \in Nat /\ other' \in Slots
      /\ jtag_pc \notin {"read", "take", "enable"}
      /\ jtag_pc' = "copy" => other' = tx_out
      /\ jtag_pc \in {"write", "copy", "kick"} => jtag_pc' \in {"write", "copy", "kick"} \/ "WE" \in irq_enable'
<1>3. ASSUME Quiet PROVE JtagInv'
  <2>1. tx_in' = tx_in /\ tx_out' = tx_out /\ tx_buf' = tx_buf /\ put' = put
    BY <1>3 DEF txring
  <2>2. JtagFacts'
    BY <1>0, <1>1, <1>2, <1>3, <2>1 DEF JtagFacts
  <2>3. Behind'
    <3>1. jtag_isr' \in {"rx", "tx"} => space' <= Fifo - Len(wfifo')
      BY <1>2 DEF JtagInv, Behind
    <3>2. jtag_pc' = "copy" => Sent' <= Used(tx_in', other')
      <4>1. Sent \in Nat /\ Sent' = Sent
        BY <1>0, <2>1, JtagRings DEF Sent, Used, Slot
      <4> QED  BY <1>3, <2>1, <4>1 DEF Sent
    <3>3. jtag_pc' # "take"
      BY <1>3
    <3> QED  BY <3>1, <3>2, <3>3 DEF Behind
  <2>4. Awake'
    <3>1. RxFull' = RxFull
      BY <1>2 DEF RxFull, Slot
    <3>2. "RE" \notin irq_enable' => RxFull
      BY <1>3 DEF JtagInv, Awake
    <3>3. tx_in' # tx_out' => "WE" \in irq_enable' \/ jtag_pc' \in {"write", "copy", "kick"}
      BY <1>3, <2>1 DEF JtagInv, Awake
    <3> QED  BY <3>1, <3>2, <3>3 DEF Awake
  <2> QED  BY <1>1, <1>2, <1>3, <2>2, <2>3, <2>4, JtagQuiet
<1>4. /\ irq_enable \subseteq {"RE", "WE"} /\ jtag_left \in Nat /\ moved \in Nat /\ other \in Slots
      /\ tx_out \in Slots /\ 0 \in Slots /\ 0 \in Nat /\ 1..MaxCount \subseteq Nat
  <2>1. 0 \in Slots /\ 0 \in Nat /\ 1..MaxCount \subseteq Nat
    BY JtagAssumption DEF Slots
  <2> QED  BY <1>0, <2>1 DEF JtagFacts
<1>5. CASE \E n \in 1..MaxCount, nb \in BOOLEAN : Call("write", n, nb) /\ UNCHANGED <<txring, put, irq_enable>>
  <2>1. jtag_pc = "idle" /\ jtag_pc' = "write" /\ jtag_left' \in Nat /\ moved' \in Nat /\ other' = other
        /\ UNCHANGED <<txring, put, irq_enable>>
    BY <1>4, <1>5 DEF Call, JtagAt, JtagGoto
  <2> QED  BY <1>3, <1>4, <2>1 DEF JtagPcs
<1>6. CASE \E nb \in BOOLEAN : Call("close", 0, nb) /\ UNCHANGED <<txring, put, irq_enable>>
  <2>1. jtag_pc = "idle" /\ jtag_pc' = "close" /\ jtag_left' \in Nat /\ moved' \in Nat /\ other' = other
        /\ UNCHANGED <<txring, put, irq_enable>>
    BY <1>4, <1>6 DEF Call, JtagAt, JtagGoto
  <2> QED  BY <1>3, <1>4, <2>1 DEF JtagPcs
<1>7. CASE WriteLook
  <2>1. /\ jtag_pc = "write" /\ jtag_pc' \in {"copy", "kick"} /\ jtag_left' = jtag_left /\ moved' = moved
        /\ UNCHANGED <<txring, put, irq_enable>> /\ other' \in Slots
        /\ jtag_pc' = "copy" => other' = tx_out
    BY <1>4, <1>7 DEF WriteLook, JtagAt, JtagGoto
  <2> QED  BY <1>3, <1>4, <2>1 DEF JtagPcs
<1>8. CASE WriteCopy
  BY <1>1, <1>8, WriteCopyKeeps
<1>9. CASE WriteKick
  <2>1. /\ jtag_pc = "kick" /\ jtag_pc' \in {"return", "wait"} /\ jtag_left' = jtag_left /\ moved' = moved
        /\ UNCHANGED <<txring, put>> /\ other' = other /\ irq_enable' = irq_enable \cup {"WE"}
    BY <1>9 DEF WriteKick, JtagAt, JtagGoto
  <2>2. irq_enable \subseteq irq_enable' /\ irq_enable' \subseteq {"RE", "WE"} /\ "WE" \in irq_enable'
    BY <1>4, <2>1
  <2> QED  BY <1>3, <1>4, <2>1, <2>2 DEF JtagPcs
<1>10. CASE WriteWait
  <2>1. /\ jtag_pc = "wait" /\ jtag_pc' = "inactive" /\ jtag_left' = jtag_left /\ moved' = moved
        /\ UNCHANGED <<txring, put, irq_enable>> /\ other' = other
    BY <1>10 DEF WriteWait, JtagAt, JtagGoto
  <2> QED  BY <1>3, <1>4, <2>1 DEF JtagPcs
<1>11. CASE WriteInactive
  <2>1. /\ jtag_pc = "inactive" /\ jtag_pc' \in {"return", "write"} /\ jtag_left' = jtag_left /\ moved' = moved
        /\ UNCHANGED <<txring, put, irq_enable>> /\ other' = other
    BY <1>11 DEF WriteInactive, JtagAt, JtagGoto
  <2> QED  BY <1>3, <1>4, <2>1 DEF JtagPcs
<1>12. CASE Close
  <2>1. /\ jtag_pc = "close" /\ jtag_pc' = "idle" /\ jtag_left' = 0 /\ moved' = 0 /\ other' = 0
        /\ UNCHANGED <<txring, put, irq_enable>>
    BY <1>12 DEF Close, JtagAt, JtagGoto, Forget
  <2> QED  BY <1>3, <1>4, <2>1 DEF JtagPcs
<1> QED  BY <1>5, <1>6, <1>7, <1>8, <1>9, <1>10, <1>11, <1>12 DEF Write
(* The program reads.                                                      *)
LEMMA ReadTakeKeeps ==
  ASSUME JtagInv, ReadTake, UNCHANGED <<jtagHost, txring, host_inactive, timeout, handler, put, session>>
  PROVE  JtagInv'
<1>0. JtagFacts
  BY DEF JtagInv
<1> DEFINE n == AtMost(Ready(other, rx_out), jtag_left)
<1>1. /\ UNCHANGED <<wfifo, rfifo, heard, typed, tx_in, tx_out, tx_buf, rx_in, host_inactive, timeout,
                     jtag_isr, space, other, put, irq_enable>>
      /\ jtag_pc = "take" /\ jtag_pc' = "read" /\ jtag_got' = rx_buf[rx_out + n - 1]
      /\ rx_buf' = [s \in Slots |-> IF s \in rx_out..rx_out + n - 1 THEN Free ELSE rx_buf[s]]
      /\ rx_out' = Slot(rx_out + n) /\ jtag_left' = jtag_left - n /\ moved' = moved + n
  BY DEF ReadTake, JtagAt, JtagGoto, jtagHost, txring, handler
<1>2. /\ Waiting \in 0..BufLen - 1 /\ Waiting \in Nat /\ BufLen \in Nat /\ Len(rfifo) \in Nat
      /\ jtag_got \in Int /\ rx_in \in Slots /\ rx_out \in Slots /\ other \in Slots
      /\ jtag_left \in Nat /\ moved \in Nat
  BY <1>0, JtagRings DEF JtagFacts, Slots
<1>3. /\ n \in Nat /\ n <= jtag_left /\ rx_out + n <= BufLen /\ n <= Waiting /\ n > 0
  <2>1. Ready(other, rx_out) \in Nat /\ rx_out + Ready(other, rx_out) <= BufLen
        /\ Ready(other, rx_out) <= Used(other, rx_out)
    BY <1>2, Pieces
  <2>2. Used(other, rx_out) \in 0..BufLen - 1
    BY <1>2, Ring
  <2>3. jtag_left > 0 /\ Ready(other, rx_out) > 0 /\ Used(other, rx_out) <= Waiting
    BY <1>1 DEF JtagInv, Behind
  <2>4. n \in Nat /\ n <= jtag_left /\ n <= Ready(other, rx_out) /\ n > 0
    BY <1>2, <2>1, <2>3 DEF AtMost
  <2>5. rx_out \in 0..BufLen - 1
    BY <1>2 DEF Slots
  <2> HIDE DEF n
  <2> QED  BY <1>2, <2>1, <2>2, <2>3, <2>4, <2>5
<1> HIDE DEF n
<1>4. n \in Slots /\ rx_out' \in Slots /\ Waiting' = Waiting - n
  <2>1. n \in Slots
    BY <1>2, <1>3 DEF Slots
  <2>2. n <= Used(rx_in, rx_out)
    BY <1>3 DEF Waiting
  <2>3. Used(rx_in, Slot(rx_out + n)) = Used(rx_in, rx_out) - n
    BY <1>2, <2>1, <2>2, Moves
  <2>4. Slot(rx_out + n) \in Slots
    BY <1>2, <2>1, Moves
  <2> QED  BY <1>1, <2>1, <2>3, <2>4 DEF Waiting, Used, Slot
<1>5. \A s \in Slots :
        /\ s \in rx_out..rx_out + n - 1 => Used(s, rx_out) = s - rx_out /\ s - rx_out \in 0..n - 1
  <2> TAKE s \in Slots
  <2>1. Used(rx_out, rx_out) = 0
    BY <1>2, Pieces
  <2>2. Used(rx_out, rx_out) + n < BufLen
    BY <1>2, <1>3, <2>1
  <2>3. s \in rx_out..rx_out + n - 1 => Used(s, rx_out) = Used(rx_out, rx_out) + (s - rx_out) /\ s - rx_out \in 0..n - 1
    BY <1>2, <1>3, <2>2, Piece
  <2> QED  BY <1>3, <2>1, <2>3
<1>6. /\ \A k \in 1..Len(rfifo) : rfifo[k] = Plus(jtag_got, Waiting + k)
      /\ \A s \in Slots : Used(s, rx_out) < Waiting => rx_buf[s] = Plus(jtag_got, Used(s, rx_out) + 1)
      /\ typed = Plus(jtag_got, Waiting + Len(rfifo))
  BY DEF JtagInv, RxOrder
<1>7. jtag_got' = Plus(jtag_got, n)
  <2> DEFINE s == rx_out + n - 1
  <2>1. s \in Slots /\ s \in rx_out..rx_out + n - 1 /\ s - rx_out = n - 1
    <3>1. rx_out \in 0..BufLen - 1
      BY <1>2 DEF Slots
    <3> QED  BY <1>2, <1>3, <3>1 DEF Slots
  <2>2. jtag_got' = rx_buf[s]
    BY <1>1
  <2> HIDE DEF s
  <2>3. Used(s, rx_out) = n - 1
    BY <1>5, <2>1
  <2>4. Used(s, rx_out) < Waiting /\ Used(s, rx_out) + 1 = n
    BY <1>2, <1>3, <2>3
  <2> QED  BY <1>6, <2>1, <2>2, <2>4
<1>8. jtag_got' \in Char /\ \A m \in Int : Plus(jtag_got', m) = Plus(jtag_got, n + m)
  <2>1. jtag_got \in Int /\ n \in Int
    BY <1>2, <1>3
  <2>2. Plus(jtag_got, n) \in Char /\ \A m \in Int : Plus(Plus(jtag_got, n), m) = Plus(jtag_got, n + m)
    BY <2>1, Counting, Zenon
  <2> QED  BY <1>7, <2>2
<1>9. JtagFacts'
  <2>1. rx_buf' \in [Slots -> Char \cup {Free}]
    BY <1>0, <1>1 DEF JtagFacts
  <2>2. jtag_left' \in Nat /\ moved' \in Nat /\ jtag_pc' \in JtagPcs
    BY <1>1, <1>2, <1>3 DEF JtagPcs
  <2> QED  BY <1>0, <1>1, <1>4, <1>8, <2>1, <2>2 DEF JtagFacts
<1>10. RxOrder'
  <2>1. ASSUME NEW k \in 1..Len(rfifo')
        PROVE  rfifo'[k] = Plus(jtag_got', Waiting' + k)
    <3>1. k \in 1..Len(rfifo) /\ rfifo'[k] = rfifo[k] /\ Waiting' + k \in Int /\ n + (Waiting' + k) = Waiting + k
      BY <1>1, <1>2, <1>3, <1>4
    <3> QED  BY <1>6, <1>8, <3>1
  <2>2. ASSUME NEW s \in Slots, Used(s, rx_out') < Waiting'
        PROVE  rx_buf'[s] = Plus(jtag_got', Used(s, rx_out') + 1)
    <3>1. Used(s, rx_out) = Used(s, rx_out') + n
      <4>1. n <= Used(rx_in, rx_out) /\ Used(s, Slot(rx_out + n)) < Used(rx_in, rx_out) - n
        BY <1>1, <1>3, <1>4, <2>2 DEF Waiting
      <4> QED  BY <1>1, <1>2, <1>4, <4>1, Moves
    <3>2. Used(s, rx_out') \in 0..BufLen - 1
      BY <1>4, Ring
    <3>3. s \notin rx_out..rx_out + n - 1
      <4>1. ~(Used(s, rx_out) <= n - 1)
        BY <1>2, <1>3, <3>1, <3>2
      <4> QED  BY <1>3, <1>5, <4>1
    <3>4. rx_buf'[s] = rx_buf[s]
      BY <1>1, <3>3
    <3>5. Used(s, rx_out) < Waiting
      BY <1>2, <1>3, <1>4, <2>2, <3>1, <3>2
    <3>6. n + (Used(s, rx_out') + 1) = Used(s, rx_out) + 1 /\ Used(s, rx_out') + 1 \in Int
      BY <1>2, <1>3, <3>1, <3>2
    <3> QED  BY <1>6, <1>8, <3>4, <3>5, <3>6
  <2>3. typed' = Plus(jtag_got', Waiting' + Len(rfifo'))
    <3>1. Waiting' + Len(rfifo') \in Int /\ n + (Waiting' + Len(rfifo')) = Waiting + Len(rfifo)
      BY <1>1, <1>2, <1>3, <1>4
    <3> QED  BY <1>1, <1>6, <1>8, <3>1
  <2> QED  BY <2>1, <2>2, <2>3 DEF RxOrder
<1>11. TxOrder' /\ Sent' = Sent
  BY <1>1, TxKept DEF JtagInv, txring
<1>12. Behind'
  BY <1>1 DEF JtagInv, Behind
<1>13. Awake'
  <2>1. moved' > 0
    BY <1>1, <1>2, <1>3
  <2>2. tx_in' # tx_out' => "WE" \in irq_enable' \/ jtag_pc' \in {"write", "copy", "kick"}
    BY <1>1 DEF JtagInv, Awake
  <2> QED  BY <1>1, <2>1, <2>2 DEF Awake
<1> QED  BY <1>9, <1>10, <1>11, <1>12, <1>13 DEF JtagInv

(* A step of the program that only goes on.                                *)
LEMMA ProgramKeeps ==
  ASSUME JtagInv,
         UNCHANGED <<wfifo, rfifo, heard, typed, txring, rxring, host_inactive, jtag_isr, space, put, jtag_got>>,
         timeout' \in 2..IntMax - 1,
         irq_enable \subseteq irq_enable', irq_enable' \subseteq {"RE", "WE"},
         jtag_pc' \in JtagPcs \ {"copy"}, jtag_left' \in Nat, moved' \in Nat, other' \in Slots,
         jtag_pc' = "take" => jtag_left' > 0 /\ other' = rx_in /\ Ready(rx_in, rx_out) > 0,
         "RE" \notin irq_enable' /\ ~RxFull => jtag_pc' = "enable" \/ (jtag_pc' \in {"read", "take"} /\ moved' > 0),
         jtag_pc \notin {"write", "copy", "kick"} \/ jtag_pc' = jtag_pc
  PROVE  JtagInv'
<1>0. JtagFacts
  BY DEF JtagInv
<1>1. UNCHANGED <<tx_in, tx_out, tx_buf, rx_in, rx_out, rx_buf>>
  BY DEF txring, rxring
<1>2. JtagFacts'
  BY <1>0, <1>1 DEF JtagFacts
<1>3. Behind'
  <2>1. jtag_isr' \in {"rx", "tx"} => space' <= Fifo - Len(wfifo')
    BY DEF JtagInv, Behind
  <2>2. jtag_pc' = "take" => jtag_left' > 0 /\ Ready(other', rx_out') > 0 /\ Used(other', rx_out') <= Waiting'
    <3>1. Waiting \in Nat /\ Waiting' = Waiting
      BY <1>0, <1>1, JtagRings DEF Waiting, Used, Slot
    <3> QED  BY <1>1, <3>1 DEF Waiting
  <2>3. jtag_pc' # "copy"
    OBVIOUS
  <2> QED  BY <2>1, <2>2, <2>3 DEF Behind
<1>4. Awake'
  <2>1. RxFull' = RxFull
    BY <1>1 DEF RxFull, Slot
  <2>2. tx_in' # tx_out' => "WE" \in irq_enable' \/ jtag_pc' \in {"write", "copy", "kick"}
    BY <1>1 DEF JtagInv, Awake
  <2> QED  BY <2>1, <2>2 DEF Awake
<1> QED  BY <1>2, <1>3, <1>4, JtagQuiet

LEMMA ReadKeeps == JtagInv /\ Read => JtagInv'
<1> SUFFICES ASSUME JtagInv, Read PROVE JtagInv'
  OBVIOUS
<1>1. UNCHANGED <<jtagHost, txring, host_inactive, timeout, handler, put, session>>
  BY DEF Read
<1>2. UNCHANGED <<wfifo, rfifo, heard, typed, jtag_isr, space, host_inactive, timeout, txring, put>>
  BY <1>1 DEF jtagHost, handler
<1>3. /\ irq_enable \subseteq {"RE", "WE"} /\ jtag_left \in Nat /\ moved \in Nat /\ other \in Slots
      /\ rx_in \in Slots /\ timeout' \in 2..IntMax - 1 /\ 1..MaxCount \subseteq Nat /\ 0 \in Nat
  <2>1. 1..MaxCount \subseteq Nat /\ 0 \in Nat
    BY JtagAssumption
  <2> QED  BY <1>2, <2>1 DEF JtagInv, JtagFacts
<1>a. "RE" \notin irq_enable /\ ~RxFull => jtag_pc = "enable" \/ (jtag_pc \in {"read", "take"} /\ moved > 0)
  BY DEF JtagInv, Awake
<1>4. CASE \E n \in 1..MaxCount, nb \in BOOLEAN : Call("read", n, nb) /\ UNCHANGED <<rxring, jtag_got, irq_enable>>
  <2>1. jtag_pc = "idle" /\ jtag_pc' = "read" /\ jtag_left' \in Nat /\ moved' \in Nat /\ other' = other
        /\ UNCHANGED <<rxring, jtag_got, irq_enable>>
    BY <1>3, <1>4 DEF Call, JtagAt, JtagGoto
  <2> QED  BY <1>2, <1>3, <1>a, <2>1, ProgramKeeps DEF JtagPcs
<1>5. CASE ReadLook
  <2>1. /\ jtag_pc = "read" /\ other' = rx_in /\ jtag_left' = jtag_left /\ moved' = moved
        /\ UNCHANGED <<rxring, jtag_got, irq_enable>>
        /\ jtag_pc' = IF jtag_left > 0 /\ Ready(rx_in, rx_out) > 0 THEN "take"
                      ELSE IF moved > 0 THEN "enable" ELSE IF nonblock THEN "return" ELSE "await"
    BY <1>5 DEF ReadLook, JtagAt, JtagGoto
  <2>2. /\ jtag_pc' \in JtagPcs \ {"copy"}
        /\ jtag_pc' = "take" => jtag_left' > 0 /\ other' = rx_in /\ Ready(rx_in, rx_out) > 0
    BY <2>1 DEF JtagPcs
  <2>3. "RE" \notin irq_enable' /\ ~RxFull => jtag_pc' = "enable" \/ (jtag_pc' \in {"read", "take"} /\ moved' > 0)
    BY <1>a, <2>1
  <2> QED  BY <1>2, <1>3, <2>1, <2>2, <2>3, ProgramKeeps
<1>6. CASE ReadTake
  BY <1>1, <1>6, ReadTakeKeeps
<1>7. CASE ReadWait
  <2>1. /\ jtag_pc = "await" /\ jtag_pc' \in {"read", "return"} /\ other' = other /\ jtag_left' = jtag_left
        /\ moved' = moved /\ UNCHANGED <<rxring, jtag_got, irq_enable>>
    BY <1>7 DEF ReadWait, JtagAt, JtagGoto
  <2> QED  BY <1>2, <1>3, <1>a, <2>1, ProgramKeeps DEF JtagPcs
<1>8. CASE ReadEnable
  <2>1. /\ jtag_pc = "enable" /\ jtag_pc' = "return" /\ other' = other /\ jtag_left' = jtag_left
        /\ moved' = moved /\ UNCHANGED <<rxring, jtag_got>> /\ irq_enable' = irq_enable \cup {"RE"}
    BY <1>8 DEF ReadEnable, JtagAt, JtagGoto
  <2>2. irq_enable \subseteq irq_enable' /\ irq_enable' \subseteq {"RE", "WE"} /\ "RE" \in irq_enable'
    BY <1>3, <2>1
  <2> QED  BY <1>2, <1>3, <2>1, <2>2, ProgramKeeps DEF JtagPcs
<1> QED  BY <1>4, <1>5, <1>6, <1>7, <1>8 DEF Read

LEMMA ReturnKeeps == JtagInv /\ (JtagReturn \/ SetTimeout) => JtagInv'
<1> SUFFICES ASSUME JtagInv, JtagReturn \/ SetTimeout PROVE JtagInv'
  OBVIOUS
<1>1. /\ irq_enable \subseteq {"RE", "WE"} /\ jtag_left \in Nat /\ moved \in Nat /\ other \in Slots
      /\ timeout \in 2..IntMax - 1 /\ jtag_pc \in JtagPcs /\ 0 \in Nat /\ 0 \in Slots
  <2>1. 0 \in Slots /\ 0 \in Nat
    BY JtagAssumption DEF Slots
  <2> QED  BY <2>1 DEF JtagInv, JtagFacts
<1>2. "RE" \notin irq_enable /\ ~RxFull => jtag_pc = "enable" \/ (jtag_pc \in {"read", "take"} /\ moved > 0)
  BY DEF JtagInv, Awake
<1>3. CASE JtagReturn
  <2>1. /\ UNCHANGED <<wfifo, rfifo, heard, typed, txring, rxring, host_inactive, jtag_isr, space, put, jtag_got,
                       timeout, irq_enable>>
        /\ jtag_pc = "return" /\ jtag_pc' = "idle" /\ jtag_left' = 0 /\ moved' = 0 /\ other' = 0
    BY <1>3 DEF JtagReturn, JtagAt, JtagGoto, Forget, jtagHost, handler
  <2> QED  BY <1>1, <1>2, <2>1, ProgramKeeps DEF JtagPcs
<1>4. CASE SetTimeout
  <2>1. /\ UNCHANGED <<wfifo, rfifo, heard, typed, txring, rxring, host_inactive, jtag_isr, space, put, jtag_got,
                       irq_enable, jtag_pc, jtag_left, moved, other>>
        /\ jtag_pc = "idle"
    BY <1>4 DEF SetTimeout, JtagAt, jtagHost, handler, program
  <2>2. timeout' \in 2..IntMax - 1
    <3>1. PICK t \in Timeouts : timeout' = IF t >= 2 /\ t < IntMax THEN t ELSE IntMax - 1
      BY <1>4 DEF SetTimeout
    <3>2. t \in Nat /\ IntMax \in Nat /\ 2 <= IntMax - 1
      BY JtagAssumption
    <3> QED  BY <3>1, <3>2
  <2> QED  BY <1>1, <1>2, <2>1, <2>2, ProgramKeeps DEF JtagPcs
<1> QED  BY <1>3, <1>4

LEMMA JtagSteps == JtagInv /\ [JtagNext]_jtagVars => JtagInv'
<1> SUFFICES ASSUME JtagInv, [JtagNext]_jtagVars PROVE JtagInv'
  OBVIOUS
<1>1. CASE JtagNext
  BY <1>1, HostKeeps, TimeoutKeeps, IrqKeeps, IrqReadKeeps, IrqReadEndKeeps, IrqWriteKeeps, WriteKeeps,
     ReadKeeps, ReturnKeeps DEF JtagNext, Handler
<1>2. CASE UNCHANGED jtagVars
  <2>1. UNCHANGED <<wfifo, rfifo, heard, typed, irq_enable, txring, rxring, host_inactive, timeout, jtag_isr, space,
                    jtag_pc, jtag_left, moved, other, put, jtag_got>>
    BY <1>2 DEF jtagVars, jtagHost, handler, program
  <2>2. JtagFacts' /\ Behind' /\ Awake'
    BY <2>1 DEF JtagInv, JtagFacts, Behind, Awake, txring, rxring, Sent, Waiting, Used, Slot, Ready, RxFull
  <2> QED  BY <2>1, <2>2, JtagQuiet
<1> QED  BY <1>1, <1>2

LEMMA JtagOrderly == JtagInv => JtagTypeOK /\ ConsoleOrderly
<1> SUFFICES ASSUME JtagInv PROVE JtagTypeOK /\ ConsoleOrderly
  OBVIOUS
<1>0. JtagFacts
  BY DEF JtagInv
<1>1. JtagTypeOK
  <2>1. {rx_in, rx_out, tx_in, tx_out, other} \subseteq Slots
    BY <1>0 DEF JtagFacts
  <2>2. {put, jtag_got, heard, typed} \subseteq Char
    BY <1>0 DEF JtagFacts
  <2>3. \A s \in Slots : tx_buf[s] \in Char \cup {Free} /\ rx_buf[s] \in Char \cup {Free}
    BY <1>0 DEF JtagFacts
  <2> QED  BY <1>0, <2>1, <2>2, <2>3 DEF JtagFacts, JtagTypeOK
<1>2. /\ Sent \in Nat /\ Waiting \in Nat /\ Len(wfifo) \in Nat /\ Len(rfifo) \in Nat
      /\ heard \in Int /\ jtag_got \in Int
  BY <1>0, JtagRings
<1>3. Follow(Outgoing, heard, put)
  <2> DEFINE h == Held(tx_buf, tx_in, tx_out)
  <2>1. /\ h \in Seq(Char \cup {Free}) /\ Len(h) = Sent
        /\ \A k \in 1..Sent : \E s \in Slots : Used(s, tx_out) = k - 1 /\ h[k] = tx_buf[s]
    BY <1>0, Holding DEF JtagFacts, Sent
  <2>2. Outgoing = wfifo \o h
    BY DEF Outgoing
  <2> HIDE DEF h
  <2>3. wfifo \in Seq(Char \cup {Free})
    BY <1>0 DEF JtagFacts
  <2>4. /\ Len(Outgoing) = Len(wfifo) + Sent
        /\ \A k \in 1..Len(wfifo) + Sent : Outgoing[k] = IF k <= Len(wfifo) THEN wfifo[k] ELSE h[k - Len(wfifo)]
    BY <2>1, <2>2, <2>3, ConcatProperties
  <2>5. ASSUME NEW k \in 1..Len(wfifo) + Sent
        PROVE  Outgoing[k] = Plus(heard, k)
    <3>1. CASE k <= Len(wfifo)
      BY <1>2, <2>4, <3>1 DEF JtagInv, TxOrder
    <3>2. CASE k > Len(wfifo)
      <4>1. k - Len(wfifo) \in 1..Sent /\ Outgoing[k] = h[k - Len(wfifo)]
        BY <1>2, <2>4, <3>2
      <4>2. PICK s \in Slots : Used(s, tx_out) = (k - Len(wfifo)) - 1 /\ h[k - Len(wfifo)] = tx_buf[s]
        BY <2>1, <4>1
      <4>3. Used(s, tx_out) < Sent /\ Len(wfifo) + Used(s, tx_out) + 1 = k
        BY <1>2, <4>1, <4>2
      <4>4. tx_buf[s] = Plus(heard, Len(wfifo) + Used(s, tx_out) + 1)
        BY <4>3 DEF JtagInv, TxOrder
      <4> QED  BY <4>1, <4>2, <4>3, <4>4
    <3> QED  BY <1>2, <3>1, <3>2
  <2> QED  BY <2>4, <2>5 DEF Follow, JtagInv, TxOrder
<1>4. Follow(Incoming, jtag_got, typed)
  <2> DEFINE h == Held(rx_buf, rx_in, rx_out)
  <2>1. /\ h \in Seq(Char \cup {Free}) /\ Len(h) = Waiting
        /\ \A k \in 1..Waiting : \E s \in Slots : Used(s, rx_out) = k - 1 /\ h[k] = rx_buf[s]
    BY <1>0, Holding DEF JtagFacts, Waiting
  <2>2. Incoming = h \o rfifo
    BY DEF Incoming
  <2> HIDE DEF h
  <2>3. rfifo \in Seq(Char \cup {Free})
    BY <1>0 DEF JtagFacts
  <2>4. /\ Len(Incoming) = Waiting + Len(rfifo)
        /\ \A k \in 1..Waiting + Len(rfifo) : Incoming[k] = IF k <= Waiting THEN h[k] ELSE rfifo[k - Waiting]
    BY <2>1, <2>2, <2>3, ConcatProperties
  <2>5. ASSUME NEW k \in 1..Waiting + Len(rfifo)
        PROVE  Incoming[k] = Plus(jtag_got, k)
    <3>1. CASE k <= Waiting
      <4>1. k \in 1..Waiting /\ Incoming[k] = h[k]
        BY <1>2, <2>4, <3>1
      <4>2. PICK s \in Slots : Used(s, rx_out) = k - 1 /\ h[k] = rx_buf[s]
        BY <2>1, <4>1
      <4>3. Used(s, rx_out) < Waiting /\ Used(s, rx_out) + 1 = k
        BY <1>2, <4>1, <4>2
      <4>4. rx_buf[s] = Plus(jtag_got, Used(s, rx_out) + 1)
        BY <4>3 DEF JtagInv, RxOrder
      <4> QED  BY <4>1, <4>2, <4>3, <4>4
    <3>2. CASE k > Waiting
      <4>1. k - Waiting \in 1..Len(rfifo) /\ Incoming[k] = rfifo[k - Waiting] /\ Waiting + (k - Waiting) = k
        BY <1>2, <2>4, <3>2
      <4> QED  BY <4>1 DEF JtagInv, RxOrder
    <3> QED  BY <1>2, <3>1, <3>2
  <2> QED  BY <2>4, <2>5 DEF Follow, JtagInv, RxOrder
<1>5. NobodySleeps
  BY DEF JtagInv, Awake, NobodySleeps
<1> QED  BY <1>1, <1>3, <1>4, <1>5 DEF ConsoleOrderly, InSequence

(* For rings and FIFOs of any size, calls of any length and any times to   *)
(* wait: what the host takes and what the program reads is what was put in,*)
(* in order and once, and no character lies in a ring with nobody to move  *)
(* it (altera_avalon_jtag_uart_init.c:102-225, _write.c:83-215,            *)
(* _read.c:100-203).                                                       *)
THEOREM ConsoleTheorem == JtagSpec => [](JtagTypeOK /\ ConsoleOrderly)
<1>1. JtagSpec => []JtagInv
  BY JtagStart, JtagSteps, PTL DEF JtagSpec
<1> QED  BY <1>1, JtagOrderly, PTL

-----------------------------------------------------------------------------
(* The memory.  Its words by their number: first the constants, then the   *)
(* variables with heap_end before them, then .bss; each is what it was     *)
(* linked as once the loop that fills it has come by.                      *)
Data == Rodata + Rwdata
All == Data + Bss
RamWord(i) == RodataStart + 4 * i
FlashWord(i) == RodataLoad + 4 * i
LinkedAs(i) == IF i < Data THEN Image(FlashWord(i)) ELSE 0
Filled(i) == ram[RamWord(i)] = LinkedAs(i)

Shape ==
  /\ ram \in [RamWords -> Int] /\ stored \subseteq RamWords
  /\ at \in {"bss", "load", "main"} /\ section \in 0..4

Starting ==
  /\ on \in BOOLEAN /\ irqs_on \in BOOLEAN
  /\ at # "main" => sbrks = <<>> /\ on = FALSE /\ irqs_on = FALSE /\ blocks = {} /\ stored = {}

Clearing ==
  at = "bss" => \E j \in Data..All : to = RamWord(j) /\ \A i \in Data..j - 1 : Filled(i)

Copying ==
  at = "load" =>
    /\ section \in 1..3 /\ \A i \in Data..All - 1 : Filled(i)
    /\ section = 1 => \E j \in Rodata..Data :
         to = RamWord(j) /\ from = FlashWord(j) /\ \A i \in Rodata..j - 1 : Filled(i)
    /\ section \in 2..3 => \A i \in Rodata..Data - 1 : Filled(i)
    /\ section = 3 => \E j \in 0..Rodata :
         to = RamWord(j) /\ from = FlashWord(j) /\ \A i \in 0..j - 1 : Filled(i)

RunsAsLinked ==
  at = "main" =>
    /\ \A i \in 0..All - 1 : i = Rodata \/ RamWord(i) \in stored \/ Filled(i)
    /\ \A i \in 0..Rodata - 1 : RamWord(i) \notin stored

\* interrupts are off from a call's first step to its last, and a handler's
\* call is over before another one goes on
Steps == {"disable", "align", "check", "take", "enable"}
CallType == [who : {"program", "handler"}, step : Steps, incr : Increments, context : BOOLEAN]
CallsInOrder ==
  /\ sbrks \in Seq(CallType) /\ Len(sbrks) \in 0..2
  /\ sbrks = <<>> => irqs_on = on
  /\ sbrks # <<>> /\ Newest.who = "program" =>
       /\ Len(sbrks) = 1
       /\ Newest.step = "disable" => irqs_on = on
       /\ Newest.step # "disable" => irqs_on = FALSE /\ Newest.context = on
  /\ sbrks # <<>> /\ Newest.who = "handler" =>
       /\ on = TRUE /\ irqs_on = FALSE
       /\ Newest.step # "disable" => Newest.context = FALSE
       /\ Len(sbrks) = 2 => sbrks[1].who = "program" /\ sbrks[1].step = "disable"

Heap ==
  at = "main" =>
    /\ \A b \in blocks :
         /\ b.base \in Nat /\ b.span \in Increments
         /\ b.base % 4 = 0 /\ b.base >= alt_heap_start /\ b.base + b.span <= ram[HeapEnd]
    /\ \A b, c \in blocks : b # c => Apart(b, c)
    /\ ram[HeapEnd] \in alt_heap_start..alt_heap_limit
    /\ sbrks # <<>> /\ Newest.step \in {"check", "take"} => ram[HeapEnd] % 4 = 0
    /\ sbrks # <<>> /\ Newest.step = "take" => ram[HeapEnd] + Newest.incr <= alt_heap_limit

MemInv == Shape /\ Starting /\ Clearing /\ Copying /\ RunsAsLinked /\ CallsInOrder /\ Heap

(* Where the words are.                                                    *)
LEMMA Places ==
  /\ Rodata \in Nat /\ Rwdata \in Nat \ {0} /\ Bss \in Nat /\ Data \in Nat /\ All \in Nat
  /\ Rodata < Data /\ Data <= All
  /\ \A i \in Int : RamWord(i) \in Int /\ FlashWord(i) \in Int
  /\ \A i \in Int, j \in Int : RamWord(i) = RamWord(j) => i = j
  /\ \A i \in Int : RamWord(i + 1) = RamWord(i) + 4 /\ FlashWord(i + 1) = FlashWord(i) + 4
  /\ \A i \in 0..All - 1 : RamWord(i) \in RamWords
  /\ \A a \in RamWords : \E i \in 0..All - 1 : a = RamWord(i)
<1>1. /\ Rodata \in Nat /\ Rwdata \in Nat \ {0} /\ Bss \in Nat /\ Data \in Nat /\ All \in Nat
      /\ Rodata < Data /\ Data <= All /\ All = Rodata + Rwdata + Bss
  BY MemoryAssumption DEF Data, All
<1>2. RodataStart \in Int /\ RodataLoad \in Int
  BY DEF RodataStart, RodataLoad, ONCHIP_MEMORY2_0_REGION, ONCHIP_FLASH_0_DATA_REGION
<1>3. RamWords = {RodataStart + 4 * i : i \in 0..All - 1}
  BY <1>1 DEF RamWords, WordsFrom
<1>4. /\ \A i \in Int : RamWord(i) \in Int /\ FlashWord(i) \in Int
      /\ \A i \in Int, j \in Int : RamWord(i) = RamWord(j) => i = j
  BY <1>2 DEF RamWord, FlashWord
<1>5. \A i \in Int : RamWord(i + 1) = RamWord(i) + 4 /\ FlashWord(i + 1) = FlashWord(i) + 4
  BY <1>2 DEF RamWord, FlashWord
<1>6. /\ \A i \in 0..All - 1 : RamWord(i) \in RamWords
      /\ \A a \in RamWords : \E i \in 0..All - 1 : a = RamWord(i)
  BY <1>3 DEF RamWord
<1> QED  BY <1>1, <1>4, <1>5, <1>6

LEMMA WordApart == ASSUME NEW i \in Int, NEW j \in Int, RamWord(i) = RamWord(j) PROVE i = j
BY DEF RamWord, RodataStart, ONCHIP_MEMORY2_0_REGION

LEMMA SectionEnds ==
  /\ RodataStart = RamWord(0) /\ RwdataStart = RamWord(Rodata) /\ HeapEnd = RamWord(Rodata)
  /\ BssStart = RamWord(Data) /\ alt_heap_start = RamWord(All)
  /\ RodataLoad = FlashWord(0) /\ RwdataLoad = FlashWord(Rodata)
  /\ \A i \in Int : /\ RodataStart + 4 * i = RamWord(i) /\ RwdataStart + 4 * i = RamWord(Rodata + i)
                    /\ BssStart + 4 * i = RamWord(Data + i)
                    /\ RodataLoad + 4 * i = FlashWord(i) /\ RwdataLoad + 4 * i = FlashWord(Rodata + i)
  /\ alt_heap_start \in Nat /\ alt_heap_limit \in Nat /\ alt_heap_start <= alt_heap_limit
  /\ alt_heap_start % 4 = 0 /\ alt_heap_limit % 4 = 0
<1>1. Rodata \in Nat /\ Rwdata \in Nat /\ Bss \in Nat /\ 4 * (Rodata + Rwdata + Bss) <= 32768
  BY MemoryAssumption DEF ONCHIP_MEMORY2_0_REGION
<1>2. RodataStart = 4227072 /\ RodataLoad \in Int /\ alt_heap_limit = 4227072 + 32768
  BY DEF RodataStart, RodataLoad, alt_heap_limit, ONCHIP_MEMORY2_0_REGION, ONCHIP_FLASH_0_DATA_REGION
<1>3. /\ RodataStart = RamWord(0) /\ RwdataStart = RamWord(Rodata) /\ HeapEnd = RamWord(Rodata)
      /\ BssStart = RamWord(Data) /\ alt_heap_start = RamWord(All)
      /\ RodataLoad = FlashWord(0) /\ RwdataLoad = FlashWord(Rodata)
  BY <1>1, <1>2 DEF RamWord, FlashWord, Data, All, RwdataStart, HeapEnd, BssStart, alt_heap_start, RwdataLoad
<1>4. \A i \in Int : /\ RodataStart + 4 * i = RamWord(i) /\ RwdataStart + 4 * i = RamWord(Rodata + i)
                     /\ BssStart + 4 * i = RamWord(Data + i)
                     /\ RodataLoad + 4 * i = FlashWord(i) /\ RwdataLoad + 4 * i = FlashWord(Rodata + i)
  BY <1>1, <1>2 DEF RamWord, FlashWord, Data, RwdataStart, BssStart, RwdataLoad
<1>5. alt_heap_start = 4 * (1056768 + Rodata + Rwdata + Bss) /\ alt_heap_limit = 4 * 1064960
  BY <1>1, <1>2 DEF RwdataStart, BssStart, alt_heap_start
<1>6. alt_heap_start \in Nat /\ alt_heap_limit \in Nat /\ alt_heap_start <= alt_heap_limit
  BY <1>1, <1>5
<1>7. alt_heap_start % 4 = 0 /\ alt_heap_limit % 4 = 0
  BY <1>1, <1>5
<1> QED  BY <1>3, <1>4, <1>6, <1>7

\* the three sections; the second is where it is linked to
LEMMA SectionsAre ==
  /\ Len(Sections) = 3
  /\ Sections[1].from = FlashWord(Rodata) /\ Sections[1].to = RamWord(Rodata) /\ Sections[1].end = RamWord(Data)
  /\ Sections[2].from = Sections[2].to
  /\ Sections[3].from = FlashWord(0) /\ Sections[3].to = RamWord(0) /\ Sections[3].end = RamWord(Rodata)
  /\ Sections[1].to # Sections[1].from /\ Sections[3].to # Sections[3].from
<1>1. /\ Len(Sections) = 3
      /\ Sections[1].from = RwdataLoad /\ Sections[1].to = RwdataStart /\ Sections[1].end = RwdataStart + 4 * Rwdata
      /\ Sections[2].from = Sections[2].to
      /\ Sections[3].from = RodataLoad /\ Sections[3].to = RodataStart /\ Sections[3].end = RodataStart + 4 * Rodata
  BY DEF Sections, Section
<1>2. RwdataStart + 4 * Rwdata = RamWord(Data) /\ RodataStart + 4 * Rodata = RamWord(Rodata)
  BY Places, SectionEnds DEF BssStart
<1>3. RwdataStart # RwdataLoad /\ RodataStart # RodataLoad
  <2>1. RodataStart = 4227072 /\ RodataLoad = 2097184 + 1024 /\ Rodata \in Nat
    BY Places DEF RodataStart, RodataLoad, ONCHIP_MEMORY2_0_REGION, ONCHIP_FLASH_0_DATA_REGION
  <2> QED  BY <2>1 DEF RwdataStart, RwdataLoad
<1> QED  BY <1>1, <1>2, <1>3, SectionEnds

LEMMA LinkedType ==
  /\ \A i \in Int : LinkedAs(i) \in Int
  /\ LinkedAs(Rodata) = alt_heap_start
  /\ \A i \in Int : i < Data => LinkedAs(i) = Image(FlashWord(i))
  /\ \A i \in Int : i >= Data => LinkedAs(i) = 0
<1>1. \A i \in Int : i < Data => LinkedAs(i) = Image(FlashWord(i))
  BY DEF LinkedAs
<1>2. \A i \in Int : i >= Data => LinkedAs(i) = 0
  BY Places DEF LinkedAs
<1>3. \A i \in Int : Image(FlashWord(i)) \in Int
  BY Places, SectionEnds DEF Image
<1>4. LinkedAs(Rodata) = alt_heap_start
  <2>1. LinkedAs(Rodata) = Image(FlashWord(Rodata))
    BY <1>1, Places
  <2> QED  BY <2>1, SectionEnds DEF Image
<1>5. \A i \in Int : LinkedAs(i) \in Int
  BY <1>1, <1>2, <1>3, Places
<1> QED  BY <1>1, <1>2, <1>4, <1>5

(* A word of the memory is stored to.                                      *)
(* A word of the memory is stored to.                                      *)
LEMMA Writing ==
  ASSUME ram \in [RamWords -> Int], NEW j \in 0..All - 1, NEW v \in Int,
         ram' = [ram EXCEPT ![RamWord(j)] = v]
  PROVE  /\ ram' \in [RamWords -> Int] /\ ram'[RamWord(j)] = v
         /\ \A i \in 0..All - 1 : i # j => ram'[RamWord(i)] = ram[RamWord(i)]
         /\ v = LinkedAs(j) => ram'[RamWord(j)] = LinkedAs(j)
<1>1. RamWord(j) \in RamWords /\ \A i \in 0..All - 1 : RamWord(i) \in RamWords /\ (RamWord(i) = RamWord(j) => i = j)
  <2>1. All \in Nat
    BY Places
  <2>2. \A i \in Int : RamWord(i) = RamWord(j) => i = j
    BY <2>1, Places
  <2>3. \A i \in 0..All - 1 : RamWord(i) \in RamWords
    BY Places
  <2> QED  BY <2>1, <2>2, <2>3
<1>2. \A i \in 0..All - 1 : i # j => RamWord(i) # RamWord(j) /\ RamWord(i) \in RamWords
  BY <1>1
<1> QED  BY <1>1, <1>2

LEMMA NoCalls == sbrks' = <<>> /\ irqs_on' = on' => CallsInOrder'
<1>1. <<>> \in Seq(CallType) /\ Len(<<>>) \in 0..2
  OBVIOUS
<1> QED  BY <1>1, Zenon DEF CallsInOrder

LEMMA CallsStay == CallsInOrder /\ UNCHANGED <<on, irqs_on, sbrks>> => CallsInOrder'
BY Zenon DEF CallsInOrder, Newest

LEMMA MemStart == MemoryInit => MemInv
<1> SUFFICES ASSUME MemoryInit PROVE MemInv
  OBVIOUS
<1>1. ram = [a \in RamWords |-> Unknown] /\ at = "bss" /\ section = 0 /\ to = BssStart /\ stored = {}
  BY Zenon DEF MemoryInit
<1>2. on = FALSE /\ irqs_on = FALSE /\ sbrks = <<>> /\ blocks = {}
  BY Zenon DEF MemoryInit
<1>3. Shape
  <2>1. Unknown \in Int
    BY DEF Unknown
  <2> QED  BY <1>1, <2>1 DEF Shape
<1>4. Starting
  BY <1>1, <1>2, Zenon DEF Starting
<1>5. Clearing
  <2>1. to = RamWord(Data) /\ Data \in Data..All /\ ~ \E i \in Data..Data - 1 : TRUE
    BY <1>1, Places, SectionEnds
  <2> QED  BY <2>1 DEF Clearing
<1>6. Copying /\ RunsAsLinked /\ Heap
  BY <1>1 DEF Copying, RunsAsLinked, Heap
<1>7. CallsInOrder
  <2>1. <<>> \in Seq(CallType) /\ Len(<<>>) \in 0..2
    OBVIOUS
  <2> QED  BY <1>2, <2>1, Zenon DEF CallsInOrder
<1> QED  BY <1>3, <1>4, <1>5, <1>6, <1>7, Zenon DEF MemInv

LEMMA ResetKeeps == MemInv /\ Reset => MemInv'
<1> SUFFICES ASSUME MemInv, Reset PROVE MemInv'
  OBVIOUS
<1>1. ram' = ram /\ at' = "bss" /\ section' = 0 /\ to' = BssStart /\ stored' = {}
  BY Zenon DEF Reset
<1>2. on' = FALSE /\ irqs_on' = FALSE /\ sbrks' = <<>> /\ blocks' = {}
  BY Zenon DEF Reset
<1>3. Shape'
  BY <1>1 DEF MemInv, Shape
<1>4. Starting'
  BY <1>1, <1>2, Zenon DEF Starting
<1>5. Clearing'
  <2>1. to' = RamWord(Data) /\ Data \in Data..All /\ ~ \E i \in Data..Data - 1 : TRUE
    BY <1>1, Places, SectionEnds
  <2> QED  BY <1>1, <2>1 DEF Clearing
<1>6. Copying' /\ RunsAsLinked' /\ Heap'
  BY <1>1 DEF Copying, RunsAsLinked, Heap
<1>7. CallsInOrder'
  BY <1>2, NoCalls
<1> QED  BY <1>3, <1>4, <1>5, <1>6, <1>7, Zenon DEF MemInv

(* The loops that fill the memory.                                         *)
LEMMA ClearKeeps == MemInv /\ ClearBss => MemInv'
<1> SUFFICES ASSUME MemInv, ClearBss PROVE MemInv'
  OBVIOUS
<1>1. stored' = {} /\ at = "bss" /\ section \in 0..4 /\ ram \in [RamWords -> Int]
  BY DEF ClearBss, MemInv, Shape, Starting
<1>2. CallsInOrder' /\ (at' # "main" => Starting')
  <2>1. /\ UNCHANGED <<on, irqs_on, sbrks, blocks, stored>>
        /\ sbrks = <<>> /\ on = FALSE /\ irqs_on = FALSE /\ blocks = {} /\ stored = {}
    BY <1>1, Zenon DEF ClearBss, MemInv, Starting
  <2> QED  BY <2>1, NoCalls, Zenon DEF Starting
<1>3. PICK j \in Data..All : to = RamWord(j) /\ \A i \in Data..j - 1 : Filled(i)
  BY <1>1 DEF MemInv, Clearing
<1>4. /\ Rodata \in Nat /\ Data \in Nat /\ All \in Nat /\ Rodata < Data /\ Data <= All /\ j \in Int
      /\ to = RamWord(j) /\ alt_heap_start = RamWord(All)
  BY <1>3, Places, SectionEnds
<1>5. CASE to < alt_heap_start
  <2>1. /\ ram' = [ram EXCEPT ![RamWord(j)] = 0] /\ to' = to + 4 /\ UNCHANGED <<at, section, from>>
    BY <1>4, <1>5 DEF ClearBss
  <2>2. j < All
    <3>1. j # All
      BY <1>4, <1>5, Places
    <3> QED  BY <1>3, <1>4, <3>1
  <2>3. j \in 0..All - 1 /\ LinkedAs(j) = 0
    BY <1>3, <1>4, <2>2, LinkedType
  <2>4. /\ ram' \in [RamWords -> Int] /\ \A i \in 0..All - 1 : i # j => ram'[RamWord(i)] = ram[RamWord(i)]
        /\ ram'[RamWord(j)] = LinkedAs(j)
    <3>1. 0 \in Int /\ 0 = LinkedAs(j) /\ j \in 0..All - 1
      BY <2>3
    <3>2. ram' = [ram EXCEPT ![RamWord(j)] = 0]
      BY <2>1
    <3> QED  BY <1>1, <3>1, <3>2, Writing, Zenon
  <2>5. to' = RamWord(j + 1) /\ j + 1 \in Data..All
    BY <1>3, <1>4, <2>1, <2>2, Places
  <2>6. ASSUME NEW i \in Data..(j + 1) - 1
        PROVE  ram'[RamWord(i)] = LinkedAs(i)
    <3>1. i \in 0..All - 1 /\ (i # j => i \in Data..j - 1)
      BY <1>3, <1>4, <2>2
    <3> QED  BY <1>3, <2>4, <3>1 DEF Filled
  <2>7. Clearing'
    BY <2>5, <2>6 DEF Clearing, Filled
  <2>8. Shape' /\ Copying' /\ RunsAsLinked' /\ Heap'
    <3>1. Shape'
      BY <1>1, <2>1, <2>4 DEF Shape
    <3>2. at' # "load" /\ at' # "main"
      BY <1>1, <2>1
    <3> QED  BY <3>1, <3>2, Zenon DEF Copying, RunsAsLinked, Heap
  <2> QED  BY <1>1, <1>2, <2>1, <2>7, <2>8 DEF MemInv
<1>6. CASE ~(to < alt_heap_start)
  <2>1. /\ section' = 1 /\ at' = "load" /\ from' = FlashWord(Rodata) /\ to' = RamWord(Rodata) /\ ram' = ram
    BY <1>6, SectionsAre DEF ClearBss, EnterSection
  <2>2. j = All
    <3>1. RamWord(All) <= RamWord(j)
      BY <1>4, <1>6, Places
    <3> QED  BY <1>3, <1>4, <3>1 DEF RamWord, RodataStart, ONCHIP_MEMORY2_0_REGION
  <2>3. \A i \in Data..All - 1 : ram'[RamWord(i)] = LinkedAs(i)
    BY <1>3, <2>1, <2>2 DEF Filled
  <2>4. Copying'
    <3>1. Rodata \in Rodata..Data /\ ~ \E i \in Rodata..Rodata - 1 : TRUE
      BY <1>4
    <3> QED  BY <2>1, <2>3, <3>1 DEF Copying, Filled
  <2>5. Shape' /\ Clearing' /\ RunsAsLinked' /\ Heap'
    BY <1>1, <2>1 DEF Shape, Clearing, RunsAsLinked, Heap
  <2> QED  BY <1>2, <2>1, <2>4, <2>5 DEF MemInv
<1> QED  BY <1>5, <1>6

LEMMA LoadKeeps == MemInv /\ alt_load_section => MemInv'
<1> SUFFICES ASSUME MemInv, alt_load_section PROVE MemInv'
  OBVIOUS
<1>1. stored' = stored /\ stored = {} /\ at = "load" /\ ram \in [RamWords -> Int]
  BY DEF alt_load_section, MemInv, Shape, Starting
<1>2. CallsInOrder' /\ Starting' /\ blocks' = {} /\ sbrks' = <<>>
  <2>1. /\ UNCHANGED <<on, irqs_on, sbrks, blocks, stored>>
        /\ sbrks = <<>> /\ on = FALSE /\ irqs_on = FALSE /\ blocks = {} /\ stored = {}
    BY <1>1, Zenon DEF alt_load_section, MemInv, Starting
  <2> QED  BY <2>1, NoCalls, Zenon DEF Starting
<1>3. /\ section \in 1..3 /\ \A i \in Data..All - 1 : Filled(i)
      /\ section = 1 => \E j \in Rodata..Data :
           to = RamWord(j) /\ from = FlashWord(j) /\ \A i \in Rodata..j - 1 : Filled(i)
      /\ section \in 2..3 => \A i \in Rodata..Data - 1 : Filled(i)
      /\ section = 3 => \E j \in 0..Rodata :
           to = RamWord(j) /\ from = FlashWord(j) /\ \A i \in 0..j - 1 : Filled(i)
  BY <1>1 DEF MemInv, Copying
<1>4. Rodata \in Nat /\ Data \in Nat /\ All \in Nat /\ Rodata < Data /\ Data <= All
  BY Places
<1> DEFINE Landing(j) == ram' = [ram EXCEPT ![to] = Image(from)] /\ to' = to + 4 /\ from' = from + 4
                       /\ UNCHANGED <<at, section>>
<1>5. ASSUME NEW j \in 0..Data - 1, to = RamWord(j), from = FlashWord(j), Landing(j)
      PROVE  /\ ram' \in [RamWords -> Int] /\ to' = RamWord(j + 1) /\ from' = FlashWord(j + 1)
             /\ \A i \in 0..All - 1 : i = j \/ Filled(i) => ram'[RamWord(i)] = LinkedAs(i)
  <2>1. j \in 0..All - 1 /\ j \in Int /\ j < Data
    BY <1>4
  <2>2. LinkedAs(j) \in Int /\ LinkedAs(j) = Image(from)
    BY <1>5, <2>1, LinkedType
  <2>3. ram' = [ram EXCEPT ![RamWord(j)] = LinkedAs(j)]
    BY <1>5, <2>2
  <2>4. /\ ram' \in [RamWords -> Int] /\ \A i \in 0..All - 1 : i # j => ram'[RamWord(i)] = ram[RamWord(i)]
        /\ ram'[RamWord(j)] = LinkedAs(j)
    BY <1>1, <2>1, <2>2, <2>3, Writing, Zenon
  <2>5. to' = RamWord(j + 1) /\ from' = FlashWord(j + 1)
    BY <1>5, <2>1, Places
  <2> QED  BY <2>4, <2>5, Zenon DEF Filled
<1>6. CASE section = 1
  <2>1. PICK j \in Rodata..Data : to = RamWord(j) /\ from = FlashWord(j) /\ \A i \in Rodata..j - 1 : Filled(i)
    BY <1>3, <1>6
  <2>2. CASE to # Sections[section].end
    <3>1. Landing(j)
      BY <1>6, <2>2, SectionsAre DEF alt_load_section
    <3>2. j # Data
      BY <1>6, <2>1, <2>2, SectionsAre
    <3>3. j \in 0..Data - 1
      BY <1>4, <3>2
    <3>4. /\ ram' \in [RamWords -> Int] /\ to' = RamWord(j + 1) /\ from' = FlashWord(j + 1)
          /\ \A i \in 0..All - 1 : i = j \/ Filled(i) => ram'[RamWord(i)] = LinkedAs(i)
      BY <1>5, <2>1, <3>1, <3>3, Zenon
    <3>5. at' = "load" /\ section' = 1
      BY <1>1, <1>6, <3>1
    <3>6. \A i \in Data..All - 1 : Filled(i)'
      BY <1>3, <1>4, <3>4 DEF Filled
    <3>7. j + 1 \in Rodata..Data /\ \A i \in Rodata..(j + 1) - 1 : Filled(i)'
      BY <1>4, <2>1, <3>3, <3>4 DEF Filled
    <3>8. Copying'
      BY <3>4, <3>5, <3>6, <3>7 DEF Copying
    <3>9. Shape' /\ Clearing' /\ RunsAsLinked' /\ Heap'
      BY <1>1, <3>4, <3>5 DEF Shape, Clearing, RunsAsLinked, Heap
    <3> QED  BY <1>2, <3>8, <3>9, Zenon DEF MemInv
  <2>3. CASE to = Sections[section].end
    <3>1. section' = 2 /\ at' = "load" /\ ram' = ram
      BY <1>6, <2>3, SectionsAre DEF alt_load_section, EnterSection
    <3>2. j = Data
      <4>1. RamWord(j) = RamWord(Data) /\ j \in Int /\ Data \in Int
        BY <1>4, <1>6, <2>1, <2>3, SectionsAre
      <4> QED  BY <4>1, WordApart
    <3>3. Copying'
      BY <1>3, <2>1, <3>1, <3>2 DEF Copying, Filled
    <3>4. Shape' /\ Clearing' /\ RunsAsLinked' /\ Heap'
      BY <1>1, <3>1 DEF Shape, Clearing, RunsAsLinked, Heap
    <3> QED  BY <1>2, <3>3, <3>4, Zenon DEF MemInv
  <2> QED  BY <2>2, <2>3
<1>7. CASE section = 2
  <2>1. section' = 3 /\ at' = "load" /\ ram' = ram /\ to' = RamWord(0) /\ from' = FlashWord(0)
    BY <1>7, SectionsAre DEF alt_load_section, EnterSection
  <2>2. 0 \in 0..Rodata /\ ~ \E i \in 0..0 - 1 : TRUE
    BY <1>4
  <2>3. Copying'
    BY <1>3, <1>7, <2>1, <2>2 DEF Copying, Filled
  <2>4. Shape' /\ Clearing' /\ RunsAsLinked' /\ Heap'
    BY <1>1, <2>1 DEF Shape, Clearing, RunsAsLinked, Heap
  <2> QED  BY <1>2, <2>3, <2>4, Zenon DEF MemInv
<1>8. CASE section = 3
  <2>1. PICK j \in 0..Rodata : to = RamWord(j) /\ from = FlashWord(j) /\ \A i \in 0..j - 1 : Filled(i)
    BY <1>3, <1>8
  <2>2. CASE to # Sections[section].end
    <3>1. Landing(j)
      BY <1>8, <2>2, SectionsAre DEF alt_load_section
    <3>2. j # Rodata
      BY <1>8, <2>1, <2>2, SectionsAre
    <3>3. j \in 0..Data - 1
      BY <1>4, <3>2
    <3>4. /\ ram' \in [RamWords -> Int] /\ to' = RamWord(j + 1) /\ from' = FlashWord(j + 1)
          /\ \A i \in 0..All - 1 : i = j \/ Filled(i) => ram'[RamWord(i)] = LinkedAs(i)
      BY <1>5, <2>1, <3>1, <3>3, Zenon
    <3>5. at' = "load" /\ section' = 3
      BY <1>1, <1>8, <3>1
    <3>6. \A i \in Rodata..All - 1 : Filled(i)'
      BY <1>3, <1>4, <1>8, <3>4 DEF Filled
    <3>7. j + 1 \in 0..Rodata /\ \A i \in 0..(j + 1) - 1 : Filled(i)'
      BY <1>4, <2>1, <3>2, <3>4 DEF Filled
    <3>8. (\A i \in Data..All - 1 : Filled(i)') /\ (\A i \in Rodata..Data - 1 : Filled(i)')
      BY <1>4, <3>6
    <3>9. Copying'
      BY <3>4, <3>5, <3>7, <3>8 DEF Copying
    <3>10. Shape' /\ Clearing' /\ RunsAsLinked' /\ Heap'
      BY <1>1, <3>4, <3>5 DEF Shape, Clearing, RunsAsLinked, Heap
    <3> QED  BY <1>2, <3>9, <3>10, Zenon DEF MemInv
  <2>3. CASE to = Sections[section].end
    <3>1. section' = 4 /\ at' = "main" /\ ram' = ram
      BY <1>8, <2>3, SectionsAre DEF alt_load_section, EnterSection
    <3>2. j = Rodata
      <4>1. RamWord(j) = RamWord(Rodata) /\ j \in Int /\ Rodata \in Int
        BY <1>4, <1>8, <2>1, <2>3, SectionsAre
      <4> QED  BY <4>1, WordApart
    <3>3. \A i \in 0..All - 1 : Filled(i)
      BY <1>3, <1>4, <1>8, <2>1, <3>2
    <3>4. RunsAsLinked'
      BY <1>1, <3>1, <3>3 DEF RunsAsLinked, Filled
    <3>5. ram'[HeapEnd] = alt_heap_start
      <4>1. Filled(Rodata)
        BY <1>4, <3>3
      <4> QED  BY <3>1, <4>1, SectionEnds, LinkedType DEF Filled
    <3>6. Heap'
      <4>1. ram'[HeapEnd] \in alt_heap_start..alt_heap_limit
        BY <3>5, SectionEnds
      <4> QED  BY <1>2, <4>1 DEF Heap
    <3>7. Shape' /\ Clearing' /\ Copying'
      BY <1>1, <3>1 DEF Shape, Clearing, Copying
    <3> QED  BY <1>2, <3>4, <3>6, <3>7, Zenon DEF MemInv
  <2> QED  BY <2>2, <2>3
<1> QED  BY <1>3, <1>6, <1>7, <1>8
(* What the newest call becomes, when it goes on.                          *)
LEMMA CallGoes ==
  ASSUME CallsInOrder, sbrks # <<>>, NEW c \in CallType, sbrks' = [sbrks EXCEPT ![Len(sbrks)] = c]
  PROVE  /\ sbrks' \in Seq(CallType) /\ Len(sbrks') = Len(sbrks) /\ Len(sbrks) \in 1..2 /\ sbrks' # <<>>
         /\ Newest' = c /\ Newest \in CallType
         /\ Len(sbrks) = 2 => sbrks'[1] = sbrks[1]
<1>1. sbrks \in Seq(CallType) /\ Len(sbrks) \in 0..2
  BY DEF CallsInOrder
<1>2. Len(sbrks) \in 1..2
  BY <1>1
<1> DEFINE n == Len(sbrks)
<1>3. n \in 1..n /\ n \in 1..2
  BY <1>2
<1>4. sbrks' \in Seq(CallType) /\ Len(sbrks') = n /\ sbrks'[n] = c /\ (n = 2 => sbrks'[1] = sbrks[1])
  BY <1>1, <1>2
<1>5. sbrks' # <<>>
  BY <1>3, <1>4
<1>6. Newest \in CallType
  BY <1>1, <1>2 DEF Newest
<1> QED  BY <1>2, <1>4, <1>5, <1>6 DEF Newest

LEMMA CallFields ==
  ASSUME NEW c \in CallType
  PROVE  /\ c.who \in {"program", "handler"} /\ c.step \in Steps /\ c.incr \in Increments
         /\ c.context \in BOOLEAN
         /\ \A s \in Steps : [c EXCEPT !.step = s] \in CallType
         /\ \A s \in Steps : /\ [c EXCEPT !.step = s].who = c.who /\ [c EXCEPT !.step = s].step = s
                             /\ [c EXCEPT !.step = s].incr = c.incr
                             /\ [c EXCEPT !.step = s].context = c.context
BY DEF CallType

\* a step between the first and the last
LEMMA CallKeeps ==
  ASSUME CallsInOrder, sbrks # <<>>, Newest.step # "disable", NEW s \in Steps \ {"disable"}, GoesTo(s),
         UNCHANGED <<on, irqs_on>>
  PROVE  CallsInOrder' /\ sbrks' # <<>> /\ Newest'.step = s /\ Newest'.incr = Newest.incr
<1> DEFINE c == [Newest EXCEPT !.step = s]
<1>1. sbrks' = [sbrks EXCEPT ![Len(sbrks)] = c]
  BY DEF GoesTo, Newest
<1>2. Newest \in CallType
  <2>1. sbrks \in Seq(CallType) /\ Len(sbrks) \in 0..2
    BY DEF CallsInOrder
  <2>2. Len(sbrks) \in 1..Len(sbrks)
    BY <2>1
  <2> QED  BY <2>1, <2>2 DEF Newest
<1>3. /\ c \in CallType /\ c.who = Newest.who /\ c.step = s /\ c.incr = Newest.incr
      /\ c.context = Newest.context
  BY <1>2, CallFields, Zenon
<1> HIDE DEF c
<1>4. /\ sbrks' \in Seq(CallType) /\ Len(sbrks') = Len(sbrks) /\ Len(sbrks) \in 1..2 /\ sbrks' # <<>>
      /\ Newest' = c /\ (Len(sbrks) = 2 => sbrks'[1] = sbrks[1])
  BY <1>1, <1>3, CallGoes, Zenon
<1>5. Len(sbrks') \in 0..2
  BY <1>4 DEF CallsInOrder
<1>6. CallsInOrder'
  BY <1>3, <1>4, <1>5, Zenon DEF CallsInOrder
<1> QED  BY <1>3, <1>4, <1>6, Zenon

(* A step of the program that runs, but for those that store to its        *)
(* variables.                                                              *)
LEMMA MainKeeps ==
  ASSUME MemInv, at = "main", Boot, stored' = stored, CallsInOrder', Heap', on' \in BOOLEAN, irqs_on' \in BOOLEAN,
         ram' \in [RamWords -> Int], \A i \in 0..All - 1 : i = Rodata \/ ram'[RamWord(i)] = ram[RamWord(i)]
  PROVE  MemInv'
<1>1. at' = "main" /\ section' = section
  BY DEF Boot
<1>2. Shape'
  BY <1>1 DEF MemInv, Shape
<1>3. Starting' /\ Clearing' /\ Copying'
  BY <1>1, Zenon DEF Starting, Clearing, Copying
<1>4. RunsAsLinked'
  BY <1>1 DEF MemInv, RunsAsLinked, Filled
<1> QED  BY <1>2, <1>3, <1>4, Zenon DEF MemInv

(* What stays true of the heap, when no block is handed out.               *)
LEMMA HeapStays ==
  ASSUME MemInv, at = "main", at' = "main", blocks' = blocks, ram'[HeapEnd] = ram[HeapEnd],
         sbrks' # <<>> => Newest'.step \notin {"check", "take"}
  PROVE  Heap'
BY Zenon DEF MemInv, Heap

LEMMA SwitchOnKeeps == MemInv /\ SwitchOn => MemInv'
<1> SUFFICES ASSUME MemInv, SwitchOn PROVE MemInv'
  OBVIOUS
<1>1. at = "main" /\ Boot /\ ram' = ram /\ stored' = stored /\ blocks' = blocks
      /\ on' = TRUE /\ irqs_on' = TRUE /\ sbrks' = <<>>
  BY Zenon DEF SwitchOn
<1>2. CallsInOrder'
  BY <1>1, NoCalls, Zenon
<1>3. at' = "main"
  BY <1>1 DEF Boot
<1>4. Heap'
  BY <1>1, <1>3, HeapStays, Zenon
<1>5. ram' \in [RamWords -> Int]
  BY <1>1 DEF MemInv, Shape
<1> QED  BY <1>1, <1>2, <1>4, <1>5, MainKeeps, Zenon

LEMMA StoreKeeps == MemInv /\ Store => MemInv'
<1> SUFFICES ASSUME MemInv, Store PROVE MemInv'
  OBVIOUS
<1>1. at = "main" /\ Boot /\ UNCHANGED <<on, irqs_on, sbrks, blocks>>
  BY Zenon DEF Store
<1>2. PICK a \in RamWords \ (WordsFrom(RodataStart, Rodata) \cup {HeapEnd}) :
        ram' = [ram EXCEPT ![a] = Unknown] /\ stored' = stored \cup {a}
  BY DEF Store
<1>3. PICK j \in 0..All - 1 : a = RamWord(j)
  BY <1>2, Places
<1>4. /\ ram \in [RamWords -> Int] /\ stored \subseteq RamWords /\ section \in 0..4
      /\ \A i \in 0..All - 1 : i = Rodata \/ RamWord(i) \in stored \/ Filled(i)
      /\ \A i \in 0..Rodata - 1 : RamWord(i) \notin stored
      /\ Rodata \in Nat /\ Data \in Nat /\ All \in Nat /\ Rodata < Data /\ Data <= All
  BY <1>1, Places DEF MemInv, Shape, RunsAsLinked
<1>5. Unknown \in Int
  BY DEF Unknown
<1>6. /\ ram' \in [RamWords -> Int] /\ \A i \in 0..All - 1 : i # j => ram'[RamWord(i)] = ram[RamWord(i)]
  BY <1>2, <1>3, <1>4, <1>5, Writing, Zenon
<1>7. j # Rodata /\ j \notin 0..Rodata - 1
  <2>1. RamWord(j) # RamWord(Rodata)
    BY <1>2, <1>3, SectionEnds
  <2>2. ASSUME j \in 0..Rodata - 1 PROVE FALSE
    <3>1. RodataStart + 4 * j = RamWord(j)
      BY <2>2, SectionEnds
    <3>2. RamWord(j) \in WordsFrom(RodataStart, Rodata)
      BY <2>2, <3>1 DEF WordsFrom
    <3> QED  BY <1>2, <1>3, <3>2
  <2> QED  BY <2>1, <2>2
<1>8. at' = "main" /\ section' = section
  BY <1>1 DEF Boot
<1>9. Shape'
  BY <1>2, <1>4, <1>6, <1>8 DEF Shape
<1>10. Starting'
  BY <1>1, <1>8, Zenon DEF MemInv, Starting
<1>11. Clearing' /\ Copying'
  BY <1>8, Zenon DEF Clearing, Copying
<1>12. RunsAsLinked'
  <2>1. ASSUME NEW i \in 0..All - 1
        PROVE  i = Rodata \/ RamWord(i) \in stored' \/ ram'[RamWord(i)] = LinkedAs(i)
    <3>1. CASE i = j
      BY <1>2, <1>3, <3>1
    <3>2. CASE i # j
      <4>1. ram'[RamWord(i)] = ram[RamWord(i)]
        BY <1>6, <3>2
      <4>2. i = Rodata \/ RamWord(i) \in stored \/ ram[RamWord(i)] = LinkedAs(i)
        BY <1>4 DEF Filled
      <4> QED  BY <1>2, <4>1, <4>2
    <3> QED  BY <3>1, <3>2
  <2>2. ASSUME NEW i \in 0..Rodata - 1
        PROVE  RamWord(i) \notin stored'
    <3>1. RamWord(i) # RamWord(j)
      <4>1. i \in Int /\ j \in Int /\ i # j
        BY <1>4, <1>7
      <4> QED  BY <4>1, WordApart
    <3> QED  BY <1>2, <1>3, <1>4, <3>1
  <2> QED  BY <1>8, <2>1, <2>2 DEF RunsAsLinked, Filled
<1>13. CallsInOrder'
  BY <1>1, CallsStay DEF MemInv
<1>14. Heap'
  <2>1. ram'[HeapEnd] = ram[HeapEnd]
    <3>1. Rodata \in 0..All - 1 /\ Rodata # j
      BY <1>4, <1>7
    <3>2. ram'[RamWord(Rodata)] = ram[RamWord(Rodata)]
      BY <1>6, <3>1, Zenon
    <3>3. HeapEnd = RamWord(Rodata)
      BY SectionEnds
    <3> QED  BY <3>2, <3>3
  <2> QED  BY <1>1, <1>8, <2>1, Zenon DEF MemInv, Heap, Newest
<1> QED  BY <1>9, <1>10, <1>11, <1>12, <1>13, <1>14, Zenon DEF MemInv

(* Calls of sbrk: the program's, or a handler's.                           *)
LEMMA SbrkCallKeeps == MemInv /\ SbrkCall => MemInv'
<1> SUFFICES ASSUME MemInv, SbrkCall PROVE MemInv'
  OBVIOUS
<1>1. at = "main" /\ Boot /\ ram' = ram /\ stored' = stored /\ blocks' = blocks
      /\ UNCHANGED <<on, irqs_on>> /\ sbrks = <<>>
  BY Zenon DEF SbrkCall
<1>2. PICK incr \in Increments : sbrks' = <<Sbrk("program", incr)>>
  BY Zenon DEF SbrkCall
<1>3. on \in BOOLEAN /\ irqs_on \in BOOLEAN /\ irqs_on = on
  BY <1>1, Zenon DEF MemInv, Starting, CallsInOrder
<1> DEFINE c == Sbrk("program", incr)
<1>4. c \in CallType /\ c.who = "program" /\ c.step = "disable"
  BY DEF CallType, Sbrk, Steps
<1> HIDE DEF c
<1>5. /\ sbrks' \in Seq(CallType) /\ Len(sbrks') = 1 /\ Len(sbrks') \in 0..2 /\ sbrks' # <<>> /\ sbrks'[1] = c
  BY <1>2, <1>4 DEF c
<1>6. Newest' = c
  BY <1>5 DEF Newest
<1>7. CallsInOrder'
  <2>1. c.who # "handler"
    BY <1>4
  <2> QED  BY <1>1, <1>3, <1>4, <1>5, <1>6, <2>1, Zenon DEF CallsInOrder
<1>8. at' = "main"
  BY <1>1 DEF Boot
<1>9. Heap'
  <2>1. Newest'.step \notin {"check", "take"}
    BY <1>4, <1>6
  <2> QED  BY <1>1, <1>8, <2>1, HeapStays, Zenon
<1>10. ram' \in [RamWords -> Int]
  BY <1>1 DEF MemInv, Shape
<1> QED  BY <1>1, <1>3, <1>7, <1>9, <1>10, MainKeeps, Zenon

LEMMA InterruptKeeps == MemInv /\ InterruptCalls => MemInv'
<1> SUFFICES ASSUME MemInv, InterruptCalls PROVE MemInv'
  OBVIOUS
<1>1. Boot /\ ram' = ram /\ stored' = stored /\ blocks' = blocks
      /\ on' = on /\ irqs_on = TRUE /\ irqs_on' = FALSE
  <2>1. irqs_on \in BOOLEAN
    BY Zenon DEF MemInv, Starting
  <2> QED  BY <2>1, Zenon DEF InterruptCalls
<1>2. PICK incr \in Increments : sbrks' = Append(sbrks, Sbrk("handler", incr))
  BY Zenon DEF InterruptCalls
<1>3. at = "main" /\ on \in BOOLEAN
  BY <1>1, Zenon DEF MemInv, Starting
<1>4. sbrks \in Seq(CallType) /\ Len(sbrks) \in 0..2
  BY DEF MemInv, CallsInOrder
<1>5. \/ sbrks = <<>> /\ on = TRUE
      \/ Len(sbrks) = 1 /\ Newest = sbrks[1] /\ Newest.who = "program" /\ Newest.step = "disable" /\ on = TRUE
  <2>1. CASE sbrks = <<>>
    BY <1>1, <2>1, Zenon DEF MemInv, CallsInOrder
  <2>2. CASE sbrks # <<>>
    <3>1. Newest \in CallType
      BY <1>4, <2>2 DEF Newest
    <3>2. Newest.who # "handler"
      BY <1>1, <2>2, Zenon DEF MemInv, CallsInOrder
    <3>3. Newest.who = "program"
      BY <3>1, <3>2, CallFields
    <3>4. Len(sbrks) = 1 /\ Newest.step = "disable" /\ on = TRUE
      BY <1>1, <2>2, <3>3, Zenon DEF MemInv, CallsInOrder
    <3> QED  BY <3>3, <3>4 DEF Newest
  <2> QED  BY <2>1, <2>2
<1> DEFINE c == Sbrk("handler", incr)
<1>6. c \in CallType /\ c.who = "handler" /\ c.step = "disable"
  BY DEF CallType, Sbrk, Steps
<1> HIDE DEF c
<1>7. /\ sbrks' \in Seq(CallType) /\ Len(sbrks') = Len(sbrks) + 1 /\ sbrks'[Len(sbrks) + 1] = c
      /\ (Len(sbrks) = 1 => sbrks'[1] = sbrks[1])
  BY <1>2, <1>4, <1>6 DEF c
<1>8. Len(sbrks') \in 0..2 /\ sbrks' # <<>> /\ Newest' = c /\ (Len(sbrks') = 2 => Len(sbrks) = 1)
  <2>1. Len(sbrks) \in 0..1
    BY <1>4, <1>5
  <2>2. Len(sbrks') = Len(sbrks) + 1 /\ Len(sbrks') \in 0..2 /\ (Len(sbrks') = 2 => Len(sbrks) = 1)
    <3> DEFINE n == Len(sbrks)
               m == Len(sbrks')
    <3>1. m = n + 1 /\ n \in 0..1
      BY <1>7, <2>1
    <3> HIDE DEF n, m
    <3>2. m = n + 1 /\ m \in 0..2 /\ (m = 2 => n = 1)
      BY <3>1
    <3> QED  BY <3>2 DEF n, m
  <2>3. sbrks' # <<>>
    BY <2>1, <2>2
  <2>4. Newest' = c
    BY <1>7, <2>2 DEF Newest
  <2> QED  BY <2>2, <2>3, <2>4
<1>9. Len(sbrks') = 2 => sbrks'[1].who = "program" /\ sbrks'[1].step = "disable"
  <2> SUFFICES ASSUME Len(sbrks') = 2 PROVE sbrks'[1].who = "program" /\ sbrks'[1].step = "disable"
    OBVIOUS
  <2>1. Len(sbrks) = 1 /\ sbrks'[1] = sbrks[1] /\ sbrks # <<>>
    BY <1>4, <1>7, <1>8
  <2> QED  BY <1>5, <2>1
<1>10. on' = TRUE
  BY <1>1, <1>5, Zenon
<1>11. CallsInOrder'
  <2>1. c.who # "program"
    BY <1>6
  <2> QED  BY <1>1, <1>6, <1>7, <1>8, <1>9, <1>10, <2>1, Zenon DEF CallsInOrder
<1>12. at' = "main"
  BY <1>1, <1>3 DEF Boot
<1>13. Heap'
  <2>1. Newest'.step \notin {"check", "take"}
    BY <1>6, <1>8
  <2> QED  BY <1>1, <1>3, <1>12, <2>1, HeapStays, Zenon
<1>14. ram' \in [RamWords -> Int]
  BY <1>1 DEF MemInv, Shape
<1>15. on' \in BOOLEAN /\ irqs_on' \in BOOLEAN
  BY <1>1, <1>10, Zenon
<1> QED  BY <1>1, <1>3, <1>11, <1>13, <1>14, <1>15, MainKeeps, Zenon
(* The steps of a call.                                                    *)
LEMMA DisableKeeps == MemInv /\ DisableAll => MemInv'
<1> SUFFICES ASSUME MemInv, DisableAll PROVE MemInv'
  OBVIOUS
<1> DEFINE c == [Newest EXCEPT !.step = "align", !.context = irqs_on]
<1>1. /\ Boot /\ ram' = ram /\ stored' = stored /\ blocks' = blocks /\ on' = on /\ irqs_on' = FALSE
      /\ sbrks # <<>> /\ Newest.step = "disable" /\ sbrks' = [sbrks EXCEPT ![Len(sbrks)] = c]
  BY Zenon DEF DisableAll, AtSbrk, Disabled, Newest
<1>2. at = "main" /\ on \in BOOLEAN /\ irqs_on \in BOOLEAN /\ irqs_on' \in BOOLEAN
  BY <1>1, Zenon DEF MemInv, Starting
<1>3. Newest \in CallType
  <2>1. sbrks \in Seq(CallType) /\ Len(sbrks) \in 0..2
    BY DEF MemInv, CallsInOrder
  <2> QED  BY <1>1, <2>1 DEF Newest
<1>4. /\ c \in CallType /\ c.who = Newest.who /\ c.step = "align" /\ c.context = irqs_on
  <2>1. "align" \in Steps
    BY DEF Steps
  <2> QED  BY <1>2, <1>3, <2>1, Zenon DEF CallType
<1> HIDE DEF c
<1>5. CallsInOrder
  BY Zenon DEF MemInv
<1>6. /\ sbrks' \in Seq(CallType) /\ Len(sbrks') = Len(sbrks) /\ Len(sbrks) \in 1..2 /\ sbrks' # <<>>
      /\ Newest' = c /\ (Len(sbrks) = 2 => sbrks'[1] = sbrks[1])
  BY <1>1, <1>4, <1>5, CallGoes, Zenon
<1>7. Len(sbrks') \in 0..2
  BY <1>6 DEF MemInv, CallsInOrder
<1>8. CallsInOrder'
  BY <1>1, <1>4, <1>5, <1>6, <1>7, Zenon DEF CallsInOrder
<1>9. at' = "main"
  BY <1>1, <1>2 DEF Boot
<1>10. Heap'
  <2>1. Newest'.step \notin {"check", "take"}
    BY <1>4, <1>6
  <2> QED  BY <1>1, <1>2, <1>9, <2>1, HeapStays, Zenon
<1>11. ram' \in [RamWords -> Int]
  BY <1>1 DEF MemInv, Shape
<1> QED  BY <1>1, <1>2, <1>8, <1>10, <1>11, MainKeeps, Zenon

LEMMA RoundUp ==
  ASSUME NEW h \in Nat, NEW l \in Nat, l % 4 = 0, h <= l
  PROVE  LET r == ((h + 3) \div 4) * 4 IN r \in Nat /\ r >= h /\ r <= l /\ r % 4 = 0
OBVIOUS

LEMMA AlignKeeps == MemInv /\ Align => MemInv'
<1> SUFFICES ASSUME MemInv, Align PROVE MemInv'
  OBVIOUS
<1> DEFINE h == ram[HeapEnd]
           r == ((h + 3) \div 4) * 4
<1>1. /\ Boot /\ stored' = stored /\ blocks' = blocks /\ UNCHANGED <<on, irqs_on>>
      /\ sbrks # <<>> /\ Newest.step = "align" /\ GoesTo("check") /\ ram' = [ram EXCEPT ![HeapEnd] = r]
  BY Zenon DEF Align, AtSbrk
<1>2. at = "main" /\ on' \in BOOLEAN /\ irqs_on' \in BOOLEAN
  BY <1>1, Zenon DEF MemInv, Starting
<1>3. CallsInOrder' /\ sbrks' # <<>> /\ Newest'.step = "check"
  <2>1. "check" \in Steps \ {"disable"} /\ Newest.step # "disable"
    BY <1>1 DEF Steps
  <2> QED  BY <1>1, <2>1, CallKeeps, Zenon DEF MemInv
<1>4. /\ h \in alt_heap_start..alt_heap_limit /\ alt_heap_start \in Nat /\ alt_heap_limit \in Nat
      /\ alt_heap_limit % 4 = 0
  BY <1>2, SectionEnds DEF MemInv, Heap
<1> HIDE DEF h
<1>5. r \in Nat /\ r >= h /\ r <= alt_heap_limit /\ r % 4 = 0 /\ h \in Nat
  <2>1. h \in Nat /\ h <= alt_heap_limit
    BY <1>4
  <2> QED  BY <1>4, <2>1, RoundUp
<1> HIDE DEF r
<1>6. Rodata \in 0..All - 1 /\ HeapEnd = RamWord(Rodata) /\ ram \in [RamWords -> Int] /\ r \in Int
  <2>1. ram \in [RamWords -> Int]
    BY DEF MemInv, Shape
  <2> QED  BY <1>5, <2>1, Places, SectionEnds
<1>7. /\ ram' \in [RamWords -> Int] /\ ram'[HeapEnd] = r
      /\ \A i \in 0..All - 1 : i # Rodata => ram'[RamWord(i)] = ram[RamWord(i)]
  BY <1>1, <1>6, Writing, Zenon
<1>8. at' = "main"
  BY <1>1, <1>2 DEF Boot
<1>9. Heap'
  <2>1. \A b \in blocks : /\ b.base \in Nat /\ b.span \in Increments /\ b.base % 4 = 0
                          /\ b.base >= alt_heap_start /\ b.base + b.span <= h
    BY <1>2 DEF MemInv, Heap, h
  <2>2. \A b \in blocks : b.base + b.span <= r
    <3> TAKE b \in blocks
    <3>1. b.base \in Nat /\ b.span \in Nat /\ b.base + b.span <= h
      BY <2>1, MemoryAssumption
    <3> QED  BY <1>5, <3>1
  <2>3. r \in alt_heap_start..alt_heap_limit
    BY <1>4, <1>5
  <2>4. \A b, d \in blocks : b # d => Apart(b, d)
    BY <1>2 DEF MemInv, Heap
  <2>5. Newest'.step # "take"
    BY <1>3
  <2> QED  BY <1>1, <1>5, <1>7, <2>1, <2>2, <2>3, <2>4, <2>5, Zenon DEF Heap
<1> QED  BY <1>1, <1>2, <1>3, <1>7, <1>9, MainKeeps, Zenon

LEMMA CheckKeeps == MemInv /\ CheckLimit => MemInv'
<1> SUFFICES ASSUME MemInv, CheckLimit PROVE MemInv'
  OBVIOUS
<1> DEFINE s == IF ram[HeapEnd] + Newest.incr > alt_heap_limit THEN "enable" ELSE "take"
<1>1. /\ Boot /\ stored' = stored /\ blocks' = blocks /\ UNCHANGED <<on, irqs_on>> /\ ram' = ram
      /\ sbrks # <<>> /\ Newest.step = "check" /\ GoesTo(s)
  BY Zenon DEF CheckLimit, AtSbrk
<1>2. at = "main" /\ on' \in BOOLEAN /\ irqs_on' \in BOOLEAN
  BY <1>1, Zenon DEF MemInv, Starting
<1>3. CallsInOrder' /\ sbrks' # <<>> /\ Newest'.step = s /\ Newest'.incr = Newest.incr
  <2>1. s \in Steps \ {"disable"} /\ Newest.step # "disable"
    BY <1>1 DEF Steps
  <2> HIDE DEF s
  <2> QED  BY <1>1, <2>1, CallKeeps, Zenon DEF MemInv
<1>4. at' = "main"
  BY <1>1, <1>2 DEF Boot
<1>5. Heap'
  <2>1. /\ \A b \in blocks :
             /\ b.base \in Nat /\ b.span \in Increments
             /\ b.base % 4 = 0 /\ b.base >= alt_heap_start /\ b.base + b.span <= ram[HeapEnd]
        /\ \A b, d \in blocks : b # d => Apart(b, d)
        /\ ram[HeapEnd] \in alt_heap_start..alt_heap_limit
        /\ ram[HeapEnd] % 4 = 0
    BY <1>1, <1>2, Zenon DEF MemInv, Heap
  <2>2. Newest'.step = "take" => ram[HeapEnd] + Newest'.incr <= alt_heap_limit
    <3>1. Newest.incr \in Nat
      <4>1. sbrks \in Seq(CallType) /\ Len(sbrks) \in 0..2
        BY DEF MemInv, CallsInOrder
      <4>2. Newest \in CallType
        BY <1>1, <4>1 DEF Newest
      <4> QED  BY <4>2, CallFields, MemoryAssumption
    <3>2. ram[HeapEnd] \in Int /\ alt_heap_limit \in Int
      <4>1. ram[HeapEnd] \in alt_heap_start..alt_heap_limit
        BY <2>1, Zenon
      <4>2. alt_heap_start \in Int /\ alt_heap_limit \in Int
        BY SectionEnds
      <4> QED  BY <4>1, <4>2
    <3> QED  BY <1>3, <3>1, <3>2
  <2> QED  BY <1>1, <2>1, <2>2, Zenon DEF Heap
<1>6. ram' \in [RamWords -> Int]
  BY <1>1 DEF MemInv, Shape
<1> QED  BY <1>1, <1>2, <1>3, <1>5, <1>6, MainKeeps, Zenon

LEMMA TakeKeeps == MemInv /\ TakeBlock => MemInv'
<1> SUFFICES ASSUME MemInv, TakeBlock PROVE MemInv'
  OBVIOUS
<1> DEFINE h == ram[HeapEnd]
           n == Newest.incr
           new == [base |-> h, span |-> n]
<1>1. /\ Boot /\ stored' = stored /\ blocks' = blocks \cup {new} /\ UNCHANGED <<on, irqs_on>>
      /\ sbrks # <<>> /\ Newest.step = "take" /\ GoesTo("enable") /\ ram' = [ram EXCEPT ![HeapEnd] = h + n]
  BY Zenon DEF TakeBlock, AtSbrk
<1>2. at = "main" /\ on' \in BOOLEAN /\ irqs_on' \in BOOLEAN
  BY <1>1, Zenon DEF MemInv, Starting
<1>3. CallsInOrder' /\ sbrks' # <<>> /\ Newest'.step = "enable"
  <2>1. "enable" \in Steps \ {"disable"} /\ Newest.step # "disable"
    BY <1>1 DEF Steps
  <2> QED  BY <1>1, <2>1, CallKeeps, Zenon DEF MemInv
<1>4. n \in Increments /\ Increments \subseteq Nat
  <2>1. sbrks \in Seq(CallType) /\ Len(sbrks) \in 0..2
    BY DEF MemInv, CallsInOrder
  <2>2. Newest \in CallType
    BY <1>1, <2>1 DEF Newest
  <2> QED  BY <2>2, CallFields, MemoryAssumption
<1>5. /\ \A b \in blocks :
           /\ b.base \in Nat /\ b.span \in Increments
           /\ b.base % 4 = 0 /\ b.base >= alt_heap_start /\ b.base + b.span <= h
      /\ \A b, d \in blocks : b # d => Apart(b, d)
      /\ h \in alt_heap_start..alt_heap_limit
      /\ h % 4 = 0 /\ h + n <= alt_heap_limit
  BY <1>1, <1>2, Zenon DEF MemInv, Heap
<1> HIDE DEF h, n
<1>6. h \in Nat /\ n \in Nat /\ alt_heap_start \in Nat /\ alt_heap_limit \in Nat /\ h >= alt_heap_start
  BY <1>4, <1>5, SectionEnds
<1>7. Rodata \in 0..All - 1 /\ HeapEnd = RamWord(Rodata) /\ ram \in [RamWords -> Int] /\ h + n \in Int
  <2>1. ram \in [RamWords -> Int]
    BY DEF MemInv, Shape
  <2> QED  BY <1>6, <2>1, Places, SectionEnds
<1>8. /\ ram' \in [RamWords -> Int] /\ ram'[HeapEnd] = h + n
      /\ \A i \in 0..All - 1 : i # Rodata => ram'[RamWord(i)] = ram[RamWord(i)]
  BY <1>1, <1>7, Writing, Zenon
<1>9. at' = "main"
  BY <1>1, <1>2 DEF Boot
<1>10. new.base = h /\ new.span = n
  OBVIOUS
<1> HIDE DEF new
<1>11. \A b \in blocks' :
         /\ b.base \in Nat /\ b.span \in Increments
         /\ b.base % 4 = 0 /\ b.base >= alt_heap_start /\ b.base + b.span <= h + n
  <2> TAKE b \in blocks'
  <2>1. CASE b = new
    BY <1>4, <1>5, <1>6, <1>10, <2>1
  <2>2. CASE b \in blocks
    <3>1. b.base \in Nat /\ b.span \in Nat /\ b.base + b.span <= h
      BY <1>4, <1>5, <2>2
    <3>2. b.base + b.span <= h + n
      BY <1>6, <3>1
    <3> QED  BY <1>5, <2>2, <3>2
  <2> QED  BY <1>1, <2>1, <2>2
<1>12. \A b \in blocks : Apart(b, new) /\ Apart(new, b)
  BY <1>5, <1>10 DEF Apart
<1>13. \A b, d \in blocks' : b # d => Apart(b, d)
  BY <1>1, <1>5, <1>12, Zenon
<1>14. h + n \in alt_heap_start..alt_heap_limit
  BY <1>5, <1>6
<1>15. Newest'.step \notin {"check", "take"}
  BY <1>3
<1>16. Heap'
  BY <1>8, <1>11, <1>13, <1>14, <1>15, Zenon DEF Heap
<1> QED  BY <1>1, <1>2, <1>3, <1>8, <1>16, MainKeeps, Zenon

LEMMA EnableKeeps == MemInv /\ EnableAll => MemInv'
<1> SUFFICES ASSUME MemInv, EnableAll PROVE MemInv'
  OBVIOUS
<1>1. /\ Boot /\ ram' = ram /\ stored' = stored /\ blocks' = blocks /\ on' = on
      /\ sbrks # <<>> /\ Newest.step = "enable" /\ sbrks' = SubSeq(sbrks, 1, Len(sbrks) - 1)
      /\ irqs_on' = (Newest.context \/ Newest.who = "handler")
  BY Zenon DEF EnableAll, AtSbrk
<1>2. at = "main" /\ on \in BOOLEAN /\ irqs_on' \in BOOLEAN
  BY <1>1, Zenon DEF MemInv, Starting
<1>3. sbrks \in Seq(CallType) /\ Len(sbrks) \in 1..2
  BY <1>1 DEF MemInv, CallsInOrder
<1>4. Newest \in CallType
  BY <1>3 DEF Newest
<1>5. Newest.who \in {"program", "handler"} /\ Newest.context \in BOOLEAN
  BY <1>4, CallFields
<1>6. \/ Len(sbrks) = 1 /\ sbrks' = <<>>
      \/ Len(sbrks) = 2 /\ sbrks' \in Seq(CallType) /\ Len(sbrks') = 1 /\ sbrks'[1] = sbrks[1]
  <2>1. CASE Len(sbrks) = 1
    BY <1>1, <1>3, <2>1
  <2>2. CASE Len(sbrks) = 2
    <3>1. sbrks' = SubSeq(sbrks, 1, 1) /\ 1 \in 1..Len(sbrks)
      BY <1>1, <1>3, <2>2
    <3>2. sbrks' \in Seq(CallType) /\ Len(sbrks') = 1 /\ sbrks'[1] = sbrks[1]
      BY <1>3, <3>1
    <3> QED  BY <2>2, <3>2
  <2> QED  BY <1>3, <2>1, <2>2
<1>7. irqs_on' = on
  <2>1. CASE Newest.who = "program"
    <3>1. Newest.context = on
      BY <1>1, <2>1 DEF MemInv, CallsInOrder
    <3>2. Newest.who # "handler"
      BY <2>1
    <3> QED  BY <1>1, <1>2, <3>1, <3>2, Zenon
  <2>2. CASE Newest.who = "handler"
    <3>1. on = TRUE
      BY <1>1, <2>2, Zenon DEF MemInv, CallsInOrder
    <3> QED  BY <1>1, <2>2, <3>1, Zenon
  <2> QED  BY <1>5, <2>1, <2>2
<1>8. CallsInOrder' /\ (sbrks' # <<>> => Newest'.step \notin {"check", "take"})
  <2>1. CASE sbrks' = <<>>
    BY <1>1, <1>7, <2>1, NoCalls, Zenon
  <2>2. CASE Len(sbrks) = 2 /\ sbrks' \in Seq(CallType) /\ Len(sbrks') = 1 /\ sbrks'[1] = sbrks[1]
    <3>1. /\ sbrks' \in Seq(CallType) /\ Len(sbrks') = 1 /\ Len(sbrks') \in 0..2 /\ sbrks' # <<>> /\ Newest' = sbrks[1]
      BY <2>2 DEF Newest
    <3>2. Newest.who = "handler"
      <4>1. Newest.who = "program" => Len(sbrks) = 1
        BY <1>1 DEF MemInv, CallsInOrder
      <4> QED  BY <1>5, <2>2, <4>1
    <3>3. Newest'.who = "program" /\ Newest'.step = "disable"
      <4>1. sbrks[1].who = "program" /\ sbrks[1].step = "disable"
        BY <1>1, <2>2, <3>2, Zenon DEF MemInv, CallsInOrder
      <4> QED  BY <3>1, <4>1
    <3>4. Newest'.who # "handler" /\ Newest'.step \notin {"check", "take"}
      BY <3>3
    <3> QED  BY <1>1, <1>7, <3>1, <3>3, <3>4, Zenon DEF CallsInOrder
  <2> QED  BY <1>6, <2>1, <2>2
<1>9. at' = "main"
  BY <1>1, <1>2 DEF Boot
<1>10. Heap'
  BY <1>1, <1>2, <1>8, <1>9, HeapStays, Zenon
<1>11. ram' \in [RamWords -> Int]
  BY <1>1 DEF MemInv, Shape
<1> QED  BY <1>1, <1>2, <1>8, <1>10, <1>11, MainKeeps, Zenon

LEMMA MemSteps == MemInv /\ [MemoryNext]_memoryVars => MemInv'
<1> SUFFICES ASSUME MemInv, [MemoryNext]_memoryVars PROVE MemInv'
  OBVIOUS
<1>1. CASE MemoryNext
  BY <1>1, ResetKeeps, ClearKeeps, LoadKeeps, SwitchOnKeeps, StoreKeeps, SbrkCallKeeps, InterruptKeeps,
     DisableKeeps, AlignKeeps, CheckKeeps, TakeKeeps, EnableKeeps, Zenon DEF MemoryNext, ALT_SBRK
<1>2. CASE UNCHANGED memoryVars
  <2>1. UNCHANGED <<ram, at, section, from, to, on, irqs_on, sbrks, blocks, stored>>
    BY <1>2, Zenon DEF memoryVars
  <2>2. Shape' /\ Starting' /\ Clearing' /\ Copying' /\ RunsAsLinked'
    BY <2>1, Zenon DEF MemInv, Shape, Starting, Clearing, Copying, RunsAsLinked, Filled
  <2>3. CallsInOrder' /\ Heap'
    BY <2>1, Zenon DEF MemInv, CallsInOrder, Heap, Newest
  <2> QED  BY <2>2, <2>3, Zenon DEF MemInv
<1> QED  BY <1>1, <1>2, Zenon

LEMMA MemIsKept == MemInv => MemoryTypeOK /\ MemoryKept
<1> SUFFICES ASSUME MemInv PROVE MemoryTypeOK /\ MemoryKept
  OBVIOUS
<1>1. MemoryTypeOK
  <2>1. section \in 0..Len(Sections) + 1 /\ Len(sbrks) <= 2 /\ stored \subseteq RamWords
    <3>1. section \in 0..4 /\ Len(sbrks) \in 0..2 /\ stored \subseteq RamWords
      BY Zenon DEF MemInv, Shape, CallsInOrder
    <3>2. Len(Sections) + 1 = 4
      BY SectionsAre
    <3>3. Len(sbrks) <= 2
      <4>1. \A n \in 0..2 : n <= 2
        OBVIOUS
      <4> QED  BY <3>1, <4>1, Zenon
    <3> QED  BY <3>1, <3>2, <3>3, Zenon
  <2>2. on \in BOOLEAN /\ irqs_on \in BOOLEAN
    BY Zenon DEF MemInv, Starting
  <2>3. {on, irqs_on} \subseteq BOOLEAN
    BY <2>2, Zenon
  <2>4. \A b \in blocks : b.base \in Nat /\ b.span \in Increments
    <3>1. CASE at = "main"
      BY <3>1, Zenon DEF MemInv, Heap
    <3>2. CASE at # "main"
      BY <3>2, Zenon DEF MemInv, Starting
    <3> QED  BY <3>1, <3>2
  <2>5. ram \in [RamWords -> Int] /\ at \in {"bss", "load", "main"}
    BY DEF MemInv, Shape
  <2> QED  BY <2>1, <2>3, <2>4, <2>5, Zenon DEF MemoryTypeOK
<1>2. ASSUME at = "main" PROVE Loaded /\ HeapSound /\ (sbrks = <<>> => irqs_on = on)
  <2>1. /\ \A i \in 0..All - 1 : i = Rodata \/ RamWord(i) \in stored \/ ram[RamWord(i)] = LinkedAs(i)
        /\ \A i \in 0..Rodata - 1 : RamWord(i) \notin stored
        /\ Rodata \in Nat /\ Rwdata \in Nat /\ Bss \in Nat /\ Data = Rodata + Rwdata /\ All = Data + Bss
    BY <1>2, Places DEF MemInv, RunsAsLinked, Filled, Data, All
  <2>2. ASSUME NEW i \in 0..Rodata - 1
        PROVE  ram[RodataStart + 4 * i] = Image(RodataLoad + 4 * i)
    <3>1. i \in Int /\ i \in 0..All - 1 /\ i # Rodata /\ i < Data
      BY <2>1, Places
    <3>2. ram[RamWord(i)] = LinkedAs(i)
      BY <2>1, <3>1
    <3>3. LinkedAs(i) = Image(FlashWord(i))
      BY <3>1, LinkedType
    <3>4. RodataStart + 4 * i = RamWord(i) /\ RodataLoad + 4 * i = FlashWord(i)
      BY <3>1, SectionEnds
    <3> QED  BY <3>2, <3>3, <3>4
  <2>3. ASSUME NEW i \in 1..Rwdata - 1
        PROVE  RwdataStart + 4 * i \in stored \/ ram[RwdataStart + 4 * i] = Image(RwdataLoad + 4 * i)
    <3> DEFINE k == Rodata + i
    <3>1. i \in Int /\ k \in Int /\ k \in 0..All - 1 /\ k # Rodata /\ k < Data
      BY <2>1
    <3>2. RwdataStart + 4 * i = RamWord(k) /\ RwdataLoad + 4 * i = FlashWord(k)
      BY <3>1, SectionEnds
    <3> HIDE DEF k
    <3>3. RamWord(k) \in stored \/ ram[RamWord(k)] = LinkedAs(k)
      BY <2>1, <3>1
    <3>4. LinkedAs(k) = Image(FlashWord(k))
      BY <3>1, LinkedType
    <3> QED  BY <3>2, <3>3, <3>4
  <2>4. ASSUME NEW a \in WordsFrom(BssStart, Bss)
        PROVE  a \in stored \/ ram[a] = 0
    <3>1. PICK i \in 0..Bss - 1 : a = BssStart + 4 * i
      BY DEF WordsFrom
    <3> DEFINE k == Data + i
    <3>2. i \in Int /\ k \in Int /\ k \in 0..All - 1 /\ k # Rodata /\ k >= Data
      BY <2>1, Places
    <3>3. a = RamWord(k)
      BY <3>1, <3>2, SectionEnds
    <3> HIDE DEF k
    <3>4. RamWord(k) \in stored \/ ram[RamWord(k)] = LinkedAs(k)
      BY <2>1, <3>2
    <3>5. LinkedAs(k) = 0
      BY <3>2, LinkedType
    <3> QED  BY <3>3, <3>4, <3>5
  <2>5. Loaded
    BY <2>2, <2>3, <2>4, Zenon DEF Loaded
  <2>6. HeapSound
    BY <1>2, Zenon DEF MemInv, Heap, HeapSound
  <2>7. sbrks = <<>> => irqs_on = on
    BY Zenon DEF MemInv, CallsInOrder
  <2> QED  BY <2>5, <2>6, <2>7
<1> QED  BY <1>1, <1>2, Zenon DEF MemoryKept

(* For sections of any size that fit and calls of sbrk for any number of   *)
(* bytes, with resets and interrupts at any moment: the program finds its  *)
(* constants and variables as they were linked, and the blocks of the heap *)
(* are aligned, apart and within it (crt0.S, alt_load.c, alt_sbrk.c:60-130).*)
THEOREM MemoryTheorem == MemorySpec => [](MemoryTypeOK /\ MemoryKept)
<1>1. MemorySpec => []MemInv
  BY MemStart, MemSteps, PTL DEF MemorySpec
<1> QED  BY <1>1, MemIsKept, PTL

-----------------------------------------------------------------------------
(* The alarms: a tick serves each alarm of the list once, alarms go off at *)
(* their ticks, and the time of day goes on.                               *)
(*                                                                         *)
(* The entries of the list have an order: a rank that falls from one to    *)
(* the next and ends at 0 with the head.  What is inserted has the highest *)
(* rank, so alt_tick, which goes down, never meets it; what is removed     *)
(* leaves the order of the others as it was.                               *)
(*                                                                         *)
(* The fields of an alarm say when it is due, whichever way the counter    *)
(* turns over: AlarmFields.  The time that was set lies in resettime as a  *)
(* difference, seconds and microseconds apart, of which the second may be  *)
(* negative: SetInv.                                                       *)
ServedEntries == {served[n] : n \in 1 .. Len(served)}

Types ==
  /\ ListTypeOK /\ served \in Seq(Links)
  /\ calling => alarm \in Entries

Order(rank) ==
  /\ rank \in [Links -> Nat] /\ rank[alt_alarm_list] = 0
  /\ \A a \in listed : rank[next[a]] < rank[a] /\ rank[a] <= rank[next[alt_alarm_list]]
  /\ \A a, b \in listed : rank[b] < rank[a] => rank[b] <= rank[next[a]]
  /\ \A a, b \in listed : rank[a] = rank[b] => a = b

(* What the walk comes to next, and what is still before it.               *)
Current == IF calling THEN following ELSE alarm
Ahead(rank) == {b \in listed : rank[b] <= rank[Current]}

Walk(rank) ==
  /\ Current \in Ahead(rank) \cup {alt_alarm_list}
  /\ Ahead(rank) \subseteq expected
  /\ Ahead(rank) \cap ServedEntries = {}
  /\ expected \subseteq Ahead(rank) \cup ServedEntries
  /\ \A m, n \in 1 .. Len(served) : served[m] = served[n] => m = n
  /\ calling => alarm \in ServedEntries

ListInv == Types /\ Linked /\ \E rank : Order(rank) /\ (~cut => Walk(rank))
-----------------------------------------------------------------------------
(* The links alone.                                                        *)
LEMMA InsertLinks ==
  ASSUME ListTypeOK, Linked, NEW a \in Entries, Starts(a)
  PROVE  /\ next' \in [Links -> Links] /\ previous' \in [Links -> Links]
         /\ Linked'
<1> USE ListAssumption DEF ListTypeOK, Linked, Links
<1> DEFINE first == next[alt_alarm_list]
<1>1. a \notin listed /\ next[a] = a /\ previous[a] = a /\ a # alt_alarm_list
  BY DEF Starts
<1>2. first \in Links /\ first # a /\ previous[first] = alt_alarm_list
  BY <1>1
<1>3. /\ next' = [next EXCEPT ![a] = first, ![alt_alarm_list] = a]
      /\ previous' = [previous EXCEPT ![a] = alt_alarm_list, ![first] = a]
      /\ listed' = listed \cup {a}
  BY DEF Starts, alt_llist_insert
<1> HIDE DEF first
<1>4. next' \in [Links -> Links] /\ previous' \in [Links -> Links]
  BY <1>2, <1>3
<1>5. \A l \in Links : next'[previous'[l]] = l /\ previous'[next'[l]] = l
  BY <1>1, <1>2, <1>3 DEF first
<1>6. \A b \in Entries : b \in listed' <=> next'[b] # b
  BY <1>1, <1>2, <1>3
<1>7. QED  BY <1>4, <1>5, <1>6

(* Two entries alone would be a ring without the head, and the removal of  *)
(* one would leave the other on its own: the ranks exclude it.             *)
LEMMA RemoveLinks ==
  ASSUME ListTypeOK, Linked, NEW rank, Order(rank), NEW a \in Entries, Stops(a)
  PROVE  /\ next' \in [Links -> Links] /\ previous' \in [Links -> Links]
         /\ Linked'
<1> USE ListAssumption DEF ListTypeOK, Linked, Links
<1> DEFINE p == previous[a]
           n == next[a]
<1>1. p \in Links /\ n \in Links /\ next[p] = a /\ previous[n] = a /\ (p = a <=> n = a)
  OBVIOUS
<1>2. /\ next' = [next EXCEPT ![p] = n, ![a] = a]
      /\ previous' = [previous EXCEPT ![n] = p, ![a] = a]
      /\ listed' = listed \ {a}
  BY DEF Stops, alt_llist_remove
<1>3. next[a] = n /\ previous[a] = p
  OBVIOUS
<1> HIDE DEF p, n
<1>4. next' \in [Links -> Links] /\ previous' \in [Links -> Links]
  BY <1>1, <1>2
<1>5. /\ next'[a] = a /\ previous'[a] = a
      /\ p # a => next'[p] = n /\ previous'[n] = p
      /\ \A k \in Links : /\ k \notin {a, p} => next'[k] = next[k]
                          /\ k \notin {a, n} => previous'[k] = previous[k]
  BY <1>1, <1>2
<1>6. ASSUME NEW l \in Links
      PROVE  next'[previous'[l]] = l /\ previous'[next'[l]] = l
  <2>1. CASE l = a
    BY <1>5, <2>1
  <2>2. CASE l # a
    <3>1. next'[previous'[l]] = l
      <4>1. CASE l = n
        BY <1>1, <1>5, <2>2, <4>1
      <4>2. CASE l # n
        <5>1. previous'[l] = previous[l] /\ previous[l] \notin {a, p} /\ previous[l] \in Links
          BY <1>1, <1>3, <1>5, <2>2, <4>2
        <5>2. QED  BY <1>5, <5>1
      <4>3. QED  BY <4>1, <4>2
    <3>2. previous'[next'[l]] = l
      <4>1. CASE l = p
        BY <1>1, <1>5, <2>2, <4>1
      <4>2. CASE l # p
        <5>1. next'[l] = next[l] /\ next[l] \notin {a, n} /\ next[l] \in Links
          BY <1>1, <1>3, <1>5, <2>2, <4>2
        <5>2. QED  BY <1>5, <5>1
      <4>3. QED  BY <4>1, <4>2
    <3>3. QED  BY <3>1, <3>2
  <2>3. QED  BY <2>1, <2>2
<1>7. ASSUME NEW b \in Entries
      PROVE  b \in listed' <=> next'[b] # b
  <2>1. CASE b = a
    BY <1>2, <1>5, <2>1
  <2>2. CASE b # a /\ b # p
    BY <1>2, <1>5, <2>2
  <2>3. CASE b # a /\ b = p
    <3>1. b \in listed /\ a \in listed
      BY <1>1, <1>3, <2>3
    <3>2. rank[a] < rank[p] /\ rank[n] < rank[a] /\ rank[p] \in Nat /\ rank[n] \in Nat /\ rank[a] \in Nat
      BY <1>1, <1>3, <2>3, <3>1 DEF Order
    <3>3. n # p
      BY <3>2
    <3>4. QED  BY <1>2, <1>5, <2>3, <3>1, <3>3
  <2>4. QED  BY <2>1, <2>2, <2>3
<1>8. QED  BY <1>4, <1>6, <1>7
-----------------------------------------------------------------------------
(* The order: an entry inserted is above all others.                       *)
LEMMA InsertOrder ==
  ASSUME ListTypeOK, Linked, NEW rank, Order(rank), NEW a \in Entries, Starts(a),
         NEW high, high = rank[next[alt_alarm_list]] + 1,
         NEW above, above = [rank EXCEPT ![a] = high]
  PROVE  /\ \A b \in listed : b # a /\ rank[b] < high
         /\ Order(above)'
<1> USE ListAssumption DEF ListTypeOK, Links
<1> DEFINE first == next[alt_alarm_list]
<1>1. a \notin listed /\ a # alt_alarm_list /\ next[a] = a
  BY DEF Starts, Linked
<1>2. first \in Links /\ first # a /\ rank[first] \in Nat /\ high \in Nat
  BY <1>1 DEF Linked, Order
<1>3. /\ next' = [next EXCEPT ![a] = first, ![alt_alarm_list] = a]
      /\ listed' = listed \cup {a}
  BY DEF Starts, alt_llist_insert
<1>4. \A b \in listed : b # a /\ rank[b] < high /\ rank[b] \in Nat /\ b \in Links /\ next[b] \in Links
      /\ next[b] # a
  <2>. TAKE b \in listed
  <2>1. b # a /\ b \in Links /\ next[b] \in Links /\ b # alt_alarm_list
    BY <1>1
  <2>2. rank[b] <= rank[first] /\ rank[b] \in Nat
    BY <2>1 DEF Order
  <2>3. next[b] # a
    BY <1>1, <2>1 DEF Linked
  <2>4. QED  BY <1>2, <2>1, <2>2, <2>3
<1>5. above \in [Links -> Nat] /\ above[alt_alarm_list] = 0 /\ above[a] = high
  BY <1>1, <1>2 DEF Order
<1>6. \A l \in Links : l # a => above[l] = rank[l]
  BY DEF Order
<1>7. next'[a] = first /\ next'[alt_alarm_list] = a /\ \A b \in listed : next'[b] = next[b]
  BY <1>1, <1>3
<1> HIDE DEF first
<1>8. \A b \in listed' : above[next'[b]] < above[b] /\ above[b] <= above[next'[alt_alarm_list]]
  <2>. TAKE b \in listed'
  <2>1. CASE b = a
    BY <1>1, <1>2, <1>5, <1>6, <1>7, <2>1 DEF first
  <2>2. CASE b # a
    <3>1. b \in listed
      BY <1>3, <2>2
    <3>2. rank[next[b]] < rank[b]
      BY <3>1 DEF Order
    <3>3. QED  BY <1>2, <1>4, <1>5, <1>6, <1>7, <3>1, <3>2
  <2>3. QED  BY <2>1, <2>2
<1>9. \A b, c \in listed' : above[c] < above[b] => above[c] <= above[next'[b]]
  <2>. TAKE b, c \in listed'
  <2>. HAVE above[c] < above[b]
  <2>1. CASE b = a
    <3>1. c \in listed
      BY <1>3, <2>1, <1>2, <1>5
    <3>2. above[c] = rank[c] /\ above[next'[b]] = rank[first] /\ rank[c] \in Nat
      BY <1>2, <1>4, <1>6, <1>7, <2>1, <3>1
    <3>3. QED  BY <1>2, <1>4, <3>1, <3>2 DEF first
  <2>2. CASE b # a
    <3>1. b \in listed
      BY <1>3, <2>2
    <3>2. above[b] = rank[b] /\ rank[b] < high /\ rank[b] \in Nat
      BY <1>4, <1>6, <3>1
    <3>3. c # a
      BY <1>2, <1>5, <3>2
    <3>4. c \in listed
      BY <1>3, <3>3
    <3>5. above[c] = rank[c] /\ above[next'[b]] = rank[next[b]]
      BY <1>4, <1>6, <1>7, <3>1, <3>4
    <3>6. QED  BY <3>1, <3>2, <3>4, <3>5 DEF Order
  <2>3. QED  BY <2>1, <2>2
<1>10. \A b, c \in listed' : above[b] = above[c] => b = c
  <2>. TAKE b, c \in listed'
  <2>1. \A d \in listed : above[d] = rank[d] /\ rank[d] # high
    BY <1>2, <1>4, <1>6
  <2>2. CASE b = a \/ c = a
    BY <1>3, <1>5, <2>1, <2>2
  <2>3. CASE b # a /\ c # a
    BY <1>3, <2>1, <2>3 DEF Order
  <2>4. QED  BY <2>2, <2>3
<1>11. Order(above)'
  BY <1>5, <1>8, <1>9, <1>10 DEF Order
<1>12. QED  BY <1>4, <1>5, <1>11 DEF first

LEMMA RemoveOrder ==
  ASSUME ListTypeOK, Linked, NEW rank, Order(rank), NEW a \in Entries, Stops(a)
  PROVE  Order(rank)'
<1> USE ListAssumption DEF ListTypeOK, Links
<1> DEFINE p == previous[a]
           n == next[a]
<1>1. p \in Links /\ n \in Links /\ next[p] = a /\ (p = a <=> n = a)
  BY DEF Linked
<1>2. next' = [next EXCEPT ![p] = n, ![a] = a] /\ listed' = listed \ {a}
  BY DEF Stops, alt_llist_remove
<1>3. a \in listed <=> n # a
  BY DEF Linked
<1>4. CASE a \notin listed
  <2>1. next' = next /\ listed' = listed
    BY <1>1, <1>2, <1>3, <1>4
  <2>2. QED  BY <2>1 DEF Order
<1>5. CASE a \in listed
  <2>1. p # a /\ n # a /\ next'[p] = n
    BY <1>1, <1>2, <1>3, <1>5
  <2>2. \A l \in Links : l \notin {a, p} => next'[l] = next[l] /\ next[l] # a
    BY <1>2 DEF Linked
  <2>3. rank[n] < rank[a] /\ rank[n] \in Nat /\ rank[a] \in Nat /\ rank[p] \in Nat
    BY <1>1, <1>5 DEF Order
  <2>4. \A b \in listed : rank[b] \in Nat /\ rank[next[b]] \in Nat /\ b \in Links
    BY DEF Order
  <2>5. \A b \in listed : rank[b] <= rank[a] /\ b # a => rank[b] <= rank[n]
    <3>. TAKE b \in listed
    <3>. HAVE rank[b] <= rank[a] /\ b # a
    <3>1. rank[b] < rank[a]
      BY <1>5, <2>3, <2>4 DEF Order
    <3>2. QED  BY <1>5, <3>1 DEF Order
  <2> HIDE DEF p, n
  <2>6. ASSUME NEW b \in listed', next'[b] # n \/ b # p
        PROVE  next'[b] = next[b]
    BY <1>2, <2>1, <2>2, <2>6
  <2>7. \A b \in listed' : rank[next'[b]] < rank[b]
    <3>. TAKE b \in listed'
    <3>1. CASE b = p
      <4>1. rank[a] < rank[p]
        BY <1>1, <1>2, <3>1 DEF Order
      <4>2. QED  BY <2>1, <2>3, <3>1, <4>1
    <3>2. CASE b # p
      BY <1>2, <2>2, <3>2 DEF Order
    <3>3. QED  BY <3>1, <3>2
  <2>8. \A b \in listed' : rank[b] <= rank[next'[alt_alarm_list]]
    <3>. TAKE b \in listed'
    <3>1. b \in listed /\ b # a /\ rank[b] <= rank[next[alt_alarm_list]]
      BY <1>2 DEF Order
    <3>2. CASE alt_alarm_list = p
      BY <1>1, <2>1, <2>5, <3>1, <3>2
    <3>3. CASE alt_alarm_list # p
      BY <2>2, <3>1, <3>3
    <3>4. QED  BY <3>2, <3>3
  <2>9. \A b, c \in listed' : rank[c] < rank[b] => rank[c] <= rank[next'[b]]
    <3>. TAKE b, c \in listed'
    <3>. HAVE rank[c] < rank[b]
    <3>1. b \in listed /\ c \in listed /\ c # a /\ b # a /\ rank[c] <= rank[next[b]]
      BY <1>2 DEF Order
    <3>2. CASE b = p
      BY <1>1, <2>1, <2>5, <3>1, <3>2
    <3>3. CASE b # p
      BY <2>2, <2>4, <3>1, <3>3
    <3>4. QED  BY <3>2, <3>3
  <2>10. QED  BY <1>2, <2>7, <2>8, <2>9 DEF Order
<1>6. QED  BY <1>4, <1>5

(* What is not reached from the head would have an entry of highest rank,  *)
(* and the one before that is not reached either.                          *)
LEMMA OrderReaches ==
  ASSUME ListTypeOK, Linked, NEW rank, Order(rank)
  PROVE  Reached
<1> USE ListAssumption DEF ListTypeOK, Links
<1> SUFFICES ASSUME NEW S \in SUBSET Links, alt_alarm_list \in S, \A l \in S : next[l] \in S,
                    NEW missing \in listed, missing \notin S
             PROVE  FALSE
  BY DEF Reached
<1> DEFINE top == rank[next[alt_alarm_list]]
           depths == {top - rank[b] : b \in listed \ S}
<1>1. top \in Nat /\ \A b \in listed : rank[b] \in Nat /\ rank[b] <= top
  BY DEF Order
<1>2. depths \subseteq Nat /\ depths # {}
  BY <1>1
<1>3. IsWellFoundedOn({p \in Nat \X Nat : p[1] < p[2]}, Nat)
  BY NatLessThanWellFounded DEF OpToRel
<1>4. PICK d \in depths : \A e \in depths : ~(<<e, d>> \in {p \in Nat \X Nat : p[1] < p[2]})
  BY <1>2, <1>3, WFMin
<1>5. PICK b \in listed \ S : d = top - rank[b]
  OBVIOUS
<1>6. \A c \in listed \ S : rank[c] <= rank[b]
  <2>. TAKE c \in listed \ S
  <2>1. top - rank[c] \in depths /\ top - rank[c] \in Nat /\ d \in Nat
    BY <1>1, <1>2
  <2>2. ~(top - rank[c] < d)
    BY <1>4, <2>1
  <2>3. QED  BY <1>1, <1>5, <2>2
<1> DEFINE before == previous[b]
<1>7. before \in Links /\ next[before] = b /\ before # b
  BY DEF Linked
<1>8. before \notin S /\ before \in listed
  BY <1>7 DEF Linked
<1>9. rank[b] < rank[before]
  BY <1>7, <1>8 DEF Order
<1>10. QED  BY <1>1, <1>6, <1>8, <1>9
-----------------------------------------------------------------------------
(* An alarm started is above the walk; one stopped is out of its way.      *)
LEMMA StartKeeps ==
  ASSUME ListInv, NEW a \in Entries, Starts(a),
         UNCHANGED <<alarm, following, calling, served, cut>>
  PROVE  ListInv'
<1> USE DEF ListInv, Types
<1>1. PICK rank : Order(rank) /\ (~cut => Walk(rank))
  OBVIOUS
<1> DEFINE high == rank[next[alt_alarm_list]] + 1
<1>2. PICK top : top = high
  OBVIOUS
<1>3. PICK above : above = [rank EXCEPT ![a] = top]
  OBVIOUS
<1>4. (\A b \in listed : b # a /\ rank[b] < top) /\ Order(above)'
  BY <1>1, <1>2, <1>3, InsertOrder
<1>5. /\ next' \in [Links -> Links] /\ previous' \in [Links -> Links] /\ Linked'
      /\ listed' = listed \cup {a} /\ expected' = expected /\ a \notin listed
  BY InsertLinks DEF Starts
<1>6. Types'
  BY <1>5 DEF ListTypeOK
<1>7. ASSUME ~cut
      PROVE  Walk(above)'
  <2>1. Current' = Current /\ ServedEntries' = ServedEntries
    BY DEF Current, ServedEntries
  <2>2. Current \in listed \cup {alt_alarm_list} /\ a # alt_alarm_list /\ a \in Links
    BY <1>1, <1>7, ListAssumption DEF Walk, Ahead, Links
  <2>3. rank \in [Links -> Nat] /\ rank[alt_alarm_list] = 0 /\ next[alt_alarm_list] \in Links
    BY <1>1, ListAssumption DEF Order, ListTypeOK, Links
  <2>4. top \in Nat /\ rank[Current] < top /\ Current # a
    BY <1>2, <1>4, <1>5, <2>2, <2>3
  <2>5. above[Current] = rank[Current] /\ above[a] = top /\ \A b \in listed : above[b] = rank[b]
    BY <1>3, <1>4, <2>2, <2>3, <2>4 DEF ListTypeOK, Links
  <2>6. rank[Current] \in Nat
    BY <2>2, <2>3, ListAssumption DEF ListTypeOK, Links
  <2>7. {b \in listed' : above[b] <= above[Current]} = Ahead(rank)
    BY <1>5, <2>4, <2>5, <2>6 DEF Ahead
  <2>8. Ahead(above)' = Ahead(rank)
    BY <2>1, <2>7 DEF Ahead
  <2>9. QED  BY <1>1, <1>5, <1>7, <2>1, <2>8 DEF Walk
<1>8. QED  BY <1>4, <1>5, <1>6, <1>7

LEMMA StopKeeps ==
  ASSUME ListInv, NEW a \in Entries, Stops(a),
         alarm' \in Links, following' \in Links, calling' \in BOOLEAN, calling' => calling /\ alarm' = alarm,
         Current' = Current, served' = served,
         cut' \in BOOLEAN, ~cut' => ~cut /\ a # Current
  PROVE  ListInv'
<1> USE DEF ListInv, Types
<1>1. PICK rank : Order(rank) /\ (~cut => Walk(rank))
  OBVIOUS
<1>2. /\ next' \in [Links -> Links] /\ previous' \in [Links -> Links] /\ Linked'
      /\ listed' = listed \ {a} /\ expected' = expected \ {a}
  BY <1>1, RemoveLinks DEF Stops
<1>3. Order(rank)'
  BY <1>1, RemoveOrder
<1>4. Types'
  BY <1>2 DEF ListTypeOK
<1>5. ASSUME ~cut'
      PROVE  Walk(rank)'
  <2>1. ServedEntries' = ServedEntries
    BY DEF ServedEntries
  <2>2. Ahead(rank)' = Ahead(rank) \ {a}
    BY <1>2 DEF Ahead
  <2>3. QED  BY <1>1, <1>2, <1>5, <2>1, <2>2 DEF Walk
<1>6. QED  BY <1>2, <1>3, <1>4, <1>5

(* A tick begins with all that is listed before it, and comes to one after *)
(* the other.                                                              *)
LEMMA TickBeginKeeps == ListInv /\ TickBegin => ListInv'
<1> SUFFICES ASSUME ListInv, TickBegin PROVE ListInv'
  OBVIOUS
<1> USE DEF ListInv, Types
<1>1. PICK rank : Order(rank)
  OBVIOUS
<1>2. /\ UNCHANGED <<next, previous, following, calling, listed>> /\ alarm' = next[alt_alarm_list]
      /\ expected' = listed /\ served' = <<>> /\ cut' = FALSE /\ alarm = alt_alarm_list
  BY DEF TickBegin, links
<1>3. ~calling /\ alarm' \in Links /\ served' \in Seq(Links)
  BY <1>2, ListAssumption DEF ListTypeOK, Links
<1>4. Types' /\ Linked' /\ Order(rank)'
  BY <1>1, <1>2, <1>3 DEF ListTypeOK, Linked, Order
<1>5. Walk(rank)'
  <2>1. Current' = next[alt_alarm_list] /\ ServedEntries' = {}
    BY <1>2, <1>3 DEF Current, ServedEntries
  <2>2. Ahead(rank)' = listed
    BY <1>1, <1>2, <2>1 DEF Ahead, Order
  <2>3. Current' \in listed \cup {alt_alarm_list}
    BY <1>2, <1>3, <2>1 DEF Linked, Links
  <2>4. \A m, n \in 1 .. Len(served') : served'[m] = served'[n] => m = n
    BY <1>2
  <2>5. QED  BY <1>2, <1>3, <2>1, <2>2, <2>3, <2>4 DEF Walk
<1>6. QED  BY <1>4, <1>5

LEMMA ComeKeeps == ListInv /\ Come => ListInv'
<1> SUFFICES ASSUME ListInv, Come PROVE ListInv'
  OBVIOUS
<1> USE DEF ListInv, Types
<1>1. PICK rank : Order(rank) /\ (~cut => Walk(rank))
  OBVIOUS
<1>2. /\ UNCHANGED <<next, previous, listed, expected, cut>>
      /\ alarm # alt_alarm_list /\ ~calling /\ alarm \in Entries
      /\ served' = IF cut THEN served ELSE Append(served, alarm)
      /\ \/ following' = next[alarm] /\ calling' = TRUE /\ alarm' = alarm
         \/ alarm' = next[alarm] /\ UNCHANGED <<following, calling>>
  BY DEF Come, links, ListTypeOK, Links
<1>3. next[alarm] \in Links /\ Current = alarm /\ Current' = next[alarm]
  BY <1>2 DEF ListTypeOK, Links, Current
<1>4. served' \in Seq(Links) /\ calling' \in BOOLEAN
  <2>1. served \in Seq(Links) /\ alarm \in Links /\ calling \in BOOLEAN
    BY DEF ListTypeOK
  <2>2. Append(served, alarm) \in Seq(Links)
    BY <2>1
  <2>3. QED  BY <1>2, <2>1, <2>2
<1>5. Types' /\ Linked' /\ Order(rank)'
  BY <1>1, <1>2, <1>3, <1>4 DEF ListTypeOK, Linked, Order
<1>6. ASSUME ~cut
      PROVE  Walk(rank)'
  <2>1. Walk(rank) /\ alarm \in Ahead(rank) /\ alarm \in listed
    BY <1>1, <1>2, <1>3, <1>6 DEF Walk, Ahead
  <2>2. served' = Append(served, alarm)
    BY <1>2, <1>6
  <2>3. ServedEntries' = ServedEntries \cup {alarm}
    BY <2>2 DEF ServedEntries
  <2>4. Ahead(rank)' = Ahead(rank) \ {alarm}
    <3>1. \A b \in listed : rank[b] \in Nat /\ rank[next[alarm]] \in Nat /\ rank[alarm] \in Nat
      BY <1>1, <1>3, <2>1 DEF Order, ListTypeOK, Links
    <3>2. \A b \in listed : rank[b] <= rank[next[alarm]] <=> (rank[b] <= rank[alarm] /\ b # alarm)
      BY <1>1, <2>1, <3>1 DEF Order
    <3>3. QED  BY <1>2, <1>3, <3>2 DEF Ahead
  <2>5. Current' \in Ahead(rank)' \cup {alt_alarm_list}
    <3>1. CASE next[alarm] = alt_alarm_list
      BY <1>3, <3>1
    <3>2. CASE next[alarm] # alt_alarm_list
      <4>1. next[next[alarm]] # next[alarm] /\ next[alarm] \in Entries
        BY <1>3, <2>1, <3>2 DEF Linked, Links, ListTypeOK
      <4>2. next[alarm] \in listed
        BY <4>1 DEF Linked
      <4>3. rank[next[alarm]] <= rank[next[alarm]]
        BY <1>1, <1>3 DEF Order
      <4>4. QED  BY <1>2, <1>3, <4>2, <4>3 DEF Ahead
    <3>3. QED  BY <3>1, <3>2
  <2>6. \A m, n \in 1 .. Len(served') : served'[m] = served'[n] => m = n
    BY <2>1, <2>2 DEF Walk, ServedEntries
  <2>7. QED  BY <1>2, <2>1, <2>3, <2>4, <2>5, <2>6 DEF Walk
<1>7. QED  BY <1>2, <1>5, <1>6

(* The alarm called back is one the walk has been at, and is not the next. *)
LEMMA CallbackEndKeeps == ListInv /\ CallbackEnd => ListInv'
<1> SUFFICES ASSUME ListInv, CallbackEnd PROVE ListInv'
  OBVIOUS
<1>1. /\ calling /\ calling' = FALSE /\ alarm' = following /\ following' = alt_alarm_list
      /\ alarm \in Entries /\ served' = served /\ cut' = cut
  BY DEF CallbackEnd, ListInv, Types
<1>2. Current' = Current /\ alarm' \in Links /\ following' \in Links /\ cut' \in BOOLEAN
  BY <1>1 DEF Current, ListInv, Types, ListTypeOK, Links
<1>3. CASE Stops(alarm)
  <2>1. ASSUME ~cut
        PROVE  alarm # Current
    BY <1>1, <2>1, ListAssumption DEF ListInv, Walk
  <2>2. QED  BY <1>1, <1>2, <1>3, <2>1, StopKeeps
<1>4. CASE UNCHANGED <<links, listed, expected>>
  <2>1. PICK rank : Order(rank) /\ (~cut => Walk(rank))
    BY DEF ListInv
  <2>2. Types' /\ Linked' /\ Order(rank)'
    BY <1>1, <1>2, <1>4, <2>1 DEF ListInv, Types, ListTypeOK, Linked, Order, links
  <2>3. ~cut => Walk(rank)'
    BY <1>1, <1>2, <1>4, <2>1 DEF Walk, Ahead, ServedEntries
  <2>4. QED  BY <1>1, <2>2, <2>3 DEF ListInv
<1>5. QED  BY <1>3, <1>4 DEF CallbackEnd
-----------------------------------------------------------------------------
LEMMA ListInvInit == ListInit => ListInv
<1> SUFFICES ASSUME ListInit PROVE ListInv
  OBVIOUS
<1> USE ListAssumption DEF ListInit
<1>1. Types
  <2>1. ListTypeOK
    BY DEF ListTypeOK, Links
  <2>2. served \in Seq(Links)
    OBVIOUS
  <2>3. QED  BY <2>1, <2>2 DEF Types
<1>2. Linked
  BY DEF Linked, Links
<1>3. Order([l \in Links |-> 0])
  BY DEF Order, Links
<1>4. Walk([l \in Links |-> 0])
  BY DEF Walk, Ahead, ServedEntries, Current
<1>5. QED  BY <1>1, <1>2, <1>3, <1>4 DEF ListInv

LEMMA ListInvStep == ListInv /\ [ListNext]_listVars => ListInv'
<1> SUFFICES ASSUME ListInv, [ListNext]_listVars PROVE ListInv'
  OBVIOUS
<1>1. CASE BetweenTicks
  <2>1. PICK a \in Entries : Starts(a) \/ Stops(a)
    BY <1>1 DEF BetweenTicks
  <2>2. alarm = alt_alarm_list /\ UNCHANGED <<alarm, following, calling, served, cut>>
    BY <1>1 DEF BetweenTicks
  <2>3. ~calling /\ Current' = Current /\ a # Current
    BY <2>2, ListAssumption DEF ListInv, Types, Current
  <2>4. QED  BY <2>1, <2>2, <2>3, StartKeeps, StopKeeps DEF ListInv, Types, ListTypeOK
<1>2. CASE TickBegin
  BY <1>2, TickBeginKeeps
<1>3. CASE Come
  BY <1>3, ComeKeeps
<1>4. CASE CallbackEnd
  BY <1>4, CallbackEndKeeps
<1>5. CASE Callback
  <2>1. PICK a \in Entries : (Starts(a) /\ UNCHANGED cut) \/ (Stops(a) /\ cut' = (cut \/ a = following))
    BY <1>5 DEF Callback
  <2>2. calling /\ UNCHANGED <<alarm, following, calling, served>>
    BY <1>5 DEF Callback
  <2>3. CASE Starts(a) /\ UNCHANGED cut
    BY <2>2, <2>3, StartKeeps
  <2>4. CASE Stops(a) /\ cut' = (cut \/ a = following)
    <3>1. cut' \in BOOLEAN
      BY <2>4, Zenon DEF ListInv, Types, ListTypeOK
    <3>2. Current' = Current /\ (~cut' => ~cut /\ a # Current)
      BY <2>2, <2>4 DEF Current
    <3>3. QED  BY <2>2, <2>4, <3>1, <3>2, StopKeeps DEF ListInv, Types, ListTypeOK
  <2>5. QED  BY <2>1, <2>3, <2>4
<1>6. CASE UNCHANGED listVars
  <2>1. PICK rank : Order(rank) /\ (~cut => Walk(rank))
    BY DEF ListInv
  <2>2. Types' /\ Linked' /\ Order(rank)'
    BY <1>6, <2>1 DEF ListInv, Types, ListTypeOK, Linked, Order, listVars, links
  <2>3. ~cut' => Walk(rank)'
    BY <1>6, <2>1 DEF Walk, Ahead, ServedEntries, Current, listVars, links
  <2>4. QED  BY <2>2, <2>3 DEF ListInv
<1>7. QED  BY <1>1, <1>2, <1>3, <1>4, <1>5, <1>6 DEF ListNext, WalkOn

LEMMA ListInvServes == ListInv => AlarmsServed
<1> SUFFICES ASSUME ListInv PROVE AlarmsServed
  OBVIOUS
<1>1. PICK rank : Order(rank) /\ (~cut => Walk(rank))
  BY DEF ListInv
<1>2. Reached
  BY <1>1, OrderReaches DEF ListInv, Types
<1>3. ASSUME ~cut
      PROVE  /\ \A m, n \in 1 .. Len(served) : served[m] = served[n] => m = n
             /\ alarm # alt_alarm_list /\ ~calling => alarm \in expected
             /\ calling => following \in expected \cup {alt_alarm_list}
             /\ alarm = alt_alarm_list => \A a \in expected : \E n \in 1 .. Len(served) : served[n] = a
  <2>1. Walk(rank)
    BY <1>1, <1>3
  <2>2. alarm # alt_alarm_list /\ ~calling => alarm \in expected
    BY <2>1 DEF Walk, Current
  <2>3. calling => following \in expected \cup {alt_alarm_list}
    BY <2>1 DEF Walk, Current
  <2>4. ASSUME alarm = alt_alarm_list
        PROVE  expected \subseteq ServedEntries
    <3>1. Current = alt_alarm_list
      BY <2>4, ListAssumption DEF ListInv, Types, Current
    <3>2. \A b \in listed : rank[next[b]] \in Nat /\ rank[b] \in Nat /\ rank[next[b]] < rank[b]
      BY <1>1 DEF Order, ListInv, Types, ListTypeOK, Links
    <3>3. Ahead(rank) = {}
      BY <1>1, <3>1, <3>2 DEF Ahead, Order
    <3>4. QED  BY <2>1, <3>3 DEF Walk
  <2>5. QED  BY <2>1, <2>2, <2>3, <2>4 DEF Walk, ServedEntries
<1>4. QED  BY <1>2, <1>3 DEF AlarmsServed, ServedOnce, ListInv

(* However many alarms there are, and whatever callbacks start and stop,   *)
(* the list stays one ring and a tick comes once to each that stays in it. *)
THEOREM AlarmsServedTheorem == ListSpec => []AlarmsServed
BY ListInvInit, ListInvStep, ListInvServes, PTL DEF ListSpec
-----------------------------------------------------------------------------
(* The clock.                                                              *)

USE TicksAssumption

(* A word that has turned over at most once.                               *)
LEMMA WordIs ==
  ASSUME NEW n \in 0 .. 2 * Width - 1
  PROVE  /\ Word(n) \in 0 .. Width - 1
         /\ Word(n) = IF n < Width THEN n ELSE n - Width
<1>1. CASE n < Width
  BY <1>1 DEF Word
<1>2. CASE n >= Width
  <2>1. n = Width * 1 + (n - Width) /\ n - Width \in 0 .. Width - 1
    BY <1>2
  <2>2. (Width * 1 + (n - Width)) % Width = n - Width
    BY <2>1
  <2>3. QED  BY <1>2, <2>1, <2>2 DEF Word
<1>3. QED  BY <1>1, <1>2
-----------------------------------------------------------------------------
(* Alarms.                                                                 *)
AlarmTypes ==
  /\ nticks \in 0 .. Width - 1 /\ list \subseteq Alarms
  /\ time \in [Alarms -> 0 .. Width - 1] /\ rollover \in [Alarms -> BOOLEAN]
  /\ due \in [Alarms -> 0 .. Width - 1]
  /\ \A a \in list : due[a] \in 1 .. Width - 1

AlarmInv == AlarmTypes /\ AlarmFields

(* An alarm at a tick: it fires if it is due, and its fields go on.        *)
LEMMA FiresWhenDue ==
  ASSUME AlarmInv, NEW a \in list
  PROVE  LET now == Word(nticks + 1) IN
         /\ Fires(a, now) <=> due[a] = 1
         /\ due[a] # 1 => /\ time[a] = Word(now + (due[a] - 1))
                          /\ Rolls(a, now) <=> now + (due[a] - 1) >= Width
         /\ due[a] = 1 => time[a] = now
<1> DEFINE now == Word(nticks + 1)
           d == due[a]
<1>1. nticks \in 0 .. Width - 1 /\ d \in 1 .. Width - 1 /\ time[a] = Word(nticks + d)
      /\ (rollover[a] <=> nticks + d >= Width)
  BY DEF AlarmInv, AlarmTypes, AlarmFields
<1>2. now = IF nticks + 1 < Width THEN nticks + 1 ELSE 0
  BY <1>1, WordIs
<1>3. time[a] = IF nticks + d < Width THEN nticks + d ELSE nticks + d - Width
  BY <1>1, WordIs
<1>4. Word(now + (d - 1)) = IF now + (d - 1) < Width THEN now + (d - 1) ELSE now + (d - 1) - Width
  BY <1>1, <1>2, WordIs
<1> HIDE DEF now, d
<1>5. Fires(a, now) <=> d = 1
  BY <1>1, <1>2, <1>3 DEF Fires, Rolls
<1>6. d # 1 => time[a] = Word(now + (d - 1)) /\ (Rolls(a, now) <=> now + (d - 1) >= Width)
  BY <1>1, <1>2, <1>3, <1>4 DEF Rolls
<1>7. d = 1 => time[a] = now
  BY <1>1, <1>2, <1>3
<1>8. QED  BY <1>5, <1>6, <1>7, Zenon DEF now, d

LEMMA TickAlarms ==
  ASSUME AlarmInv, NEW again \in [Alarms -> Intervals \cup {0}], alt_tick(again)
  PROVE  AlarmInv' /\ fired' = {a \in list : due[a] = 1}
<1> DEFINE now == Word(nticks + 1)
           gone == {a \in fired' : again[a] = 0}
           new(a) == Word(time[a] + again[a])
           idle(a) == a \in gone \/ a \notin list
<1>1. /\ nticks' = now /\ fired' = {a \in list : Fires(a, now)} /\ list' = list \ gone
      /\ time' = [a \in Alarms |-> IF idle(a) THEN 0 ELSE IF a \in fired' THEN new(a) ELSE time[a]]
      /\ rollover' = [a \in Alarms |-> IF idle(a) THEN FALSE
                                       ELSE IF a \in fired' THEN new(a) < now ELSE Rolls(a, now)]
      /\ due' = [a \in Alarms |-> IF idle(a) THEN Never ELSE IF a \in fired' THEN again[a] ELSE due[a] - 1]
  BY DEF alt_tick
<1>2. now \in 0 .. Width - 1
  BY WordIs DEF AlarmInv, AlarmTypes
<1>3. fired' = {a \in list : due[a] = 1}
  BY <1>1, FiresWhenDue
<1> HIDE DEF now, gone
<1>4. ASSUME NEW a \in list'
      PROVE  /\ a \in list /\ ~idle(a) /\ due'[a] \in 1 .. Width - 1
             /\ time'[a] = Word(now + due'[a]) /\ time'[a] \in 0 .. Width - 1
             /\ rollover'[a] <=> now + due'[a] >= Width
             /\ rollover'[a] \in BOOLEAN
  <2>1. a \in list /\ a \in Alarms /\ a \notin gone
    BY <1>1 DEF AlarmInv, AlarmTypes
  <2>2. CASE a \in fired'
    <3>1. again[a] \in Intervals /\ again[a] \in 1 .. Width - 2
      BY <2>1, <2>2 DEF gone
    <3>2. time[a] = now
      BY <1>3, <2>1, <2>2, FiresWhenDue DEF now
    <3>3. due'[a] = again[a] /\ time'[a] = Word(now + again[a])
      BY <1>1, <2>1, <2>2, <3>2
    <3>4. rollover'[a] = (Word(now + again[a]) < now)
      BY <1>1, <2>1, <2>2, <3>2
    <3>5. rollover'[a] \in BOOLEAN /\ (rollover'[a] <=> Word(now + again[a]) < now)
      <4>1. (Word(now + again[a]) < now) \in BOOLEAN
        BY SMT
      <4>2. QED  BY <3>4, <4>1, Zenon
    <3>6. Word(now + again[a]) = IF now + again[a] < Width THEN now + again[a] ELSE now + again[a] - Width
      BY <1>2, <3>1, WordIs
    <3>7. now + again[a] >= Width <=> Word(now + again[a]) < now
      BY <1>2, <3>1, <3>6
    <3>8. Word(now + again[a]) \in 0 .. Width - 1 /\ again[a] \in 1 .. Width - 1
      BY <1>2, <3>1, <3>6
    <3>9. QED  BY <2>1, <3>3, <3>5, <3>7, <3>8
  <2>3. CASE a \notin fired'
    <3>1. due[a] # 1 /\ due[a] \in 1 .. Width - 1
      BY <1>3, <2>1, <2>3 DEF AlarmInv, AlarmTypes
    <3>2. due'[a] = due[a] - 1 /\ time'[a] = time[a] /\ rollover'[a] = Rolls(a, now)
      BY <1>1, <2>1, <2>3
    <3>3. time[a] = Word(now + (due[a] - 1)) /\ (Rolls(a, now) <=> now + (due[a] - 1) >= Width)
      BY <2>1, <3>1, FiresWhenDue DEF now
    <3>4. time[a] \in 0 .. Width - 1
      BY <2>1 DEF AlarmInv, AlarmTypes
    <3>5. Rolls(a, now) \in BOOLEAN
      BY DEF Rolls
    <3>6. QED  BY <2>1, <3>1, <3>2, <3>3, <3>4, <3>5
  <2>4. QED  BY <2>2, <2>3
<1>5. ASSUME NEW a \in Alarms, a \notin list'
      PROVE  due'[a] = 0 /\ time'[a] = 0 /\ rollover'[a] = FALSE
  BY <1>1, <1>5 DEF Never
<1>6. AlarmTypes'
  <2>1. list' \subseteq Alarms
    BY <1>1 DEF AlarmInv, AlarmTypes
  <2>2. ASSUME NEW a \in Alarms
        PROVE  due'[a] \in 0 .. Width - 1 /\ time'[a] \in 0 .. Width - 1 /\ rollover'[a] \in BOOLEAN
    <3>1. CASE a \in list'
      <4>1. due'[a] \in 1 .. Width - 1 /\ time'[a] \in 0 .. Width - 1 /\ rollover'[a] \in BOOLEAN
        BY <1>4, <3>1, Zenon
      <4>2. QED  BY <4>1
    <3>2. CASE a \notin list'
      <4>1. due'[a] = 0 /\ time'[a] = 0 /\ rollover'[a] = FALSE
        BY <1>5, <3>2, Zenon
      <4>2. rollover'[a] \in BOOLEAN
        BY <4>1, Zenon
      <4>3. 0 \in 0 .. Width - 1
        BY <1>2
      <4>4. QED  BY <4>1, <4>2, <4>3, Zenon
    <3>3. QED  BY <3>1, <3>2
  <2>3. due' \in [Alarms -> 0 .. Width - 1] /\ time' \in [Alarms -> 0 .. Width - 1]
        /\ rollover' \in [Alarms -> BOOLEAN]
    BY <1>1, <2>2
  <2>4. QED  BY <1>1, <1>2, <1>4, <2>1, <2>3 DEF AlarmTypes
<1>7. AlarmFields'
  <2>1. ASSUME NEW a \in list'
        PROVE  time'[a] = Word(nticks' + due'[a]) /\ rollover'[a] = (nticks' + due'[a] >= Width)
    <3>1. rollover'[a] \in BOOLEAN /\ (rollover'[a] <=> now + due'[a] >= Width)
          /\ time'[a] = Word(now + due'[a])
      BY <1>4, <2>1, Zenon
    <3>2. nticks' = now
      BY <1>1
    <3>3. QED  BY <3>1, <3>2
  <2>2. QED  BY <2>1 DEF AlarmFields
<1>8. QED  BY <1>3, <1>6, <1>7 DEF AlarmInv

LEMMA StartAlarm ==
  ASSUME AlarmInv, NEW a \in Alarms, NEW n \in Intervals, alt_alarm_start(a, n)
  PROVE  AlarmInv'
<1>1. nticks \in 0 .. Width - 1 /\ n \in 1 .. Width - 2 /\ nticks' = nticks
  BY DEF AlarmInv, AlarmTypes, alt_alarm_start
<1>2. Word(n + nticks + 1) = IF n + nticks + 1 < Width THEN n + nticks + 1 ELSE n + nticks + 1 - Width
  BY <1>1, WordIs
<1>3. /\ time' = [time EXCEPT ![a] = Word(n + nticks + 1)] /\ due' = [due EXCEPT ![a] = n + 1]
      /\ rollover' = [rollover EXCEPT ![a] = time'[a] < nticks] /\ list' = list \cup {a} /\ a \notin list
  BY DEF alt_alarm_start
<1>4. time'[a] = Word(nticks + (n + 1)) /\ due'[a] = n + 1 /\ n + 1 \in 1 .. Width - 1
      /\ rollover'[a] = (nticks + (n + 1) >= Width) /\ time'[a] \in 0 .. Width - 1
  <2>1. nticks + (n + 1) = n + nticks + 1 /\ n + 1 \in 1 .. Width - 1
        /\ Word(n + nticks + 1) \in 0 .. Width - 1
    BY <1>1, <1>2
  <2>2. time'[a] = Word(n + nticks + 1) /\ due'[a] = n + 1 /\ rollover'[a] = (time'[a] < nticks)
    BY <1>3 DEF AlarmInv, AlarmTypes
  <2>3. (time'[a] < nticks) = (nticks + (n + 1) >= Width)
    BY <1>1, <1>2, <2>2
  <2>4. QED  BY <2>1, <2>2, <2>3
<1>5. \A b \in Alarms : b # a => time'[b] = time[b] /\ due'[b] = due[b] /\ (rollover'[b] = rollover[b])
  BY <1>3 DEF AlarmInv, AlarmTypes
<1>6. AlarmTypes'
  BY <1>1, <1>3, <1>4, <1>5 DEF AlarmInv, AlarmTypes
<1>7. AlarmFields'
  <2>1. ASSUME NEW b \in list'
        PROVE  time'[b] = Word(nticks' + due'[b]) /\ rollover'[b] = (nticks' + due'[b] >= Width)
    <3>1. CASE b = a
      BY <1>1, <1>4, <3>1
    <3>2. CASE b # a
      <4>1. b \in list /\ b \in Alarms
        BY <1>3, <3>2 DEF AlarmInv, AlarmTypes
      <4>2. time'[b] = time[b] /\ due'[b] = due[b] /\ rollover'[b] = rollover[b]
        BY <1>5, <3>2, <4>1
      <4>3. time[b] = Word(nticks + due[b]) /\ rollover[b] = (nticks + due[b] >= Width)
        BY <4>1 DEF AlarmInv, AlarmFields
      <4>4. QED  BY <1>1, <4>2, <4>3
    <3>3. QED  BY <3>1, <3>2
  <2>2. QED  BY <2>1 DEF AlarmFields
<1>8. QED  BY <1>6, <1>7 DEF AlarmInv

LEMMA StopAlarm ==
  ASSUME AlarmInv, NEW a \in Alarms, alt_alarm_stop(a)
  PROVE  AlarmInv'
<1>1. /\ time' = [time EXCEPT ![a] = 0] /\ due' = [due EXCEPT ![a] = 0] /\ nticks' = nticks
      /\ rollover' = [rollover EXCEPT ![a] = FALSE] /\ list' = list \ {a}
  BY DEF alt_alarm_stop, Never
<1>2. \A b \in list' : time'[b] = time[b] /\ due'[b] = due[b] /\ (rollover'[b] = rollover[b])
  BY <1>1 DEF AlarmInv, AlarmTypes
<1>3. AlarmTypes'
  BY <1>1, <1>2 DEF AlarmInv, AlarmTypes
<1>4. AlarmFields'
  BY <1>1, <1>2 DEF AlarmInv, AlarmFields
<1>5. QED  BY <1>3, <1>4 DEF AlarmInv
-----------------------------------------------------------------------------
(* The time of day.                                                        *)

(* Seconds and the rest of a number of microseconds.                       *)
LEMMA DivMod ==
  ASSUME NEW x \in Nat, NEW s \in Nat \ {0}
  PROVE  x \div s \in Nat /\ x % s \in 0 .. s - 1 /\ x = s * (x \div s) + (x % s)
OBVIOUS

LEMMA PerTick == Us \div Rate \in Nat /\ Us = Rate * (Us \div Rate)
BY DivMod

LEMMA ElapsedType == ASSUME NEW n \in Nat PROVE Elapsed(n) \in Nat
BY PerTick DEF Elapsed

(* The seconds of so many ticks and the rest of their microseconds.        *)
LEMMA ElapsedIs ==
  ASSUME NEW n \in Nat
  PROVE  /\ n \div Rate \in Nat /\ Elapsed(n) % Us \in Nat
         /\ (n \div Rate) * Us + (Elapsed(n) % Us) = Elapsed(n)
<1> DEFINE k == Us \div Rate
           q == n \div Rate
           r == n % Rate
<1>1. k \in Nat /\ Us = Rate * k
  BY PerTick
<1>2. q \in Nat /\ r \in 0 .. Rate - 1 /\ n = Rate * q + r
  BY DivMod
<1> HIDE DEF k, q, r
<1>3. n * k = Us * q + r * k
  BY <1>1, <1>2
<1>4. r * k \in 0 .. Us - 1
  <2>1. r * k >= 0 /\ r * k \in Int
    BY <1>1, <1>2
  <2>2. r * k + k <= Rate * k
    <3>1. r + 1 <= Rate
      BY <1>2
    <3>2. (r + 1) * k <= Rate * k
      BY <1>1, <1>2, <3>1
    <3>3. QED  BY <1>1, <1>2, <3>2
  <2>3. k > 0
    BY <1>1
  <2>4. QED  BY <1>1, <1>2, <2>1, <2>2, <2>3
<1>5. (Us * q + r * k) % Us = r * k
  <2> DEFINE s == r * k
  <2>1. s \in 0 .. Us - 1
    BY <1>4
  <2> HIDE DEF s
  <2>2. (Us * q + s) % Us = s
    BY <1>2, <2>1
  <2>3. QED  BY <2>2 DEF s
<1>6. Elapsed(n) = n * k
  BY DEF Elapsed, k
<1>7. Elapsed(n) % Us = r * k
  BY <1>3, <1>5, <1>6
<1>8. q * Us + r * k = n * k
  BY <1>2, <1>3
<1>9. QED  BY <1>2, <1>4, <1>6, <1>7, <1>8 DEF q

(* Later ticks are no less.                                                *)
LEMMA ElapsedGrows ==
  ASSUME NEW m \in Nat, NEW n \in Nat, m <= n
  PROVE  Elapsed(m) <= Elapsed(n)
<1> DEFINE k == Us \div Rate
<1>1. k \in Nat
  BY PerTick
<1> HIDE DEF k
<1>2. (n - m) * k >= 0 /\ (n - m) * k = n * k - m * k
  BY <1>1
<1>3. m * k \in Int /\ n * k \in Int
  BY <1>1
<1>4. QED  BY <1>2, <1>3 DEF Elapsed, k

SetInv ==
  /\ since \in [at : 0 .. Width - 1, us : Nat, good : BOOLEAN]
  /\ since.good =>
       /\ since.at <= nticks
       /\ resettime = [sec  |-> since.us \div Us - since.at \div Rate,
                       usec |-> (since.us % Us) - (Word(Elapsed(since.at)) % Us)]

LEMMA SetTime ==
  ASSUME AlarmInv, NEW us \in Times, settimeofday(us)
  PROVE  SetInv'
<1>1. since' = [at |-> nticks, us |-> us, good |-> TRUE] /\ nticks' = nticks
  BY DEF settimeofday
<1>2. resettime' = [sec |-> us \div Us - nticks \div Rate, usec |-> (us % Us) - (Word(Elapsed(nticks)) % Us)]
  BY DEF settimeofday, Timeval
<1>3. nticks \in 0 .. Width - 1 /\ us \in Nat
  BY DEF AlarmInv, AlarmTypes
<1>4. QED  BY <1>1, <1>2, <1>3 DEF SetInv

(* What was set goes on, whether or not a second has to be borrowed.       *)
LEMMA TimeReads == AlarmTypes /\ SetInv => TimeGoesOn
<1> SUFFICES ASSUME AlarmTypes, SetInv, since.good, Elapsed(since.at) < Width
             PROVE  gettimeofday(nticks, resettime) = since.us + Elapsed(nticks) - Elapsed(since.at)
  BY DEF TimeGoesOn
<1> DEFINE outset == since.at
           us == since.us
           sec == resettime.sec + (nticks \div Rate)
           usec == resettime.usec + (Elapsed(nticks) % Us)
           total == us + Elapsed(nticks) - Elapsed(outset)
<1>1. outset \in Nat /\ us \in Nat /\ nticks \in Nat /\ outset <= nticks
  BY DEF SetInv, AlarmTypes
<1>2. Elapsed(outset) \in Nat /\ Word(Elapsed(outset)) = Elapsed(outset)
  BY <1>1, ElapsedType DEF Word
<1>3. /\ sec = us \div Us - outset \div Rate + (nticks \div Rate)
      /\ usec = (us % Us) - (Elapsed(outset) % Us) + (Elapsed(nticks) % Us)
  BY <1>2 DEF SetInv
<1>4. us \div Us \in Nat /\ us % Us \in Nat /\ us = Us * (us \div Us) + (us % Us)
  <2>1. us \div Us \in Nat /\ us % Us \in 0 .. Us - 1 /\ us = Us * (us \div Us) + (us % Us)
    <3>1. Us \in Nat \ {0}
      OBVIOUS
    <3>2. QED  BY <1>1, <3>1, DivMod, Zenon
  <2>2. \A n \in 0 .. Us - 1 : n \in Nat
    OBVIOUS
  <2>3. QED  BY <2>1, <2>2, Zenon
<1>5. /\ outset \div Rate \in Nat /\ Elapsed(outset) % Us \in Nat
      /\ (outset \div Rate) * Us + (Elapsed(outset) % Us) = Elapsed(outset)
  BY <1>1, ElapsedIs
<1>6. /\ nticks \div Rate \in Nat /\ Elapsed(nticks) % Us \in Nat
      /\ (nticks \div Rate) * Us + (Elapsed(nticks) % Us) = Elapsed(nticks)
  BY <1>1, ElapsedIs
<1>7. sec \in Int /\ usec \in Int /\ sec * Us + usec = total
  <2>1. ASSUME NEW a \in Nat, NEW b \in Nat, NEW c \in Nat
        PROVE  (a - b + c) * Us = a * Us - b * Us + c * Us
    OBVIOUS
  <2>2. sec * Us = (us \div Us) * Us - (outset \div Rate) * Us + (nticks \div Rate) * Us
    BY <1>3, <1>4, <1>5, <1>6, <2>1
  <2>3. (us \div Us) * Us = Us * (us \div Us) /\ (us \div Us) * Us \in Int
        /\ (outset \div Rate) * Us \in Int /\ (nticks \div Rate) * Us \in Int
    BY <1>4, <1>5, <1>6
  <2>4. ASSUME NEW a \in Int, NEW b \in Int, NEW c \in Int, NEW ra \in Int, NEW rb \in Int, NEW rc \in Int
        PROVE  (a - b + c) + (ra - rb + rc) = (a + ra) + (c + rc) - (b + rb)
    OBVIOUS
  <2>5. sec * Us + usec = us + Elapsed(nticks) - Elapsed(outset)
    <3>1. us = (us \div Us) * Us + (us % Us)
      BY <1>4, <2>3
    <3>2. QED  BY <1>3, <1>4, <1>5, <1>6, <2>2, <2>3, <2>4, <3>1
  <2>6. sec \in Int /\ usec \in Int
    BY <1>3, <1>4, <1>5, <1>6
  <2>7. QED  BY <2>5, <2>6
<1>8. total >= 0
  BY <1>1, <1>2, ElapsedType, ElapsedGrows
<1> HIDE DEF sec, usec, total
<1>9. ~(usec < 0 /\ sec <= 0)
  <2>1. sec <= 0 => sec * Us <= 0
    BY <1>7
  <2>2. QED  BY <1>7, <1>8, <2>1
<1>10. gettimeofday(nticks, resettime) = total
  BY <1>7, <1>9 DEF gettimeofday, sec, usec
<1>11. QED  BY <1>10 DEF total
-----------------------------------------------------------------------------
TicksInv == AlarmInv /\ SetInv

LEMMA TicksInvInit == TicksInit => TicksInv
<1> SUFFICES ASSUME TicksInit PROVE TicksInv
  OBVIOUS
<1>1. AlarmInv
  BY DEF TicksInit, AlarmInv, AlarmTypes, AlarmFields, Never
<1>2. SetInv
  <2>1. Elapsed(0) = 0 /\ Word(0) = 0 /\ 0 \div Us = 0 /\ 0 % Us = 0 /\ 0 \div Rate = 0
    BY PerTick DEF Elapsed, Word
  <2>2. QED  BY <2>1 DEF TicksInit, SetInv
<1>3. QED  BY <1>1, <1>2 DEF TicksInv

LEMMA TicksInvStep == TicksInv /\ [TicksNext]_tickVars => TicksInv' /\ [AlarmsOnTime]_tickVars
<1> SUFFICES ASSUME TicksInv, [TicksNext]_tickVars PROVE TicksInv' /\ AlarmsOnTime
  OBVIOUS
<1>1. CASE Tick
  <2>1. PICK again \in [Alarms -> Intervals \cup {0}] : alt_tick(again)
    BY <1>1 DEF Tick
  <2>2. AlarmInv' /\ fired' = {a \in list : due[a] = 1}
    BY <2>1, TickAlarms DEF TicksInv
  <2>3. SetInv'
    <3>1. since' = [since EXCEPT !.good = since.good /\ nticks' # 0] /\ resettime' = resettime
          /\ nticks' = Word(nticks + 1)
      BY <1>1, <2>1 DEF Tick, alt_tick
    <3>2. nticks \in 0 .. Width - 1 /\ (nticks' = nticks + 1 \/ nticks' = 0)
      BY <3>1, WordIs DEF TicksInv, AlarmInv, AlarmTypes
    <3>3. since' \in [at : 0 .. Width - 1, us : Nat, good : BOOLEAN] /\ since'.at = since.at
          /\ since'.us = since.us /\ (since'.good <=> since.good /\ nticks' # 0)
      BY <3>1 DEF TicksInv, SetInv
    <3>4. QED  BY <3>1, <3>2, <3>3 DEF TicksInv, SetInv
  <2>4. QED  BY <2>2, <2>3 DEF TicksInv, AlarmsOnTime
<1>2. CASE AlarmStep
  <2>1. AlarmInv' /\ nticks' = nticks /\ UNCHANGED clock
    BY <1>2, StartAlarm, StopAlarm DEF AlarmStep, TicksInv, alt_alarm_start, alt_alarm_stop
  <2>2. QED  BY <2>1 DEF TicksInv, SetInv, clock, AlarmsOnTime
<1>3. CASE \E us \in Times : settimeofday(us)
  <2>1. SetInv'
    BY <1>3, SetTime DEF TicksInv
  <2>2. nticks' = nticks /\ UNCHANGED alarms
    BY <1>3 DEF settimeofday
  <2>3. QED  BY <2>1, <2>2 DEF TicksInv, AlarmInv, AlarmTypes, AlarmFields, alarms, AlarmsOnTime
<1>4. CASE (\E w \in {"settle", "transfer"} : StartWait(w)) \/ EndWait \/ UNCHANGED tickVars
  <2>1. UNCHANGED <<nticks, alarms, clock>>
    BY <1>4 DEF StartWait, EndWait, tickVars
  <2>2. QED  BY <2>1 DEF TicksInv, AlarmInv, AlarmTypes, AlarmFields, SetInv, alarms, clock, AlarmsOnTime
<1>5. QED  BY <1>1, <1>2, <1>3, <1>4 DEF TicksNext, TimeStep

(* The waits of the USB stack, and what is not in the list is not due.     *)
WaitTypes ==
  /\ usb_delay \in 0 .. Width - 1 /\ waiting \in {"none", "settle", "transfer"}
  /\ \A a \in Alarms \ list : due[a] = Never

LEMMA WaitTypesStep == TicksInv /\ WaitTypes /\ [TicksNext]_tickVars => WaitTypes'
<1> SUFFICES ASSUME TicksInv, WaitTypes, [TicksNext]_tickVars PROVE WaitTypes'
  OBVIOUS
<1>1. nticks \in Nat /\ \A n \in Nat : Word(n) \in 0 .. Width - 1
  BY TicksAssumption DEF TicksInv, AlarmInv, AlarmTypes, Word
<1>2. CASE Tick
  <2>1. PICK again \in [Alarms -> Intervals \cup {0}] : alt_tick(again)
    BY <1>2 DEF Tick
  <2>2. \A a \in Alarms \ list' : due'[a] = Never
    <3>1. \A a \in Alarms \ list' : a \notin list \/ a \in {b \in fired' : again[b] = 0}
      BY <2>1 DEF alt_tick
    <3>2. QED  BY <2>1, <3>1 DEF alt_tick
  <2>3. QED  BY <1>2, <2>2 DEF Tick, usbWait, WaitTypes
<1>3. CASE AlarmStep
  <2>1. ASSUME NEW a \in Alarms, NEW n \in Intervals, alt_alarm_start(a, n) PROVE WaitTypes'
    <3>1. due \in [Alarms -> 0 .. Width - 1]
      BY DEF TicksInv, AlarmInv, AlarmTypes
    <3>2. QED  BY <2>1, <3>1 DEF alt_alarm_start, usbWait, WaitTypes
  <2>2. ASSUME NEW a \in Alarms, alt_alarm_stop(a) PROVE WaitTypes'
    <3>1. due \in [Alarms -> 0 .. Width - 1]
      BY DEF TicksInv, AlarmInv, AlarmTypes
    <3>2. QED  BY <2>2, <3>1 DEF alt_alarm_stop, usbWait, WaitTypes
  <2>3. QED  BY <1>3, <2>1, <2>2 DEF AlarmStep
<1>4. CASE TimeStep
  <2>1. ASSUME NEW us \in Times, settimeofday(us) PROVE WaitTypes'
    BY <2>1 DEF settimeofday, usbWait, alarms, WaitTypes
  <2>2. ASSUME NEW w \in {"settle", "transfer"}, StartWait(w) PROVE WaitTypes'
    <3>1. Millis(nticks) + Delay \in Nat
      <4>1. nticks * Ms \in Nat
        BY <1>1, TicksAssumption
      <4>2. Word(nticks * Ms) \in Nat
        BY <1>1, <4>1
      <4>3. Word(nticks * Ms) \div Rate \in Nat
        BY <4>2, TicksAssumption
      <4>4. QED  BY <4>3, TicksAssumption DEF Millis
    <3>2. usb_delay' \in 0 .. Width - 1
      BY <1>1, <2>2, <3>1, Zenon DEF StartWait
    <3>3. QED  BY <2>2, <3>2 DEF StartWait, alarms, WaitTypes
  <2>3. CASE EndWait
    BY <2>3, TicksAssumption DEF EndWait, alarms, WaitTypes
  <2>4. QED  BY <1>4, <2>1, <2>2, <2>3 DEF TimeStep
<1>5. CASE UNCHANGED tickVars
  BY <1>5 DEF tickVars, usbWait, alarms, WaitTypes
<1>6. QED  BY <1>2, <1>3, <1>4, <1>5 DEF TicksNext

LEMMA TicksTypes == TicksInv /\ WaitTypes => TicksTypeOK
<1> SUFFICES ASSUME TicksInv, WaitTypes PROVE TicksTypeOK
  OBVIOUS
<1>1. \A a \in Alarms : due[a] \in IF a \in list THEN 1 .. Width - 1 ELSE {Never}
  BY DEF TicksInv, AlarmInv, AlarmTypes, WaitTypes
<1>2. QED  BY <1>1 DEF TicksInv, AlarmInv, AlarmTypes, WaitTypes, TicksTypeOK

LEMMA WaitTypesInit == TicksInit => WaitTypes
BY TicksAssumption DEF TicksInit, WaitTypes

(* An alarm goes off at the tick at which its interval is over and at no   *)
(* other, and the time of day is what was set and the time gone since, for *)
(* as long as the counter does not turn over (alt_tick.c:87-141,           *)
(* alt_alarm_start.c, alt_gettod.c, alt_settod.c).                         *)
THEOREM ClockKeptTheorem == TicksSpec => ClockKept
<1>1. TicksInv => TimeGoesOn
  BY TimeReads DEF TicksInv, AlarmInv
<1>2. TicksInv' => TimeGoesOn'
  BY <1>1, PTL
<1>3. TicksInv /\ [TicksNext]_tickVars => [AlarmsOnTime /\ TimeGoesOn']_tickVars
  BY <1>2, TicksInvStep
<1>4. QED  BY <1>3, TicksInvInit, TicksInvStep, PTL DEF TicksSpec, ClockKept
-----------------------------------------------------------------------------
(* The flash.  What a write of any length has done so far: everything      *)
(* before the page it is at, and of that page what its state says.  A      *)
(* command that an earlier call has left behind is over before the first   *)
(* byte is looked at, and every later one is the call's own.               *)
AsWanted(low, high) == \A a \in low .. high - 1 : mem[a] = data[a]
Blanked(low, high) == \A a \in low .. high - 1 : mem[a] = 1

PageEnd == offset + DataToWrite
BlockEnds == cur + block_left

ErasingPage ==
  \/ hw = None /\ (epass => Blanked(offset, PageEnd))
  \/ hw = [does |-> "erase", at |-> PageOf(offset), chunk |-> <<>>] /\ ~epass

WritingPage ==
  /\ block_left > 0
  /\ \/ hw = None /\ (wpass => AsWanted(cur, cur + Written) /\ Blanked(cur + Written, PageEnd))
     \/ /\ hw = [does |-> "write", at |-> WordOf(cur),
                 chunk |-> [a \in WordOf(cur) .. WordOf(cur) + ALIGN - 1 |-> Chunk(a)]]
        /\ ~wpass /\ Blanked(cur, PageEnd)

FlashPlaces ==
  /\ asked \in Nat \X Nat /\ asked[1] + asked[2] <= Length
  /\ asked[1] <= offset /\ offset + length = asked[1] + asked[2]
  /\ offset = asked[1] \/ PageOf(offset) = offset
  /\ length = 0 => asked[2] = 0

FlashProgress ==
  /\ AsWanted(asked[1], offset)
  /\ FlashAt("look") => offset = asked[1] \/ hw = None
  /\ flash_pc \in {"erase", "next", "write_block", "word"} => hw = None
  /\ flash_pc \in {"erase", "erasing", "write_block"} => cur = offset
  /\ flash_pc \in {"erase", "erasing", "write_block", "word", "writing"} => offset <= cur /\ BlockEnds = PageEnd
  /\ FlashAt("erasing") => ErasingPage
  /\ flash_pc \in {"word", "writing"} => AsWanted(offset, cur)
  /\ flash_pc \in {"write_block", "word"} => Blanked(cur, PageEnd)
  /\ FlashAt("writing") => WritingPage
  /\ FlashAt("next") => AsWanted(offset, PageEnd)

FlashCommand(h) ==
  \/ h = None \/ h.does = "erase"
  \/ h.does = "write" /\ \A a \in DOMAIN h.chunk : h.chunk[a] \in 0 .. 1

FlashTypes ==
  /\ mem \in [Bytes -> 0 .. 1] /\ data \in [Bytes -> 0 .. 1]
  /\ flash_pc \in {"ready", "look", "next", "erase", "erasing", "write_block", "word", "writing"}
  /\ offset \in Nat /\ length \in Nat /\ cur \in Nat /\ block_left \in Nat
  /\ wpass \in BOOLEAN /\ epass \in BOOLEAN /\ protected \in BOOLEAN /\ whole \in BOOLEAN
  /\ FlashCommand(hw)
  /\ ret \in Int

FlashInv ==
  /\ FlashTypes
  /\ protected \/ flash_pc \in {"erasing", "word", "writing"}
  /\ FlashAt("ready") => ~whole
  /\ flash_pc \in {"write_block", "word", "writing"} => BlockEnds <= Length
  /\ whole /\ ~FlashAt("ready") => /\ FlashPlaces
                                   /\ ret # 0 => FlashAt("next")
                                   /\ ret = 0 => FlashProgress

LEMMA LeastOfTwo ==
  ASSUME NEW x \in Int, NEW y \in Int
  PROVE  Min({x, y}) \in Int /\ Min({x, y}) = IF x <= y THEN x ELSE y
<1>1. \E z \in {x, y} : \A w \in {x, y} : z <= w
  OBVIOUS
<1>2. Min({x, y}) \in {x, y} /\ \A w \in {x, y} : Min({x, y}) <= w
  BY <1>1 DEF Min
<1>3. QED  BY <1>2

(* An address lies in its page, or word, and those lie side by side.       *)
LEMMA Aligned ==
  ASSUME NEW a \in Nat, NEW C \in Nat \ {0}
  PROVE  /\ a % C \in 0 .. C - 1 /\ a - (a % C) \in Nat
         /\ ((a - (a % C)) + C) % C = 0
<1>1. a % C \in 0 .. C - 1 /\ a \div C \in Nat /\ a = C * (a \div C) + (a % C)
  OBVIOUS
<1>2. ASSUME NEW i \in Nat PROVE (C * i) % C = 0
  <2>1. ASSUME NEW r \in 0 .. C - 1 PROVE (C * i + r) % C = r
    OBVIOUS
  <2>2. (C * i + 0) % C = 0
    BY <2>1
  <2>3. QED  BY <2>2
<1>3. ASSUME NEW q \in Nat PROVE C * q + C = C * (q + 1) /\ C * q \in Nat
  OBVIOUS
<1>4. a - (a % C) = C * (a \div C) /\ C * (a \div C) \in Nat
  BY <1>1, <1>3
<1>5. ((a - (a % C)) + C) % C = 0
  <2>1. (a - (a % C)) + C = C * ((a \div C) + 1) /\ (a \div C) + 1 \in Nat
    BY <1>1, <1>3, <1>4
  <2>2. QED  BY <1>2, <2>1, Zenon
<1>6. QED  BY <1>1, <1>4, <1>5

LEMMA PagesAre ==
  ASSUME FlashTypes
  PROVE  /\ PAGE \in Nat \ {0} /\ ALIGN \in Nat \ {0} /\ Length \in Nat \ {0}
         /\ PageOf(offset) \in Nat /\ PageOf(offset) <= offset /\ offset < PageOf(offset) + PAGE
         /\ PageOf(PageOf(offset) + PAGE) = PageOf(offset) + PAGE
         /\ WordOf(cur) \in Nat /\ WordOf(cur) <= cur /\ cur < WordOf(cur) + ALIGN
         /\ DataToWrite \in Nat /\ DataToWrite <= length /\ DataToWrite <= PageOf(offset) + PAGE - offset
         /\ DataToWrite = length \/ DataToWrite = PageOf(offset) + PAGE - offset
         /\ Written \in Nat /\ Written <= block_left /\ Written <= WordOf(cur) + ALIGN - cur
         /\ Written = block_left \/ Written = WordOf(cur) + ALIGN - cur
<1>1. /\ PAGE \in Nat \ {0} /\ ALIGN \in Nat \ {0} /\ Length \in Nat \ {0}
      /\ offset \in Nat /\ cur \in Nat /\ length \in Nat /\ block_left \in Nat
  BY FlashAssumption DEF FlashTypes
<1>2. /\ PageOf(offset) \in Nat /\ PageOf(offset) <= offset /\ offset < PageOf(offset) + PAGE
      /\ PageOf(PageOf(offset) + PAGE) = PageOf(offset) + PAGE
  <2>1. /\ offset % PAGE \in 0 .. PAGE - 1 /\ PageOf(offset) = offset - (offset % PAGE) /\ PageOf(offset) \in Nat
        /\ (PageOf(offset) + PAGE) % PAGE = 0
    BY <1>1, Aligned DEF PageOf
  <2>2. ASSUME NEW x PROVE PageOf(x) = x - (x % PAGE)
    BY DEF PageOf
  <2> HIDE DEF PageOf
  <2>3. QED  BY <1>1, <2>1, <2>2
<1>3. WordOf(cur) \in Nat /\ WordOf(cur) <= cur /\ cur < WordOf(cur) + ALIGN
  BY <1>1, Aligned DEF WordOf
<1>4. DataToWrite = IF PageOf(offset) + PAGE - offset <= length THEN PageOf(offset) + PAGE - offset ELSE length
  BY <1>1, <1>2, LeastOfTwo DEF DataToWrite
<1>5. Written = IF block_left <= WordOf(cur) + ALIGN - cur THEN block_left ELSE WordOf(cur) + ALIGN - cur
  BY <1>1, <1>3, LeastOfTwo DEF Written
<1>6. QED  BY <1>1, <1>2, <1>3, <1>4, <1>5

LEMMA FlashStart == FlashInit => FlashInv
<1> SUFFICES ASSUME FlashInit PROVE FlashInv
  OBVIOUS
<1>1. FlashTypes
  <2>1. [a \in Bytes |-> 1] \in [Bytes -> 0 .. 1]
    OBVIOUS
  <2>2. /\ mem = [a \in Bytes |-> 1] /\ data = [a \in Bytes |-> 1] /\ hw = None
        /\ wpass = FALSE /\ epass = FALSE /\ protected = TRUE /\ whole = FALSE /\ flash_pc = "ready"
        /\ ret = 0 /\ offset = 0 /\ length = 0 /\ cur = 0 /\ block_left = 0
    BY DEF FlashInit
  <2>3. wpass \in BOOLEAN /\ epass \in BOOLEAN /\ protected \in BOOLEAN /\ whole \in BOOLEAN
    BY <2>2, Zenon
  <2>4. mem \in [Bytes -> 0 .. 1] /\ data \in [Bytes -> 0 .. 1] /\ hw = None
    BY <2>1, <2>2, Zenon
  <2>5. /\ flash_pc = "ready" /\ ret = 0 /\ offset = 0 /\ length = 0 /\ cur = 0 /\ block_left = 0
    BY <2>2
  <2>6. QED  BY <2>3, <2>4, <2>5 DEF FlashTypes, FlashCommand
<1>2. QED  BY <1>1 DEF FlashInv, FlashInit, FlashAt

(* The end of a call keeps the flash protected, or the call was to.        *)
LEMMA FlashEnds ==
  ASSUME FlashInv, NEW r \in Int, FlashReturn(r), protected', protected' \in BOOLEAN,
         mem' \in [Bytes -> 0 .. 1], wpass' \in BOOLEAN, epass' \in BOOLEAN,
         FlashCommand(hw')
  PROVE  FlashInv'
<1>1. Bytes' = Bytes /\ None' = None
  BY DEF Bytes, None
<1>2. FlashTypes'
  <2>1. Blank \in [Bytes -> 0 .. 1]
    BY DEF Blank
  <2>2. /\ ret' = r /\ flash_pc' = "ready" /\ offset' = 0 /\ length' = 0 /\ whole' = FALSE /\ data' = Blank
        /\ cur' = 0 /\ block_left' = 0
    BY DEF FlashReturn, FlashGoto
  <2>3. QED  BY <1>1, <2>1, <2>2 DEF FlashTypes
<1>3. flash_pc' = "ready" /\ whole' = FALSE
  BY DEF FlashReturn, FlashGoto
<1>4. QED  BY <1>2, <1>3 DEF FlashInv, FlashAt

LEMMA AskKeeps ==
  ASSUME FlashInv, NEW pos \in 0 .. Length, NEW n \in Lengths, NEW erases \in BOOLEAN, NEW d \in Patterns,
         Ask(pos, n, erases, d)
  PROVE  FlashInv'
<1>1. /\ FlashAt("ready") /\ UNCHANGED <<mem, hw, wpass, epass, protected>> /\ protected
  BY DEF Ask, Called, FlashInv, FlashAt, flashHardware
<1>2. CASE OutOfRange(pos, n)
  BY <1>1, <1>2, FlashEnds DEF Ask, FlashInv, FlashTypes
<1>3. CASE ~OutOfRange(pos, n)
  <2>1. /\ offset' = pos /\ length' = n /\ whole' = erases /\ data' = d /\ asked' = <<pos, n>>
        /\ cur' = pos /\ block_left' = n /\ ret' = 0 /\ flash_pc' = IF erases THEN "look" ELSE "write_block"
    BY <1>3 DEF Ask, FlashGoto
  <2>2. pos \in Nat /\ n \in Nat /\ Length \in Nat /\ n <= Length - pos /\ d \in [Bytes -> 0 .. 1]
    BY <1>3, FlashAssumption DEF OutOfRange, Bytes
  <2>3. FlashTypes'
    BY <1>1, <2>1, <2>2 DEF FlashInv, FlashTypes, Bytes, None
  <2>7. BlockEnds' <= Length
    BY <2>1, <2>2 DEF BlockEnds
  <2>4. FlashPlaces'
    BY <2>1, <2>2 DEF FlashPlaces
  <2>5. whole' => FlashProgress'
    BY <2>1, <2>2 DEF FlashProgress, FlashAt, AsWanted
  <2>6. QED  BY <1>1, <2>1, <2>3, <2>4, <2>5, <2>7 DEF FlashInv, FlashAt
<1>4. QED  BY <1>2, <1>3

LEMMA CallsKeep ==
  FlashInv /\ (\/ alt_flash_open_dev \/ alt_flash_close_dev \/ alt_write_flash \/ alt_read_flash
               \/ alt_get_flash_info \/ alt_erase_flash_block \/ alt_write_flash_block) => FlashInv'
<1> SUFFICES ASSUME FlashInv,
                    \/ alt_flash_open_dev \/ alt_flash_close_dev \/ alt_write_flash \/ alt_read_flash
                    \/ alt_get_flash_info \/ alt_erase_flash_block \/ alt_write_flash_block
             PROVE  FlashInv'
  OBVIOUS
<1>1. CASE alt_write_flash \/ alt_write_flash_block
  BY <1>1, AskKeeps DEF alt_write_flash, alt_write_flash_block, Through, alt_onchip_flash_write,
     alt_onchip_flash_write_block
<1>2. CASE \/ alt_flash_open_dev \/ alt_flash_close_dev \/ alt_read_flash \/ alt_get_flash_info
  <2>1. /\ flash_pc' = "ready" /\ flash_pc = "ready" /\ UNCHANGED <<mem, hw, wpass, epass, protected>>
        /\ UNCHANGED <<offset, length, whole, data, cur, block_left>>
    BY <1>2 DEF alt_flash_open_dev, alt_flash_close_dev, alt_read_flash, alt_get_flash_info, Through,
       alt_onchip_flash_read, alt_onchip_flash_get_info, Called, FlashAt, flashHardware, flashCall, flashVars
  <2>2. ret' \in Int
    <3>1. ret \in Int
      BY DEF FlashInv, FlashTypes
    <3>2. CASE alt_flash_open_dev \/ alt_flash_close_dev
      BY <3>1, <3>2 DEF alt_flash_open_dev, alt_flash_close_dev, flashVars
    <3>3. CASE alt_read_flash
      BY <3>1, <3>3 DEF alt_read_flash, Through, alt_onchip_flash_read
    <3>4. CASE alt_get_flash_info
      BY <3>1, <3>4 DEF alt_get_flash_info, Through, alt_onchip_flash_get_info
    <3>5. QED  BY <1>2, <3>2, <3>3, <3>4
  <2>3. FlashTypes'
    BY <2>1, <2>2 DEF FlashInv, FlashTypes, Bytes, None
  <2>4. QED  BY <2>1, <2>3 DEF FlashInv, FlashAt
<1>3. CASE alt_erase_flash_block
  <2>1. /\ flash_pc = "ready" /\ UNCHANGED <<mem, hw, wpass, epass, protected>> /\ protected
    BY <1>3 DEF alt_erase_flash_block, Through, alt_onchip_flash_erase_block, Called, FlashInv, FlashAt, flashHardware
  <2>2. PICK pos \in 0 .. Length :
          \/ FlashReturn(-14) \/ FlashReturn(-22)
          \/ /\ offset' = pos /\ ret' = 0 /\ FlashGoto("erase")
             /\ UNCHANGED <<length, whole, data, cur, block_left, asked>>
    BY <1>3 DEF alt_erase_flash_block, Through, alt_onchip_flash_erase_block
  <2>3. CASE FlashReturn(-14) \/ FlashReturn(-22)
    BY <2>1, <2>3, FlashEnds DEF FlashInv, FlashTypes
  <2>4. CASE /\ offset' = pos /\ ret' = 0 /\ FlashGoto("erase")
             /\ UNCHANGED <<length, whole, data, cur, block_left, asked>>
    <3>1. flash_pc' = "erase"
      BY <2>4 DEF FlashGoto
    <3>2. FlashTypes'
      BY <2>1, <2>4, <3>1, FlashAssumption DEF FlashInv, FlashTypes, Bytes, None
    <3>3. ~whole
      BY <2>1 DEF FlashInv, FlashAt
    <3>4. QED  BY <2>1, <2>4, <3>1, <3>2, <3>3 DEF FlashInv
  <2>5. QED  BY <2>2, <2>3, <2>4
<1>4. QED  BY <1>1, <1>2, <1>3

LEMMA InCall ==
  ASSUME FlashInv, whole, ~FlashAt("ready")
  PROVE  FlashPlaces /\ (ret # 0 => FlashAt("next")) /\ (ret = 0 => FlashProgress)
BY DEF FlashInv

(* A step of a call that goes on with the same page.                       *)
LEMMA Goes ==
  ASSUME FlashInv, ~FlashAt("ready"), FlashTypes', UNCHANGED <<offset, length, asked, whole>>,
         flash_pc' # "ready", flash_pc' \in {"write_block", "word", "writing"} => BlockEnds' <= Length,
         protected' \/ flash_pc' \in {"erasing", "word", "writing"},
         whole => (ret' # 0 => flash_pc' = "next"),
         FlashPlaces /\ ret' = 0 /\ whole => FlashProgress'
  PROVE  FlashInv'
<1>1. whole => FlashPlaces'
  <2>1. whole => FlashPlaces
    BY InCall
  <2>2. FlashPlaces => FlashPlaces'
    BY DEF FlashPlaces, PageOf
  <2>3. QED  BY <2>1, <2>2
<1>2. whole => (ret' = 0 => FlashProgress')
  BY InCall
<1>3. QED  BY <1>1, <1>2 DEF FlashInv, FlashAt

LEMMA SamePage ==
  ASSUME UNCHANGED <<offset, length>>
  PROVE  DataToWrite' = DataToWrite /\ PageOf(offset)' = PageOf(offset) /\ PageEnd' = PageEnd
BY DEF DataToWrite, PageOf, PageEnd

LEMMA GivesUp ==
  ASSUME FlashInv, ~FlashAt("ready"), NEW r \in Int, BlockEnd(r), protected', protected' \in BOOLEAN,
         mem' \in [Bytes -> 0 .. 1], wpass' \in BOOLEAN, epass' \in BOOLEAN,
         FlashCommand(hw'), r # 0
  PROVE  FlashInv'
<1>1. CASE ~whole
  BY <1>1, FlashEnds DEF BlockEnd
<1>2. CASE whole
  <2>1. ret' = r /\ flash_pc' = "next" /\ UNCHANGED <<offset, length, whole, data, cur, block_left, asked>>
    BY <1>2 DEF BlockEnd, FlashGoto, flashCall
  <2>2. FlashTypes'
    BY <2>1 DEF FlashInv, FlashTypes, Bytes, None
  <2>3. QED  BY <2>1, <2>2, Goes
<1>3. QED  BY <1>1, <1>2

LEMMA LookKeeps == FlashInv /\ Look => FlashInv'
<1> SUFFICES ASSUME FlashInv, Look PROVE FlashInv'
  OBVIOUS
<1>1. /\ flash_pc = "look" /\ UNCHANGED <<mem, hw, wpass, epass, protected>> /\ protected /\ FlashTypes
  BY DEF Look, FlashInv, FlashAt, flashHardware
<1>2. CASE ~InRegion(offset)
  BY <1>1, <1>2, FlashEnds DEF Look, FlashTypes
<1>3. CASE InRegion(offset)
  <2>1. /\ hw = None /\ cur' = offset /\ block_left' = DataToWrite
        /\ UNCHANGED <<ret, offset, length, whole, data, asked>>
    BY <1>3 DEF Look, BusyIdle
  <2>2. /\ flash_pc' \in {"erase", "next"}
        /\ flash_pc' = "next" => \A a \in offset .. offset + DataToWrite - 1 : mem[a] = data[a]
    BY <1>3 DEF Look, FlashGoto
  <2>3. DataToWrite \in Nat /\ offset \in Nat
    BY <1>1, PagesAre DEF FlashTypes
  <2>4. FlashTypes'
    BY <1>1, <2>1, <2>2, <2>3 DEF FlashTypes, Bytes, None
  <2>5. whole => ret = 0
    BY <1>1, InCall DEF FlashAt
  <2>6. DataToWrite' = DataToWrite /\ PageEnd' = PageEnd /\ PageEnd = offset + DataToWrite
    BY <2>1, SamePage DEF PageEnd
  <2>7. whole => FlashProgress'
    <3> SUFFICES ASSUME whole PROVE FlashProgress'
      OBVIOUS
    <3>1. AsWanted(asked[1], offset)
      BY <1>1, <2>5, InCall DEF FlashProgress, FlashAt
    <3>2. AsWanted(asked[1], offset)'
      BY <1>1, <2>1, <3>1 DEF AsWanted
    <3>3. flash_pc' = "next" => AsWanted(offset, PageEnd)'
      <4>1. flash_pc' = "next" => AsWanted(offset, PageEnd)
        BY <2>2, <2>3, <2>6 DEF AsWanted
      <4>2. AsWanted(offset, PageEnd) => AsWanted(offset, PageEnd)'
        BY <1>1, <2>1, <2>6 DEF AsWanted
      <4>3. QED  BY <4>1, <4>2
    <3>4. hw' = None' /\ BlockEnds' = PageEnd' /\ cur' = offset' /\ offset' <= cur'
      BY <1>1, <2>1, <2>3, <2>6 DEF BlockEnds, None
    <3>5. QED  BY <2>2, <3>2, <3>3, <3>4 DEF FlashProgress, FlashAt
  <2>8. QED  BY <1>1, <2>1, <2>2, <2>4, <2>5, <2>7, Goes DEF FlashAt
<1>4. QED  BY <1>2, <1>3

(* A page whose bytes are as they are wanted ends the call or moves it to  *)
(* the start of the next page.                                             *)
LEMMA NextKeeps == FlashInv /\ NextPage => FlashInv'
<1> SUFFICES ASSUME FlashInv, NextPage PROVE FlashInv'
  OBVIOUS
<1>1. /\ flash_pc = "next" /\ UNCHANGED <<mem, hw, wpass, epass, protected>> /\ protected /\ FlashTypes
  BY DEF NextPage, FlashInv, FlashAt, flashHardware
<1>2. CASE length = DataToWrite \/ ret # 0
  BY <1>1, <1>2, FlashEnds DEF NextPage, FlashTypes
<1>3. CASE ~(length = DataToWrite \/ ret # 0)
  <2>1. /\ length' = length - DataToWrite /\ offset' = PageOf(offset) + PAGE /\ flash_pc' = "look"
        /\ UNCHANGED <<ret, whole, data, cur, block_left, asked>> /\ ret = 0
    BY <1>3 DEF NextPage, FlashGoto
  <2>2. /\ PAGE \in Nat /\ PageOf(offset) \in Nat /\ PageOf(offset) <= offset /\ offset < PageOf(offset) + PAGE
        /\ PageOf(PageOf(offset) + PAGE) = PageOf(offset) + PAGE
        /\ DataToWrite \in Nat /\ DataToWrite <= length /\ offset \in Nat /\ length \in Nat
        /\ DataToWrite = PageOf(offset) + PAGE - offset
    BY <1>1, <1>3, PagesAre DEF FlashTypes
  <2>3. offset' = offset + DataToWrite /\ offset' = PageEnd /\ offset' \in Nat /\ length' \in Nat
        /\ length' # 0 /\ offset' + length' = offset + length /\ offset <= offset'
    BY <1>3, <2>1, <2>2 DEF PageEnd
  <2>4. FlashTypes'
    BY <1>1, <2>1, <2>3 DEF FlashTypes, Bytes, None
  <2>5. ASSUME whole PROVE FlashPlaces' /\ FlashProgress'
    <3>1. FlashPlaces /\ AsWanted(asked[1], offset) /\ AsWanted(offset, PageEnd) /\ hw = None
      BY <1>1, <2>1, <2>5, InCall DEF FlashProgress, FlashAt
    <3>2. asked[1] \in Nat /\ asked[2] \in Nat
      BY <3>1 DEF FlashPlaces
    <3>3. PageOf(offset') = offset'
      BY <2>1, <2>2
    <3>4. FlashPlaces'
      <4> HIDE DEF PageOf
      <4>1. /\ asked[1] + asked[2] <= Length /\ asked[1] <= offset /\ offset + length = asked[1] + asked[2]
            /\ asked \in Nat \X Nat
        BY <3>1 DEF FlashPlaces
      <4>2. (PageOf(offset))' = offset'
        BY <3>3 DEF PageOf
      <4>3. asked[1] <= offset'
        BY <2>2, <2>3, <3>2, <4>1
      <4>4. QED  BY <2>1, <2>3, <4>1, <4>2, <4>3 DEF FlashPlaces
    <3>5. AsWanted(asked[1], offset)'
      <4>1. ASSUME NEW a \in asked[1] .. offset' - 1 PROVE mem[a] = data[a]
        <5>1. a \in asked[1] .. offset - 1 \/ a \in offset .. PageEnd - 1
          BY <2>2, <2>3, <3>2
        <5>2. QED  BY <3>1, <5>1 DEF AsWanted
      <4>2. QED  BY <1>1, <2>1, <4>1 DEF AsWanted
    <3>6. hw' = None'
      BY <1>1, <3>1 DEF None
    <3>7. QED  BY <2>1, <3>4, <3>5, <3>6 DEF FlashProgress, FlashAt
  <2>6. QED  BY <1>1, <2>1, <2>4, <2>5 DEF FlashInv, FlashAt
<1>4. QED  BY <1>2, <1>3

LEMMA EraseBeginKeeps == FlashInv /\ EraseBegin => FlashInv'
<1> SUFFICES ASSUME FlashInv, EraseBegin PROVE FlashInv'
  OBVIOUS
<1>1. /\ flash_pc = "erase" /\ UNCHANGED <<mem, wpass>> /\ protected /\ FlashTypes
  BY DEF EraseBegin, FlashInv, FlashAt
<1>2. CASE BlockEnd(-116) /\ UNCHANGED <<protected, epass, hw>>
  BY <1>1, <1>2, GivesUp DEF FlashTypes, FlashAt
<1>3. CASE /\ poll_for_status_to_go_idle(TRUE) /\ EnableWriteAndErase /\ PageErase(PageOf(offset))
           /\ FlashGoto("erasing") /\ UNCHANGED <<ret, flashCall>>
  <2>1. /\ flash_pc' = "erasing" /\ protected' = FALSE /\ epass' = FALSE
        /\ hw' = [does |-> "erase", at |-> PageOf(offset), chunk |-> <<>>]
        /\ UNCHANGED <<ret, offset, length, whole, data, cur, block_left, asked>>
    BY <1>3 DEF EnableWriteAndErase, PageErase, FlashGoto, flashCall
  <2>2. FlashTypes'
    <3>1. wpass' \in BOOLEAN /\ epass' \in BOOLEAN /\ protected' \in BOOLEAN /\ whole' \in BOOLEAN
      BY <1>1, <2>1, Zenon DEF FlashTypes
    <3>2. QED  BY <1>1, <2>1, <3>1 DEF FlashTypes, Bytes, FlashCommand
  <2>3. whole => ret = 0
    BY <1>1, InCall DEF FlashAt
  <2>4. whole => FlashProgress'
    <3> SUFFICES ASSUME whole PROVE FlashProgress'
      OBVIOUS
    <3>1. AsWanted(asked[1], offset) /\ cur = offset /\ offset <= cur /\ BlockEnds = PageEnd
      BY <1>1, <2>3, InCall DEF FlashProgress, FlashAt
    <3>2. AsWanted(asked[1], offset)' /\ cur' = offset' /\ offset' <= cur' /\ BlockEnds' = PageEnd'
      BY <1>1, <2>1, <3>1, SamePage DEF AsWanted, BlockEnds
    <3>3. ErasingPage'
      BY <2>1, SamePage DEF ErasingPage
    <3>4. QED  BY <2>1, <3>2, <3>3 DEF FlashProgress, FlashAt
  <2>5. QED  BY <1>1, <2>1, <2>2, <2>3, <2>4, Goes DEF FlashAt
<1>4. QED  BY <1>2, <1>3 DEF EraseBegin

LEMMA EraseEndKeeps == FlashInv /\ EraseEnd => FlashInv'
<1> SUFFICES ASSUME FlashInv, EraseEnd PROVE FlashInv'
  OBVIOUS
<1>1. /\ flash_pc = "erasing" /\ UNCHANGED <<mem, hw, wpass, epass>> /\ protected' = TRUE /\ FlashTypes
      /\ protected' \in BOOLEAN
  <2>1. protected' = TRUE
    BY DEF EraseEnd, DisableWriteAndErase
  <2>2. protected' \in BOOLEAN
    BY <2>1, Zenon
  <2>3. QED  BY <2>1, <2>2 DEF EraseEnd, FlashInv, FlashAt, flashHardware
<1>2. CASE BlockEnd(-116) \/ (~whole /\ FlashReturn(0))
  BY <1>1, <1>2, GivesUp, FlashEnds DEF FlashTypes, FlashAt
<1>3. CASE whole /\ poll_for_status_erase_passed(TRUE) /\ Erased
  <2>1. /\ flash_pc' = "write_block" /\ ret' = 0 /\ epass
        /\ UNCHANGED <<offset, length, whole, data, cur, block_left, asked>>
    BY <1>3 DEF Erased, FlashGoto, flashCall, poll_for_status_erase_passed, ErasePassed
  <2>2. FlashTypes'
    BY <1>1, <2>1 DEF FlashTypes, Bytes, None
  <2>3. FlashProgress'
    <3>1. FlashProgress
      BY <1>1, <1>3, InCall DEF FlashAt
    <3>2. AsWanted(asked[1], offset) /\ cur = offset /\ offset <= cur /\ BlockEnds = PageEnd /\ hw = None
          /\ Blanked(offset, PageEnd)
      BY <1>1, <2>1, <3>1 DEF FlashProgress, FlashAt, ErasingPage
    <3>3. AsWanted(asked[1], offset)' /\ cur' = offset' /\ offset' <= cur' /\ BlockEnds' = PageEnd'
      BY <1>1, <2>1, <3>2, SamePage DEF AsWanted, BlockEnds
    <3>4. Blanked(cur, PageEnd)' /\ hw' = None'
      BY <1>1, <2>1, <3>2, SamePage DEF Blanked, None
    <3>5. QED  BY <2>1, <3>3, <3>4 DEF FlashProgress, FlashAt
  <2>4. BlockEnds' <= Length
    <3>1. FlashPlaces /\ BlockEnds = PageEnd
      BY <1>1, <1>3, <2>1, InCall DEF FlashAt, FlashProgress
    <3>2. DataToWrite \in Nat /\ DataToWrite <= length /\ offset \in Nat /\ length \in Nat /\ Length \in Nat
      BY <1>1, PagesAre DEF FlashTypes
    <3>3. QED  BY <2>1, <3>1, <3>2 DEF FlashPlaces, PageEnd, BlockEnds
  <2>5. QED  BY <1>1, <2>1, <2>2, <2>3, <2>4, Goes DEF FlashAt
<1>4. QED  BY <1>2, <1>3 DEF EraseEnd, Erased

LEMMA WriteBeginKeeps == FlashInv /\ WriteBegin => FlashInv'
<1> SUFFICES ASSUME FlashInv, WriteBegin PROVE FlashInv'
  OBVIOUS
<1>1. /\ flash_pc = "write_block" /\ UNCHANGED <<mem, hw, wpass, epass>> /\ protected /\ FlashTypes
  BY DEF WriteBegin, FlashInv, FlashAt, flashHardware
<1>2. CASE BlockEnd(-116) /\ UNCHANGED protected
  BY <1>1, <1>2, GivesUp DEF FlashTypes, FlashAt
<1>3. CASE EnableWriteAndErase /\ FlashGoto("word") /\ UNCHANGED <<ret, flashCall>>
  <2>1. /\ flash_pc' = "word" /\ protected' = FALSE
        /\ UNCHANGED <<ret, offset, length, whole, data, cur, block_left, asked>>
    BY <1>3 DEF EnableWriteAndErase, FlashGoto, flashCall
  <2>2. FlashTypes'
    <3>1. wpass' \in BOOLEAN /\ epass' \in BOOLEAN /\ protected' \in BOOLEAN /\ whole' \in BOOLEAN
      BY <1>1, <2>1, Zenon DEF FlashTypes
    <3>2. QED  BY <1>1, <2>1, <3>1 DEF FlashTypes, Bytes, None
  <2>3. whole => ret = 0
    BY <1>1, InCall DEF FlashAt
  <2>4. whole => FlashProgress'
    <3> SUFFICES ASSUME whole PROVE FlashProgress'
      OBVIOUS
    <3>1. AsWanted(asked[1], offset) /\ cur = offset /\ offset <= cur /\ BlockEnds = PageEnd
          /\ Blanked(cur, PageEnd) /\ hw = None
      BY <1>1, <2>3, InCall DEF FlashProgress, FlashAt
    <3>2. AsWanted(asked[1], offset)' /\ offset' <= cur' /\ BlockEnds' = PageEnd' /\ hw' = None'
      BY <1>1, <2>1, <3>1, SamePage DEF AsWanted, BlockEnds, None
    <3>3. Blanked(cur, PageEnd)'
      BY <1>1, <2>1, <3>1, SamePage DEF Blanked
    <3>4. AsWanted(offset, cur)'
      <4>1. offset \in Nat /\ offset' .. cur' - 1 = {}
        BY <1>1, <2>1, <3>1 DEF FlashTypes
      <4>2. QED  BY <4>1 DEF AsWanted
    <3>5. QED  BY <2>1, <3>2, <3>3, <3>4 DEF FlashProgress, FlashAt
  <2>5. BlockEnds' <= Length
    BY <1>1, <2>1 DEF FlashInv, BlockEnds
  <2>6. QED  BY <1>1, <2>1, <2>2, <2>3, <2>4, <2>5, Goes DEF FlashAt
<1>4. QED  BY <1>2, <1>3 DEF WriteBegin

LEMMA WriteWordKeeps == FlashInv /\ WriteWord => FlashInv'
<1> SUFFICES ASSUME FlashInv, WriteWord PROVE FlashInv'
  OBVIOUS
<1>1. /\ flash_pc = "word" /\ UNCHANGED <<mem, epass>> /\ FlashTypes
  BY DEF WriteWord, FlashInv, FlashAt
<1>2. whole => ret = 0
  BY <1>1, InCall DEF FlashAt
<1>3. CASE block_left = 0 /\ DisableWriteAndErase /\ BlockEnd(ret) /\ UNCHANGED <<hw, wpass>>
  <2>1. protected' = TRUE /\ protected' \in BOOLEAN /\ ret \in Int
    <3>1. protected' = TRUE
      BY <1>3 DEF DisableWriteAndErase
    <3>2. QED  BY <1>1, <3>1, Zenon DEF FlashTypes
  <2>2. CASE ~whole
    BY <1>1, <1>3, <2>1, <2>2, FlashEnds DEF BlockEnd, FlashTypes
  <2>3. CASE whole
    <3>1. flash_pc' = "next" /\ ret' = ret /\ UNCHANGED <<offset, length, whole, data, cur, block_left, asked>>
      BY <1>3, <2>3 DEF BlockEnd, FlashGoto, flashCall
    <3>2. FlashTypes'
      BY <1>1, <1>3, <2>1, <3>1 DEF FlashTypes, Bytes, None
    <3>3. FlashProgress'
      <4>1. AsWanted(asked[1], offset) /\ BlockEnds = PageEnd /\ AsWanted(offset, cur) /\ hw = None
        BY <1>1, <1>2, <2>3, InCall DEF FlashProgress, FlashAt
      <4>2. PageEnd = cur
        BY <1>1, <1>3, <4>1 DEF BlockEnds, FlashTypes
      <4>3. AsWanted(asked[1], offset)' /\ AsWanted(offset, PageEnd)' /\ hw' = None'
        BY <1>1, <1>3, <3>1, <4>1, <4>2, SamePage DEF AsWanted, None
      <4>4. QED  BY <3>1, <4>3 DEF FlashProgress, FlashAt
    <3>4. QED  BY <1>1, <2>1, <3>1, <3>2, <3>3, Goes DEF FlashAt
  <2>4. QED  BY <2>2, <2>3
<1>4. CASE /\ block_left # 0
           /\ hw' = [does |-> "write", at |-> WordOf(cur),
                     chunk |-> [a \in WordOf(cur) .. WordOf(cur) + ALIGN - 1 |-> Chunk(a)]]
           /\ wpass' = FALSE /\ FlashGoto("writing") /\ UNCHANGED <<protected, ret, flashCall>>
  <2>1. flash_pc' = "writing" /\ UNCHANGED <<ret, offset, length, whole, data, cur, block_left, asked, protected>>
    BY <1>4 DEF FlashGoto, flashCall
  <2>2. FlashTypes'
    <3>1. wpass' \in BOOLEAN /\ epass' \in BOOLEAN /\ protected' \in BOOLEAN /\ whole' \in BOOLEAN
      BY <1>1, <1>4, <2>1, Zenon DEF FlashTypes
    <3>2. FlashCommand(hw')
      <4>1. \A a \in Int : Chunk(a) \in 0 .. 1
        <5>1. cur \in Nat /\ block_left \in Nat /\ cur + block_left <= Length /\ data \in [Bytes -> 0 .. 1]
              /\ Length \in Nat
          BY <1>1, FlashAssumption DEF FlashInv, FlashTypes, BlockEnds
        <5>2. \A a \in cur .. cur + block_left - 1 : a \in Bytes
          BY <5>1 DEF Bytes
        <5>3. QED  BY <5>1, <5>2 DEF Chunk
      <4>2. WordOf(cur) \in Nat /\ ALIGN \in Nat
        BY <1>1, PagesAre
      <4>3. \A a \in WordOf(cur) .. WordOf(cur) + ALIGN - 1 : Chunk(a) \in 0 .. 1
        BY <4>1, <4>2
      <4> HIDE DEF Chunk, WordOf
      <4>4. hw'.does = "write" /\ DOMAIN hw'.chunk = WordOf(cur) .. WordOf(cur) + ALIGN - 1
            /\ \A a \in WordOf(cur) .. WordOf(cur) + ALIGN - 1 : hw'.chunk[a] = Chunk(a)
        BY <1>4
      <4>5. QED  BY <4>3, <4>4 DEF FlashCommand
    <3>3. QED  BY <1>1, <2>1, <3>1, <3>2 DEF FlashTypes, Bytes, None
  <2>3. whole => FlashProgress'
    <3> SUFFICES ASSUME whole PROVE FlashProgress'
      OBVIOUS
    <3>1. /\ AsWanted(asked[1], offset) /\ BlockEnds = PageEnd /\ AsWanted(offset, cur) /\ offset <= cur
          /\ Blanked(cur, PageEnd)
      BY <1>1, <1>2, InCall DEF FlashProgress, FlashAt
    <3>2. AsWanted(asked[1], offset)' /\ AsWanted(offset, cur)' /\ BlockEnds' = PageEnd' /\ offset' <= cur'
          /\ Blanked(cur, PageEnd)'
      BY <1>1, <2>1, <3>1, SamePage DEF AsWanted, Blanked, BlockEnds
    <3>3. block_left' > 0
      BY <1>1, <1>4, <2>1 DEF FlashTypes
    <3>4. WritingPage'
      <4>1. hw' = [does |-> "write", at |-> WordOf(cur'),
                   chunk |-> [a \in WordOf(cur') .. WordOf(cur') + ALIGN - 1 |-> Chunk(a)']]
        BY <1>4, <2>1 DEF WordOf, Chunk
      <4>2. (~wpass)'
        BY <1>4
      <4>3. QED  BY <3>2, <3>3, <4>1, <4>2 DEF WritingPage, WordOf
    <3>5. QED  BY <2>1, <3>2, <3>4 DEF FlashProgress, FlashAt
  <2>4. BlockEnds' <= Length
    BY <1>1, <2>1 DEF FlashInv, BlockEnds
  <2>5. QED  BY <1>1, <1>2, <2>1, <2>2, <2>3, <2>4, Goes DEF FlashAt
<1>5. QED  BY <1>3, <1>4 DEF WriteWord

(* A word that has passed holds what was wanted; the bytes behind it are   *)
(* as blank as before.                                                     *)
LEMMA WordEndKeeps == FlashInv /\ WordEnd => FlashInv'
<1> SUFFICES ASSUME FlashInv, WordEnd PROVE FlashInv'
  OBVIOUS
<1>1. /\ flash_pc = "writing" /\ UNCHANGED <<mem, hw, wpass, epass>> /\ FlashTypes
  BY DEF WordEnd, FlashInv, FlashAt, flashHardware
<1>2. CASE DisableWriteAndErase /\ BlockEnd(-116)
  <2>1. protected' = TRUE
    BY <1>2 DEF DisableWriteAndErase
  <2>2. protected' \in BOOLEAN
    BY <2>1, Zenon
  <2>3. QED  BY <1>1, <1>2, <2>1, <2>2, GivesUp DEF FlashTypes, FlashAt
<1>3. CASE /\ poll_for_status_to_go_idle(TRUE) /\ poll_for_status_write_passed(TRUE)
           /\ FlashGoto("word") /\ cur' = cur + Written /\ block_left' = block_left - Written
           /\ UNCHANGED <<protected, ret, offset, length, whole, data, asked>>
  <2>1. flash_pc' = "word" /\ hw = None /\ wpass /\ cur' = cur + Written /\ block_left' = block_left - Written
        /\ UNCHANGED <<protected, ret, offset, length, whole, data, asked>>
    BY <1>3 DEF FlashGoto, poll_for_status_to_go_idle, poll_for_status_write_passed, BusyIdle, WritePassed
  <2>2. Written \in Nat /\ Written <= block_left /\ cur \in Nat /\ block_left \in Nat /\ offset \in Nat
    BY <1>1, PagesAre DEF FlashTypes
  <2>3. cur' \in Nat /\ block_left' \in Nat /\ cur' + block_left' = cur + block_left /\ cur <= cur'
    BY <2>1, <2>2
  <2>4. FlashTypes'
    BY <1>1, <2>1, <2>3 DEF FlashTypes, Bytes, None
  <2>5. whole => ret = 0
    BY <1>1, InCall DEF FlashAt
  <2>6. whole => FlashProgress'
    <3> SUFFICES ASSUME whole PROVE FlashProgress'
      OBVIOUS
    <3>1. /\ AsWanted(asked[1], offset) /\ BlockEnds = PageEnd /\ AsWanted(offset, cur) /\ offset <= cur
          /\ AsWanted(cur, cur + Written) /\ Blanked(cur + Written, PageEnd)
      BY <1>1, <2>1, <2>5, InCall DEF FlashProgress, FlashAt, WritingPage, None
    <3>2. AsWanted(asked[1], offset)' /\ BlockEnds' = PageEnd' /\ offset' <= cur'
      BY <1>1, <2>1, <2>2, <2>3, <3>1, SamePage DEF AsWanted, BlockEnds
    <3>3. AsWanted(offset, cur)'
      <4>1. ASSUME NEW a \in offset .. cur' - 1 PROVE mem[a] = data[a]
        <5>1. a \in offset .. cur - 1 \/ a \in cur .. cur + Written - 1
          BY <2>1, <2>2, <3>1
        <5>2. AsWanted(offset, cur) /\ AsWanted(cur, cur + Written)
          BY <3>1
        <5>3. QED  BY <2>1, <2>2, <5>1, <5>2 DEF AsWanted
      <4>2. QED  BY <1>1, <2>1, <4>1 DEF AsWanted
    <3>4. Blanked(cur, PageEnd)' /\ hw' = None'
      BY <1>1, <2>1, <3>1, SamePage DEF Blanked, None
    <3>5. QED  BY <2>1, <3>2, <3>3, <3>4 DEF FlashProgress, FlashAt
  <2>7. BlockEnds' <= Length
    BY <1>1, <2>1, <2>3 DEF FlashInv, BlockEnds
  <2>8. QED  BY <1>1, <2>1, <2>4, <2>5, <2>6, <2>7, Goes DEF FlashAt
<1>4. QED  BY <1>2, <1>3 DEF WordEnd

(* A byte of the word that the flash has written.                          *)
LEMMA ByteWritten ==
  ASSUME NEW x \in 0 .. 1, NEW y \in 0 .. 1
  PROVE  Min({x, y}) \in 0 .. 1 /\ Min({1, x}) = x /\ Min({x, 1}) = x
<1>1. Min({1, x}) = IF 1 <= x THEN 1 ELSE x
  BY LeastOfTwo
<1>2. Min({x, 1}) = IF x <= 1 THEN x ELSE 1
  BY LeastOfTwo
<1>3. Min({x, y}) = IF x <= y THEN x ELSE y
  BY LeastOfTwo
<1>4. QED  BY <1>1, <1>2, <1>3

LEMMA ErasesDone ==
  ASSUME FlashTypes, FlashPlaces, ErasingPage, AsWanted(asked[1], offset), hw # None, hw.does = "erase",
         mem' = [a \in Bytes |-> IF a \in PageBytes(hw.at) THEN 1 ELSE mem[a]],
         UNCHANGED <<offset, length, data, asked>>
  PROVE  AsWanted(asked[1], offset)' /\ Blanked(offset, PageEnd)'
<1>1. /\ PAGE \in Nat /\ PageOf(offset) \in Nat /\ PageOf(offset) <= offset /\ offset < PageOf(offset) + PAGE
      /\ DataToWrite \in Nat /\ DataToWrite <= length /\ DataToWrite <= PageOf(offset) + PAGE - offset
      /\ offset \in Nat /\ length \in Nat /\ Length \in Nat
  BY PagesAre DEF FlashTypes
<1>2. hw.at = PageOf(offset)
  BY DEF ErasingPage
<1>3. /\ asked[1] \in Nat /\ asked[2] \in Nat /\ asked[1] <= offset /\ offset + length <= Length
      /\ offset = asked[1] \/ PageOf(offset) = offset
  BY DEF FlashPlaces
<1> HIDE DEF PageOf
<1>4. ASSUME NEW a \in asked[1] .. offset - 1 PROVE mem'[a] = data[a]
  <2>1. a \in Bytes /\ a < PageOf(offset)
    BY <1>1, <1>3 DEF Bytes
  <2>2. mem'[a] = mem[a]
    BY <1>1, <1>2, <2>1 DEF PageBytes
  <2>3. QED  BY <2>2 DEF AsWanted
<1>5. ASSUME NEW a \in offset .. PageEnd - 1 PROVE mem'[a] = 1
  <2>1. a \in Bytes /\ a \in PageBytes(PageOf(offset))
    BY <1>1, <1>3 DEF Bytes, PageBytes, PageEnd
  <2>2. QED  BY <1>2, <2>1
<1>6. QED  BY <1>4, <1>5, SamePage DEF AsWanted, Blanked

LEMMA WordsDone ==
  ASSUME FlashTypes, FlashPlaces, WritingPage, AsWanted(asked[1], offset), AsWanted(offset, cur), BlockEnds = PageEnd,
         offset <= cur, hw # None, hw.does = "write",
         mem' = [a \in Bytes |-> IF a \in DOMAIN hw.chunk THEN Min({mem[a], hw.chunk[a]}) ELSE mem[a]],
         UNCHANGED <<offset, length, data, asked, cur, block_left>>
  PROVE  /\ AsWanted(asked[1], offset)' /\ AsWanted(offset, cur)'
         /\ AsWanted(cur, cur + Written)' /\ Blanked(cur + Written, PageEnd)'
<1> DEFINE word == WordOf(cur)
<1>1. /\ ALIGN \in Nat /\ word \in Nat /\ word <= cur /\ cur < word + ALIGN
      /\ Written \in Nat /\ Written <= block_left /\ Written <= word + ALIGN - cur
      /\ Written = block_left \/ Written = word + ALIGN - cur
      /\ DataToWrite \in Nat /\ DataToWrite <= length
      /\ offset \in Nat /\ length \in Nat /\ Length \in Nat /\ cur \in Nat /\ block_left \in Nat
  BY PagesAre DEF FlashTypes
<1>2. hw.chunk = [a \in word .. word + ALIGN - 1 |-> Chunk(a)] /\ Blanked(cur, PageEnd)
  <2>1. /\ hw = [does |-> "write", at |-> word, chunk |-> [a \in word .. word + ALIGN - 1 |-> Chunk(a)]]
        /\ Blanked(cur, PageEnd)
    BY Zenon DEF WritingPage
  <2> HIDE DEF word
  <2>2. QED  BY <2>1
<1>3. /\ asked[1] \in Nat /\ asked[2] \in Nat /\ asked[1] <= offset /\ offset + length <= Length
      /\ PageEnd = cur + block_left /\ PageEnd <= Length
  BY <1>1 DEF FlashPlaces, BlockEnds, PageEnd
<1>4. mem \in [Bytes -> 0 .. 1] /\ data \in [Bytes -> 0 .. 1]
  BY DEF FlashTypes
<1>5. Written' = Written
  BY DEF Written, WordOf
<1> HIDE DEF word
<1>6. ASSUME NEW a \in Bytes
      PROVE  mem'[a] = IF a \in cur .. cur + Written - 1 THEN data[a] ELSE mem[a]
  <2>1. CASE a \in cur .. cur + Written - 1
    <3>1. a \in word .. word + ALIGN - 1 /\ a \in cur .. cur + block_left - 1
      BY <1>1, <2>1
    <3>2. hw.chunk[a] = data[a] /\ a \in DOMAIN hw.chunk
      BY <1>2, <3>1 DEF Chunk
    <3>3. mem[a] = 1 /\ data[a] \in 0 .. 1
      <4>1. a \in cur .. PageEnd - 1
        BY <1>1, <1>3, <3>1
      <4>2. QED  BY <1>2, <1>4, <4>1 DEF Blanked
    <3>4. QED  BY <2>1, <3>2, <3>3, ByteWritten
  <2>2. CASE a \notin cur .. cur + Written - 1 /\ a \in word .. word + ALIGN - 1
    <3>1. a \notin cur .. cur + block_left - 1
      BY <1>1, <2>2 DEF Bytes
    <3>2. hw.chunk[a] = 1 /\ a \in DOMAIN hw.chunk
      BY <1>2, <2>2, <3>1 DEF Chunk
    <3>3. QED  BY <1>4, <2>2, <3>2, ByteWritten
  <2>3. CASE a \notin cur .. cur + Written - 1 /\ a \notin word .. word + ALIGN - 1
    <3>1. DOMAIN hw.chunk = word .. word + ALIGN - 1
      BY <1>2
    <3>2. QED  BY <2>3, <3>1
  <2>4. QED  BY <2>1, <2>2, <2>3
<1>7. ASSUME NEW a \in asked[1] .. cur - 1 PROVE a \in Bytes /\ a \notin cur .. cur + Written - 1
  BY <1>1, <1>3 DEF Bytes
<1>8. AsWanted(asked[1], offset)'
  <2>1. ASSUME NEW a \in asked[1] .. offset - 1 PROVE mem'[a] = data[a]
    <3>1. a \in asked[1] .. cur - 1
      BY <1>1, <1>3
    <3>2. mem'[a] = mem[a]
      BY <1>6, <1>7, <3>1
    <3>3. QED  BY <3>2 DEF AsWanted
  <2>2. QED  BY <2>1 DEF AsWanted
<1>9. AsWanted(offset, cur)'
  <2>1. ASSUME NEW a \in offset .. cur - 1 PROVE mem'[a] = data[a]
    <3>1. a \in asked[1] .. cur - 1
      BY <1>1, <1>3
    <3>2. mem'[a] = mem[a]
      BY <1>6, <1>7, <3>1
    <3>3. QED  BY <3>2 DEF AsWanted
  <2>2. QED  BY <2>1 DEF AsWanted
<1>10. AsWanted(cur, cur + Written)'
  <2>1. ASSUME NEW a \in cur .. (cur + Written) - 1 PROVE mem'[a] = data[a]
    <3>1. a \in Bytes
      BY <1>1, <1>3 DEF Bytes
    <3>2. a \in cur .. cur + Written - 1
      BY <1>1
    <3>3. QED  BY <1>6, <3>1, <3>2
  <2>2. cur' = cur /\ data' = data
    OBVIOUS
  <2>3. \A a \in cur' .. (cur' + Written') - 1 : mem'[a] = data'[a]
    BY <1>5, <2>1, <2>2, Zenon
  <2>4. QED  BY <2>3, Zenon DEF AsWanted
<1>11. Blanked(cur + Written, PageEnd)'
  <2>1. ASSUME NEW a \in cur + Written .. PageEnd - 1 PROVE mem'[a] = 1
    <3>1. a \in Bytes /\ a \notin cur .. cur + Written - 1 /\ a \in cur .. PageEnd - 1
      BY <1>1, <1>3 DEF Bytes
    <3>2. mem'[a] = mem[a]
      BY <1>6, <3>1
    <3>3. QED  BY <1>2, <3>1, <3>2 DEF Blanked
  <2>2. QED  BY <1>5, <2>1, SamePage DEF Blanked
<1>12. QED  BY <1>8, <1>9, <1>10, <1>11

(* The end of a command, in the step that waits for it and before a later  *)
(* call looks at the flash.                                                *)
LEMMA CompletesKeeps == FlashInv /\ Completes => FlashInv'
<1> SUFFICES ASSUME FlashInv, Completes PROVE FlashInv'
  OBVIOUS
<1>1. /\ hw # None /\ hw' = None /\ FlashTypes
      /\ UNCHANGED <<protected, flash_pc, ret, offset, length, whole, data, cur, block_left, asked>>
  BY DEF Completes, BusyIdle, flashCall, FlashInv
<1> DEFINE Erases == /\ hw.does = "erase" /\ epass' = TRUE /\ UNCHANGED wpass
                     /\ mem' = [a \in Bytes |-> IF a \in PageBytes(hw.at) THEN 1 ELSE mem[a]]
           Programs == /\ hw.does = "write" /\ wpass' = TRUE /\ UNCHANGED epass
                     /\ mem' = [a \in Bytes |-> IF a \in DOMAIN hw.chunk THEN Min({mem[a], hw.chunk[a]}) ELSE mem[a]]
           Fails == UNCHANGED <<mem, epass, wpass>>
<1>2. Erases \/ Programs \/ Fails
  BY DEF Completes
<1>3. mem' \in [Bytes -> 0 .. 1]
  <2>1. mem \in [Bytes -> 0 .. 1] /\ FlashCommand(hw)
    BY <1>1 DEF FlashTypes
  <2>2. CASE Erases
    BY <2>1, <2>2
  <2>3. CASE Programs
    <3>1. \A a \in DOMAIN hw.chunk : hw.chunk[a] \in 0 .. 1
      BY <1>1, <2>1, <2>3 DEF FlashCommand
    <3>2. ASSUME NEW a \in Bytes
          PROVE  (IF a \in DOMAIN hw.chunk THEN Min({mem[a], hw.chunk[a]}) ELSE mem[a]) \in 0 .. 1
      BY <2>1, <3>1, ByteWritten
    <3>3. QED  BY <2>3, <3>2
  <2>4. CASE Fails
    BY <2>1, <2>4
  <2>5. QED  BY <1>2, <2>2, <2>3, <2>4
<1>4. wpass' \in BOOLEAN /\ epass' \in BOOLEAN
  <2>1. wpass \in BOOLEAN /\ epass \in BOOLEAN
    BY <1>1 DEF FlashTypes
  <2>2. QED  BY <1>2, <2>1, Zenon
<1>5. FlashTypes'
  BY <1>1, <1>3, <1>4 DEF FlashTypes, FlashCommand, Bytes
<1>6. ASSUME whole, ~FlashAt("ready"), ret = 0
      PROVE  FlashPlaces' /\ FlashProgress'
  <2>1. FlashPlaces /\ FlashProgress
    BY <1>6, InCall
  <2>2. FlashPlaces'
    BY <1>1, <2>1 DEF FlashPlaces, PageOf
  <2>3. DataToWrite' = DataToWrite /\ PageEnd' = PageEnd /\ hw' = None' /\ BlockEnds' = BlockEnds
    BY <1>1, SamePage DEF None, BlockEnds
  <2>4. CASE FlashAt("look")
    <3>1. offset' = asked'[1] /\ asked[1] \in Nat
      BY <1>1, <2>1, <2>4 DEF FlashProgress, FlashPlaces
    <3>2. AsWanted(asked[1], offset)'
      <4>1. asked'[1] .. offset' - 1 = {}
        BY <1>1, <3>1
      <4>2. QED  BY <4>1 DEF AsWanted
    <3>3. QED  BY <1>1, <2>2, <2>3, <2>4, <3>2 DEF FlashProgress, FlashAt
  <2>5. CASE FlashAt("erasing")
    <3>1. AsWanted(asked[1], offset) /\ ErasingPage /\ cur = offset /\ offset <= cur /\ BlockEnds = PageEnd
      BY <2>1, <2>5 DEF FlashProgress, FlashAt
    <3>2. hw.does = "erase" /\ ~epass
      BY <1>1, <3>1 DEF ErasingPage
    <3>3. AsWanted(asked[1], offset)' /\ ErasingPage'
      <4>1. CASE Erases
        BY <1>1, <2>1, <2>3, <3>1, <3>2, <4>1, ErasesDone DEF ErasingPage
      <4>2. CASE Fails
        BY <1>1, <2>3, <3>1, <3>2, <4>2 DEF ErasingPage, AsWanted
      <4>3. QED  BY <1>2, <3>2, <4>1, <4>2
    <3>4. QED  BY <1>1, <2>2, <2>3, <2>5, <3>1, <3>3 DEF FlashProgress, FlashAt
  <2>6. CASE FlashAt("writing")
    <3>1. /\ AsWanted(asked[1], offset) /\ WritingPage /\ AsWanted(offset, cur) /\ offset <= cur /\ BlockEnds = PageEnd
      BY <2>1, <2>6 DEF FlashProgress, FlashAt
    <3>2. hw.does = "write" /\ ~wpass /\ block_left > 0
      BY <1>1, <3>1 DEF WritingPage
    <3>3. AsWanted(asked[1], offset)' /\ AsWanted(offset, cur)' /\ WritingPage'
      <4>1. CASE Programs
        BY <1>1, <2>1, <2>3, <3>1, <3>2, <4>1, WordsDone DEF WritingPage
      <4>2. CASE Fails
        BY <1>1, <2>3, <3>1, <3>2, <4>2 DEF WritingPage, AsWanted
      <4>3. QED  BY <1>2, <3>2, <4>1, <4>2
    <3>4. QED  BY <1>1, <2>2, <2>3, <2>6, <3>1, <3>3 DEF FlashProgress, FlashAt
  <2>7. FlashAt("look") \/ FlashAt("erasing") \/ FlashAt("writing")
    BY <1>1, <1>6, <2>1 DEF FlashProgress, FlashTypes, FlashAt
  <2>8. QED  BY <2>4, <2>5, <2>6, <2>7
<1>7. BlockEnds' = BlockEnds
  BY <1>1 DEF BlockEnds
<1>8. whole /\ ~FlashAt("ready") => FlashPlaces'
  <2>1. whole /\ ~FlashAt("ready") => FlashPlaces
    BY InCall
  <2>2. QED  BY <1>1, <2>1 DEF FlashPlaces, PageOf
<1> HIDE DEF Erases, Programs, Fails
<1>9. QED  BY <1>1, <1>5, <1>6, <1>7, <1>8 DEF FlashInv, FlashAt

LEMMA FlashSteps == FlashInv /\ [FlashNext]_flashVars => FlashInv'
<1> SUFFICES ASSUME FlashInv, [FlashNext]_flashVars PROVE FlashInv'
  OBVIOUS
<1>1. CASE UNCHANGED flashVars
  <2>1. FlashTypes' /\ (FlashPlaces => FlashPlaces') /\ (FlashProgress => FlashProgress')
    BY <1>1 DEF FlashInv, FlashTypes, Bytes, FlashCommand, None, flashVars, flashHardware, flashCall, FlashPlaces, PageOf,
       FlashProgress, AsWanted, Blanked, PageEnd, BlockEnds, DataToWrite, ErasingPage, WritingPage, Written,
       WordOf, Chunk, FlashAt
  <2>2. QED  BY <1>1, <2>1 DEF FlashInv, FlashAt, BlockEnds, flashVars, flashHardware, flashCall
<1>2. QED  BY <1>1, CallsKeep, LookKeeps, NextKeeps, EraseBeginKeeps, EraseEndKeeps, WriteBeginKeeps,
              WriteWordKeeps, WordEndKeeps, CompletesKeeps DEF FlashNext

LEMMA FlashCallEnds ==
  FlashInv /\ [FlashNext]_flashVars
    => (Ends => /\ protected'
                /\ Reports(0) /\ (\A a \in Asked : InRegion(a)) => \A a \in Asked : mem[a] = data[a])
<1> SUFFICES ASSUME FlashInv, [FlashNext]_flashVars, Ends
             PROVE  /\ protected'
                    /\ Reports(0) /\ (\A a \in Asked : InRegion(a)) => \A a \in Asked : mem[a] = data[a]
  OBVIOUS
<1>1. flash_pc # "ready" /\ flash_pc' = "ready" /\ ~FlashAt("ready") /\ FlashTypes
  BY DEF Ends, FlashAt, FlashInv
<1>2. protected'
  BY <1>1, FlashSteps DEF FlashInv
<1>3. ASSUME Reports(0), \A a \in Asked : InRegion(a)
      PROVE  \A a \in Asked : mem[a] = data[a]
  <2>1. whole /\ ret' = 0
    BY <1>3 DEF Reports
  <2>2. FlashPlaces
    BY <1>1, <2>1, InCall
  <2>3. /\ asked[1] \in Nat /\ asked[2] \in Nat /\ asked[1] <= offset /\ offset + length = asked[1] + asked[2]
        /\ length = 0 => asked[2] = 0
        /\ offset \in Nat /\ length \in Nat
    BY <1>1, <2>2 DEF FlashPlaces, FlashTypes
  <2>4. CASE Look
    <3>1. ~InRegion(offset)
      BY <1>1, <2>4 DEF Look, FlashGoto, FlashAt
    <3>2. offset \notin Asked
      BY <1>3, <3>1
    <3>3. length = 0
      BY <2>3, <3>2 DEF Asked
    <3>4. Asked = {}
      BY <2>3, <3>3 DEF Asked
    <3>5. QED  BY <3>4
  <2>5. CASE NextPage
    <3>1. (length = DataToWrite \/ ret # 0) /\ ret' = ret
      BY <1>1, <2>5 DEF NextPage, FlashGoto, FlashReturn, FlashAt
    <3>2. ret = 0 /\ flash_pc = "next" /\ length = DataToWrite
      BY <2>1, <2>5, <3>1 DEF NextPage, FlashAt
    <3>3. AsWanted(asked[1], offset) /\ AsWanted(offset, PageEnd)
      BY <1>1, <2>1, <3>2, InCall DEF FlashProgress, FlashAt
    <3>4. PageEnd = offset + length
      BY <3>2 DEF PageEnd
    <3>5. ASSUME NEW a \in Asked PROVE mem[a] = data[a]
      <4>1. a \in asked[1] .. offset - 1 \/ a \in offset .. PageEnd - 1
        BY <2>3, <3>4 DEF Asked
      <4>2. QED  BY <3>3, <4>1 DEF AsWanted
    <3>6. QED  BY <3>5
  <2>6. CASE EraseBegin \/ EraseEnd \/ WriteBegin \/ WriteWord \/ WordEnd
    <3>1. flash_pc' = "ready" => ~whole
      BY <2>6 DEF EraseBegin, EraseEnd, WriteBegin, WriteWord, WordEnd, BlockEnd, Erased, FlashGoto
    <3>2. QED  BY <1>1, <2>1, <3>1
  <2>7. CASE Completes \/ UNCHANGED flashVars
    BY <1>1, <2>7 DEF Completes, flashVars
  <2>8. CASE \/ alt_flash_open_dev \/ alt_flash_close_dev \/ alt_write_flash \/ alt_read_flash
             \/ alt_get_flash_info \/ alt_erase_flash_block \/ alt_write_flash_block
    <3>1. FlashAt("ready")
      BY <2>8 DEF alt_flash_open_dev, alt_flash_close_dev, alt_write_flash, alt_read_flash, alt_get_flash_info,
         alt_erase_flash_block, alt_write_flash_block, Through, alt_onchip_flash_write, alt_onchip_flash_write_block,
         alt_onchip_flash_read, alt_onchip_flash_get_info, alt_onchip_flash_erase_block, Ask, Called
    <3>2. QED  BY <1>1, <3>1
  <2>9. QED  BY <2>4, <2>5, <2>6, <2>7, <2>8 DEF FlashNext
<1>4. QED  BY <1>2, <1>3

(* The rest of the flash's types: no address or length of a call leads     *)
(* outside the device.                                                     *)
FlashResults == {0, -5, -12, -14, -22, -116}
Counts == Lengths \cup 0 .. Length

FlashBounds ==
  /\ regions \subseteq {Region(s) : s \in Sectors} /\ flash_fd \in BOOLEAN
  /\ offset \in 0 .. Length /\ cur \in 0 .. Length /\ length \in Counts /\ block_left \in Counts
  /\ data \in Patterns \cup {Blank} /\ ret \in FlashResults
  /\ flash_pc \in {"look", "next"} => whole

LEMMA StaysBounded ==
  ASSUME FlashBounds, UNCHANGED <<regions, offset, cur, length, block_left, data, whole>>,
         flash_fd' \in BOOLEAN, ret' \in FlashResults, flash_pc' \in {"look", "next"} => whole
  PROVE  FlashBounds'
BY DEF FlashBounds, Counts, Blank, Bytes

LEMMA ReturnBounded ==
  ASSUME FlashBounds, UNCHANGED <<regions, flash_fd>>, NEW r \in FlashResults, FlashReturn(r)
  PROVE  FlashBounds'
<1>1. 0 \in 0 .. Length
  BY FlashAssumption
<1>2. Blank' = Blank
  BY DEF Blank, Bytes
<1>3. QED  BY <1>1, <1>2 DEF FlashReturn, FlashGoto, FlashBounds, Counts

LEMMA AskBounded ==
  ASSUME FlashBounds, NEW pos \in 0 .. Length, NEW n \in Lengths, NEW erases \in BOOLEAN, NEW d \in Patterns,
         Ask(pos, n, erases, d)
  PROVE  FlashBounds'
<1>1. UNCHANGED <<regions, flash_fd>>
  BY DEF Ask, Called
<1>2. CASE OutOfRange(pos, n)
  <2>1. FlashReturn(-14) /\ -14 \in FlashResults
    BY <1>2 DEF Ask, FlashResults
  <2>2. QED  BY <1>1, <2>1, ReturnBounded
<1>3. CASE ~OutOfRange(pos, n)
  BY <1>1, <1>3 DEF Ask, FlashGoto, FlashBounds, Counts, FlashResults
<1>4. QED  BY <1>2, <1>3

LEMMA CallsBounded ==
  ASSUME FlashInv, FlashBounds,
         \/ alt_flash_open_dev \/ alt_flash_close_dev \/ alt_write_flash \/ alt_read_flash
         \/ alt_get_flash_info \/ alt_erase_flash_block \/ alt_write_flash_block
  PROVE  FlashBounds'
<1>1. CASE alt_write_flash \/ alt_write_flash_block
  BY <1>1, AskBounded DEF alt_write_flash, alt_write_flash_block, Through, alt_onchip_flash_write,
     alt_onchip_flash_write_block
<1>2. CASE \/ alt_flash_open_dev \/ alt_flash_close_dev \/ alt_read_flash \/ alt_get_flash_info
  <2>1. /\ flash_pc' = "ready" /\ UNCHANGED <<regions, offset, cur, length, block_left, data, whole>>
    BY <1>2 DEF alt_flash_open_dev, alt_flash_close_dev, alt_read_flash, alt_get_flash_info, Through,
       alt_onchip_flash_read, alt_onchip_flash_get_info, Called, FlashAt, flashHardware, flashCall, flashVars
  <2>2. flash_fd' \in BOOLEAN
    <3>1. CASE alt_flash_open_dev
      <4>1. PICK name \in FlashNames : flash_fd' = (name = FlashName)
        BY <3>1 DEF alt_flash_open_dev
      <4>2. QED  BY <4>1, Zenon
    <3>2. CASE alt_flash_close_dev \/ alt_read_flash \/ alt_get_flash_info
      <4>1. flash_fd' = flash_fd
        BY <3>2 DEF alt_flash_close_dev, alt_read_flash, alt_get_flash_info, Through, alt_onchip_flash_read,
           alt_onchip_flash_get_info, Called, flashVars
      <4>2. QED  BY <4>1, Zenon DEF FlashBounds
    <3>3. QED  BY <1>2, <3>1, <3>2
  <2>3. ret' \in FlashResults
    <3>1. CASE alt_flash_open_dev \/ alt_flash_close_dev
      BY <3>1 DEF alt_flash_open_dev, alt_flash_close_dev, flashVars, FlashBounds
    <3>2. CASE alt_read_flash
      BY <3>2 DEF alt_read_flash, Through, alt_onchip_flash_read, FlashResults
    <3>3. CASE alt_get_flash_info
      BY <3>3 DEF alt_get_flash_info, Through, alt_onchip_flash_get_info, FlashResults
    <3>4. QED  BY <1>2, <3>1, <3>2, <3>3
  <2>4. QED  BY <2>1, <2>2, <2>3, StaysBounded
<1>3. CASE alt_erase_flash_block
  <2>1. /\ UNCHANGED <<regions, flash_fd>>
    BY <1>3 DEF alt_erase_flash_block, Through, alt_onchip_flash_erase_block, Called
  <2>2. PICK pos \in 0 .. Length :
          \/ FlashReturn(-14) \/ FlashReturn(-22)
          \/ /\ offset' = pos /\ ret' = 0 /\ FlashGoto("erase")
             /\ UNCHANGED <<length, whole, data, cur, block_left, asked>>
    BY <1>3 DEF alt_erase_flash_block, Through, alt_onchip_flash_erase_block
  <2>3. CASE FlashReturn(-14) \/ FlashReturn(-22)
    BY <2>1, <2>3, ReturnBounded DEF FlashResults
  <2>4. CASE /\ offset' = pos /\ ret' = 0 /\ FlashGoto("erase")
             /\ UNCHANGED <<length, whole, data, cur, block_left, asked>>
    <3>1. Blank' = Blank
      BY DEF Blank, Bytes
    <3>2. QED  BY <2>1, <2>4, <3>1 DEF FlashGoto, FlashBounds, Counts, FlashResults
  <2>5. QED  BY <2>2, <2>3, <2>4
<1>4. QED  BY <1>1, <1>2, <1>3

LEMMA BlockEndBounded ==
  ASSUME FlashBounds, UNCHANGED <<regions, flash_fd>>, NEW r \in FlashResults, BlockEnd(r)
  PROVE  FlashBounds'
<1>1. CASE ~whole
  BY <1>1, ReturnBounded DEF BlockEnd
<1>2. CASE whole
  <2>1. ret' = r /\ UNCHANGED <<offset, length, whole, data, cur, block_left>> /\ flash_fd' \in BOOLEAN
    BY <1>2 DEF BlockEnd, flashCall, FlashBounds
  <2>2. QED  BY <1>2, <2>1, StaysBounded
<1>3. QED  BY <1>1, <1>2

LEMMA LookBounded == ASSUME FlashInv, FlashBounds, Look PROVE FlashBounds'
<1>1. UNCHANGED <<regions, flash_fd>> /\ FlashTypes /\ whole /\ flash_pc = "look"
  BY DEF Look, FlashAt, FlashInv, FlashBounds
<1>2. CASE ~InRegion(offset)
  BY <1>1, <1>2, ReturnBounded DEF Look, FlashResults
<1>3. CASE InRegion(offset)
  <2>1. cur' = offset /\ block_left' = DataToWrite /\ UNCHANGED <<ret, offset, length, whole, data>>
    BY <1>3 DEF Look
  <2>2. DataToWrite \in 0 .. Length
    <3>1. DataToWrite \in Nat /\ DataToWrite <= length /\ Length \in Nat /\ length \in Nat /\ offset \in Nat
      BY <1>1, PagesAre DEF FlashTypes
    <3>2. asked \in Nat \X Nat /\ asked[1] + asked[2] <= Length /\ offset + length = asked[1] + asked[2]
      BY <1>1, InCall DEF FlashAt, FlashPlaces
    <3>3. QED  BY <3>1, <3>2
  <2>3. Blank' = Blank
    BY DEF Blank, Bytes
  <2>4. QED  BY <1>1, <2>1, <2>2, <2>3 DEF FlashBounds, Counts
<1>4. QED  BY <1>2, <1>3

LEMMA NextBounded == ASSUME FlashInv, FlashBounds, NextPage PROVE FlashBounds'
<1>1. UNCHANGED <<regions, flash_fd>> /\ FlashTypes /\ whole /\ flash_pc = "next"
  BY DEF NextPage, FlashAt, FlashInv, FlashBounds
<1>2. CASE length = DataToWrite \/ ret # 0
  <2>1. FlashReturn(ret) /\ ret \in FlashResults
    BY <1>2 DEF NextPage, FlashBounds
  <2>2. QED  BY <1>1, <2>1, ReturnBounded
<1>3. CASE ~(length = DataToWrite \/ ret # 0)
  <2>1. length' = length - DataToWrite /\ offset' = PageOf(offset) + PAGE
        /\ UNCHANGED <<ret, whole, data, cur, block_left>>
    BY <1>3 DEF NextPage
  <2>2. /\ DataToWrite \in Nat /\ DataToWrite <= length /\ Length \in Nat /\ length \in Nat /\ offset \in Nat
        /\ DataToWrite = PageOf(offset) + PAGE - offset /\ PageOf(offset) \in Nat /\ PAGE \in Nat
    BY <1>1, <1>3, PagesAre DEF FlashTypes
  <2>3. asked \in Nat \X Nat /\ asked[1] + asked[2] <= Length /\ offset + length = asked[1] + asked[2]
    BY <1>1, InCall DEF FlashAt, FlashPlaces
  <2>4. length' \in 0 .. Length /\ offset' \in 0 .. Length
    BY <2>1, <2>2, <2>3
  <2>5. Blank' = Blank
    BY DEF Blank, Bytes
  <2>6. QED  BY <1>1, <2>1, <2>4, <2>5 DEF FlashBounds, Counts
<1>4. QED  BY <1>2, <1>3

LEMMA WordEndBounded == ASSUME FlashInv, FlashBounds, WordEnd PROVE FlashBounds'
<1>1. UNCHANGED <<regions, flash_fd>> /\ FlashTypes /\ flash_pc = "writing"
  BY DEF WordEnd, FlashAt, FlashInv
<1>2. CASE BlockEnd(-116)
  BY <1>1, <1>2, BlockEndBounded DEF FlashResults
<1>3. CASE FlashGoto("word") /\ cur' = cur + Written /\ block_left' = block_left - Written
           /\ UNCHANGED <<ret, offset, length, whole, data>>
  <2>1. Written \in Nat /\ Written <= block_left /\ Length \in Nat /\ cur \in Nat /\ block_left \in Nat
    BY <1>1, PagesAre DEF FlashTypes
  <2>2. cur + block_left <= Length
    BY <1>1 DEF FlashInv, BlockEnds
  <2>3. cur' \in 0 .. Length /\ block_left' \in 0 .. Length
    BY <1>3, <2>1, <2>2
  <2>4. Blank' = Blank
    BY DEF Blank, Bytes
  <2>5. QED  BY <1>1, <1>3, <2>3, <2>4 DEF FlashGoto, FlashBounds, Counts
<1>4. QED  BY <1>2, <1>3 DEF WordEnd

LEMMA FlashBoundsStep == FlashInv /\ FlashBounds /\ [FlashNext]_flashVars => FlashBounds'
<1> SUFFICES ASSUME FlashInv, FlashBounds, [FlashNext]_flashVars PROVE FlashBounds'
  OBVIOUS
<1>1. flash_fd \in BOOLEAN /\ ret \in FlashResults
  BY Zenon DEF FlashBounds
<1>2. CASE EraseBegin
  <2>1. UNCHANGED <<regions, flash_fd>>
    BY <1>2 DEF EraseBegin
  <2>2. CASE FlashGoto("erasing") /\ UNCHANGED <<ret, flashCall>>
    BY <1>1, <2>1, <2>2, StaysBounded DEF FlashGoto, flashCall
  <2>3. QED  BY <1>2, <2>1, <2>2, BlockEndBounded DEF EraseBegin, FlashResults
<1>3. CASE EraseEnd
  <2>1. UNCHANGED <<regions, flash_fd>>
    BY <1>3 DEF EraseEnd
  <2>2. CASE Erased /\ whole
    BY <1>1, <2>1, <2>2, StaysBounded DEF Erased, FlashGoto, flashCall, FlashResults
  <2>3. CASE Erased /\ ~whole
    BY <2>1, <2>3, ReturnBounded DEF Erased, FlashResults
  <2>4. QED  BY <1>3, <2>1, <2>2, <2>3, BlockEndBounded DEF EraseEnd, FlashResults
<1>4. CASE WriteBegin
  <2>1. UNCHANGED <<regions, flash_fd>>
    BY <1>4 DEF WriteBegin
  <2>2. CASE FlashGoto("word") /\ UNCHANGED <<ret, flashCall>>
    BY <1>1, <2>1, <2>2, StaysBounded DEF FlashGoto, flashCall
  <2>3. QED  BY <1>4, <2>1, <2>2, BlockEndBounded DEF WriteBegin, FlashResults
<1>5. CASE WriteWord
  <2>1. UNCHANGED <<regions, flash_fd>>
    BY <1>5 DEF WriteWord
  <2>2. CASE FlashGoto("writing") /\ UNCHANGED <<ret, flashCall>>
    BY <1>1, <2>1, <2>2, StaysBounded DEF FlashGoto, flashCall
  <2>3. QED  BY <1>1, <1>5, <2>1, <2>2, BlockEndBounded DEF WriteWord
<1>6. CASE Completes \/ UNCHANGED flashVars
  BY <1>1, <1>6, StaysBounded DEF Completes, flashVars, flashCall, FlashBounds
<1>7. CASE \/ alt_flash_open_dev \/ alt_flash_close_dev \/ alt_write_flash \/ alt_read_flash
           \/ alt_get_flash_info \/ alt_erase_flash_block \/ alt_write_flash_block
  BY <1>7, CallsBounded
<1>8. QED  BY <1>2, <1>3, <1>4, <1>5, <1>6, <1>7, LookBounded, NextBounded, WordEndBounded DEF FlashNext

LEMMA FlashBoundsInit == FlashInit => FlashBounds
<1> SUFFICES ASSUME FlashInit PROVE FlashBounds
  OBVIOUS
<1>1. regions \subseteq {Region(s) : s \in Sectors}
  BY DEF FlashInit, Offered
<1>2. flash_fd \in BOOLEAN
  BY Zenon DEF FlashInit
<1>3. data = Blank /\ 0 \in 0 .. Length
  BY FlashAssumption DEF FlashInit, Blank
<1>4. QED  BY <1>1, <1>2, <1>3 DEF FlashInit, FlashBounds, Counts, FlashResults

LEMMA FlashTypeIs == FlashInv /\ FlashBounds => FlashTypeOK
<1> SUFFICES ASSUME FlashInv, FlashBounds PROVE FlashTypeOK
  OBVIOUS
<1>1. hw.does \in {"nothing", "erase", "write"}
  BY DEF FlashInv, FlashTypes, FlashCommand, None
<1>2. wpass \in BOOLEAN /\ epass \in BOOLEAN /\ protected \in BOOLEAN /\ whole \in BOOLEAN /\ flash_fd \in BOOLEAN
  BY Zenon DEF FlashInv, FlashTypes, FlashBounds
<1>3. QED  BY <1>1, <1>2 DEF FlashInv, FlashTypes, FlashBounds, FlashTypeOK, FlashResults, Counts

(* A write that reports success has put every byte in its place, through   *)
(* pages and words of any size, whatever an earlier call has left the      *)
(* flash busy with; and a call that ends leaves the flash protected        *)
(* (altera_onchip_flash.c:165-181, 198-383).                               *)
THEOREM WritesLandTheorem == FlashSpec => WritesLand
<1>1. FlashInv /\ [FlashNext]_flashVars
        => [Ends => /\ protected'
                    /\ Reports(0) /\ (\A a \in Asked : InRegion(a))
                         => \A a \in Asked : mem[a] = data[a]]_flashVars
  BY FlashCallEnds
<1>2. QED  BY <1>1, FlashStart, FlashSteps, PTL DEF FlashSpec, WritesLand
-----------------------------------------------------------------------------
(* All of it.  A step of one part is a step of its specification, and the  *)
(* others stand still.                                                     *)
LEMMA HalSteps ==
  [HalNext]_halVars => /\ [TicksNext]_tickVars /\ [ListNext]_listVars /\ [FilesNext]_filesVars
                       /\ [JtagNext]_jtagVars /\ [FlashNext]_flashVars /\ [I2cNext]_i2cVars
                       /\ [SpeedNext]_speedVars /\ [CodecNext]_codecVars /\ [IrqNext]_irqVars
                       /\ [MemoryNext]_memoryVars
<1>1. CASE OfClock(Tick \/ TimeStep) \/ OfAlarms(Tick \/ AlarmStep)
  BY <1>1 DEF OfClock, OfAlarms, TicksNext
<1>2. CASE OfList(ListNext)
  BY <1>2 DEF OfList
<1>3. CASE OfFiles(FilesNext)
  BY <1>3 DEF OfFiles
<1>4. CASE OfConsole(JtagNext)
  BY <1>4 DEF OfConsole
<1>5. CASE OfFlash(FlashNext)
  BY <1>5 DEF OfFlash
<1>6. CASE OfI2c(I2cNext)
  BY <1>6 DEF OfI2c
<1>7. CASE OfSpeed(SpeedNext)
  BY <1>7 DEF OfSpeed
<1>8. CASE OfCodec(CodecNext)
  BY <1>8 DEF OfCodec
<1>9. CASE OfInterrupts(IrqNext)
  BY <1>9 DEF OfInterrupts
<1>10. CASE OfMemory(MemoryNext)
  BY <1>10 DEF OfMemory
<1>11. CASE UNCHANGED halVars
  BY <1>11 DEF halVars
<1>. QED  BY <1>1, <1>2, <1>3, <1>4, <1>5, <1>6, <1>7, <1>8, <1>9, <1>10, <1>11 DEF HalNext

LEMMA HalStarts ==
  HalInit => /\ TicksInit /\ ListInit /\ FilesInit /\ JtagInit /\ FlashInit /\ I2cInit /\ SpeedInit
             /\ CodecInit /\ IrqInit /\ MemoryInit
BY DEF HalInit

(* Every variable of the HAL and of its drivers keeps to its type, for all *)
(* their constants: ring and FIFO indices, addresses in the flash, counts  *)
(* of transactions, fields of alarms, registers of the codec.              *)
THEOREM HalTypeTheorem == HalSpec => []HalTypeOK
<1>1. HalSpec => []TicksTypeOK
  BY HalStarts, HalSteps, TicksInvInit, TicksInvStep, WaitTypesInit, WaitTypesStep, TicksTypes, PTL DEF HalSpec
<1>2. HalSpec => []ListTypeOK
  <2>1. ListInv => ListTypeOK
    BY DEF ListInv, Types
  <2>2. QED  BY HalStarts, HalSteps, ListInvInit, ListInvStep, <2>1, PTL DEF HalSpec
<1>3. HalSpec => []FilesTypeOK
  <2>1. FilesInv => FilesTypeOK
    BY DEF FilesInv
  <2>2. QED  BY HalStarts, HalSteps, FilesInvInit, FilesInvStep, <2>1, PTL DEF HalSpec
<1>4. HalSpec => []JtagTypeOK
  BY HalStarts, HalSteps, JtagStart, JtagSteps, JtagOrderly, PTL DEF HalSpec
<1>5. HalSpec => []FlashTypeOK
  BY HalStarts, HalSteps, FlashStart, FlashSteps, FlashBoundsInit, FlashBoundsStep, FlashTypeIs, PTL DEF HalSpec
<1>6. HalSpec => []I2cTypeOK
  BY HalStarts, HalSteps, I2cWholeStarts, I2cWholeSteps, I2cWholeTypes, PTL DEF HalSpec
<1>7. HalSpec => []SpeedTypeOK
  <2>1. SpeedInv => SpeedTypeOK
    BY DEF SpeedInv
  <2>2. QED  BY HalStarts, HalSteps, SpeedInitHolds, SpeedStepKeeps, <2>1, PTL DEF HalSpec
<1>8. HalSpec => []CodecTypeOK
  BY HalStarts, HalSteps, CodecStart, CodecSteps, CodecRestStart, CodecRestStep, CodecTypes, PTL DEF HalSpec
<1>9. HalSpec => []IrqTypeOK
  <2>1. IrqInit => IrqInv
    BY InterruptsAssumption, IrqInitInv
  <2>2. IrqInv /\ [IrqNext]_irqVars => IrqInv'
    BY InterruptsAssumption, IrqNextInv
  <2>3. IrqInv => IrqTypeOK
    BY IrqInvTypeOK
  <2>4. QED  BY HalStarts, HalSteps, <2>1, <2>2, <2>3, PTL DEF HalSpec
<1>10. HalSpec => []MemoryTypeOK
  BY HalStarts, HalSteps, MemStart, MemSteps, MemIsKept, PTL DEF HalSpec
<1>11. HalTypeOK <=> /\ TicksTypeOK /\ ListTypeOK /\ FilesTypeOK /\ JtagTypeOK /\ FlashTypeOK /\ I2cTypeOK
                     /\ SpeedTypeOK /\ CodecTypeOK /\ IrqTypeOK /\ MemoryTypeOK
  BY DEF HalTypeOK
<1>12. QED  BY <1>1, <1>2, <1>3, <1>4, <1>5, <1>6, <1>7, <1>8, <1>9, <1>10, <1>11, PTL

(* The HAL and its drivers, whichever part runs: what each promises, it    *)
(* keeps.  No descriptor is lost, each character of the console comes once *)
(* and in its order, a transaction that succeeds has done its work, an     *)
(* interrupt finds its handler and none of the sections it must not cut    *)
(* into, a tick serves each alarm, the codec is set up whole, and memory   *)
(* is as it was linked.                                                    *)
THEOREM HalTheorem ==
  HalSpec => [](/\ NoFdLost /\ ConsoleOrderly /\ I2cOrderly /\ InterruptsOrderly
                /\ AlarmsServed /\ CodecConfigured /\ MemoryKept)
<1>1. HalSpec => []NoFdLost
  <2>1. FilesInv => NoFdLost
    BY DEF FilesInv
  <2>. QED  BY HalStarts, HalSteps, FilesInvInit, FilesInvStep, <2>1, PTL DEF HalSpec
<1>2. HalSpec => []ConsoleOrderly
  BY HalStarts, HalSteps, JtagStart, JtagSteps, JtagOrderly, PTL DEF HalSpec
<1>3. HalSpec => []I2cOrderly
  <2>1. I2cDone /\ SpeedKept => I2cOrderly
    BY DEF I2cOrderly
  <2>. QED  BY HalStarts, HalSteps, I2cStart, I2cStep, I2cKeeps, SpeedInitHolds, SpeedStepKeeps, SpeedInvKeeps,
               <2>1, PTL DEF HalSpec
<1>4. HalSpec => []InterruptsOrderly
  <2>1. IrqInit => IrqInv
    BY InterruptsAssumption, IrqInitInv
  <2>2. IrqInv /\ [IrqNext]_irqVars => IrqInv'
    BY InterruptsAssumption, IrqNextInv
  <2>3. IrqInv => InterruptsOrderly
    BY IrqInvOrderly
  <2>. QED  BY HalStarts, HalSteps, <2>1, <2>2, <2>3, PTL DEF HalSpec
<1>5. HalSpec => []AlarmsServed
  BY HalStarts, HalSteps, ListInvInit, ListInvStep, ListInvServes, PTL DEF HalSpec
<1>6. HalSpec => []CodecConfigured
  <2>1. /\ CodecInit => CodecInv
        /\ CodecInv /\ [CodecNext]_codecVars => CodecInv'
        /\ CodecInv => CodecConfigured
    BY CodecStart, CodecSteps, CodecHolds
  <2>. QED  BY HalStarts, HalSteps, <2>1, PTL DEF HalSpec
<1>7. HalSpec => []MemoryKept
  BY HalStarts, HalSteps, MemStart, MemSteps, MemIsKept, PTL DEF HalSpec
<1>. QED  BY <1>1, <1>2, <1>3, <1>4, <1>5, <1>6, <1>7, PTL

(* And what no step of any of them does: an alarm goes off before or after *)
(* its tick, or the time of day goes back; a lock stays while another      *)
(* opens its device; a write reports success before every byte is there.   *)
THEOREM HalStepsTheorem == HalSpec => ClockKept /\ LockKept /\ WritesLand
<1>1. HalSpec => ClockKept
  <2>1. TicksInv => TimeGoesOn
    BY TimeReads DEF TicksInv, AlarmInv
  <2>2. TicksInv' => TimeGoesOn'
    BY <2>1, PTL
  <2>3. TicksInv /\ [TicksNext]_tickVars => [AlarmsOnTime /\ TimeGoesOn']_tickVars
    BY <2>2, TicksInvStep
  <2>. QED  BY HalStarts, HalSteps, TicksInvInit, TicksInvStep, <2>3, PTL DEF HalSpec, ClockKept
<1>2. HalSpec => LockKept
  <2>1. FilesInv /\ LockInv /\ [FilesNext]_filesVars
          => [\A f \in Fds : EXCL \in fd_flags[f] => Locks(f)]_filesVars
    BY LockStep
  <2>. QED  BY HalStarts, HalSteps, FilesInvInit, FilesInvStep, LockInvInit, LockInvStep, <2>1, PTL
            DEF HalSpec, LockKept
<1>3. HalSpec => WritesLand
  <2>1. FlashInv /\ [FlashNext]_flashVars
          => [Ends => /\ protected'
                      /\ Reports(0) /\ (\A a \in Asked : InRegion(a))
                           => \A a \in Asked : mem[a] = data[a]]_flashVars
    BY FlashCallEnds
  <2>. QED  BY HalStarts, HalSteps, <2>1, FlashStart, FlashSteps, PTL DEF HalSpec, WritesLand
<1>. QED  BY <1>1, <1>2, <1>3
=============================================================================
