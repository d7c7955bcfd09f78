---------------------------- MODULE SdBootProofs ----------------------------
(***************************************************************************)
(* Theorems about SdBoot, for words, blocks and cards of any size.         *)
(*                                                                         *)
(* The invariant counts bytes: those the host has taken, those the         *)
(* controller has given, and at most one between them.  It says where the  *)
(* two machines are together, at every state of either.                    *)
(***************************************************************************)
EXTENDS SdBoot, SequenceTheorems, TLAPS

CtrlRecord ==
  [st : CtrlStates, rtn : CtrlStates, byteCnt : 0 .. ReadSize, rtnData : BOOLEAN,
   rx : {"none", "start", "idle", "active", "error"}, addr : 0 .. Blocks - 1,
   data : 0 .. MaxWord * WordBytes - 1, hndShk : BOOLEAN, error : BOOLEAN, busy : BOOLEAN]

HostRecord ==
  [st : {"RESET", "READBLOCK", "READ_0", "READ_1", "WRITE", "ERROR", "DONE"},
   k : 0 .. WordBytes - 1, n : 0 .. MaxWord, data : Seq(Nat)]

SdTypes ==
  /\ host \in HostRecord /\ ctrl \in CtrlRecord
  /\ DOMAIN ram = 0 .. RamSize - 1

(* The bytes the host has taken, and how far it is in its word.            *)
Taken == host.n * WordBytes + Len(host.data)

HostShape ==
  /\ host.st = "READ_0" => Len(host.data) = host.k
  /\ host.st = "READ_1" => Len(host.data) = host.k + 1
  /\ host.st = "WRITE" => Len(host.data) = WordBytes /\ host.k = 0
  /\ host.st \notin {"READ_0", "READ_1", "WRITE"} => host.data = <<>> /\ host.k = 0
  /\ \A b \in 1 .. Len(host.data) : host.data[b] = host.n * WordBytes + b - 1
  /\ host.st = "RESET" => host.n = 0
  /\ host.st = "READBLOCK" => \E m \in Nat : host.n = m * BlockWords
  /\ Taken <= MaxWord * WordBytes

Written == \A n \in 0 .. host.n - 1 : ram[RamAddr(n)] = WordOfCard(n)

(* The bytes of its block the controller has given, one of which may still *)
(* be before the host.                                                     *)
InBlock == ctrl.st = "RD_BLK" \/ (ctrl.st = "TRANSFER" /\ ctrl.rtn = "RD_BLK")

Given ==
  IF ctrl.rtnData THEN IF ctrl.st = "TRANSFER" THEN BlockBytes + 1 - ctrl.byteCnt
                       ELSE BlockBytes + 2 - ctrl.byteCnt
  ELSE IF ctrl.byteCnt >= BlockBytes + 2 THEN 0 ELSE BlockBytes

Waits == ctrl.hndShk /\ ~HostShk

Block ==
  /\ Taken + (IF Waits THEN 1 ELSE 0) = ctrl.addr * BlockBytes + Given
  /\ Waits => ctrl.data = Taken
  /\ ctrl.rtnData <=> ctrl.byteCnt \in 2 .. BlockBytes + 1

Between ==
  /\ ~ctrl.rtnData
  /\ \E m \in Nat : Taken = m * BlockBytes
                    /\ (ctrl.st = "REPORT_ERROR" \/ (m = 0 /\ ctrl.addr = 0) \/ m = ctrl.addr + 1)

Together ==
  /\ ctrl.busy \/ ctrl.st \in {"WAIT_FOR_HOST_RW", "REPORT_ERROR"}
  /\ ctrl.hndShk \/ HostShk => ctrl.st = "RD_BLK" /\ ctrl.rtnData
  /\ ctrl.st = "TRANSFER" => ctrl.rtn \notin {"START_INIT", "TRANSFER", "REPORT_ERROR"}
  /\ InBlock => Block
  /\ ~InBlock => Between

SdInv ==
  /\ SdTypes /\ HostShape /\ Written
  /\ ctrl.st = "START_INIT" => host = HostReset /\ (ctrl.busy \/ ~ctrl.hndShk)
  /\ ctrl.st # "START_INIT" => Together
-----------------------------------------------------------------------------
(* Arithmetic.                                                             *)
LEMMA SizesAreNat ==
  /\ WordBytes \in Nat \ {0} /\ BlockWords \in Nat \ {0} /\ Blocks \in Nat \ {0}
  /\ BlockBytes \in Nat \ {0} /\ MaxWord \in Nat \ {0} /\ ReadSize = BlockBytes + 3
  /\ MaxWord <= RamSize /\ RamSize \in Nat \ {0} /\ FirstAddr \in Nat
  /\ MaxWord * WordBytes \in Nat \ {0}
<1> USE SdAssumption
<1>1. BlockBytes \in Nat \ {0} /\ MaxWord \in Nat \ {0} /\ MaxWord <= RamSize
  BY DEF BlockBytes, MaxWord
<1>2. MaxWord * WordBytes \in Nat \ {0}
  BY <1>1
<1>3. QED  BY <1>1, <1>2 DEF ReadSize

LEMMA NextMultiple == ASSUME NEW n \in Nat, NEW w \in Nat PROVE (n + 1) * w = n * w + w
OBVIOUS

LEMMA MoreMultiple ==
  ASSUME NEW n \in Nat, NEW m \in Nat, NEW w \in Nat, n <= m PROVE n * w <= m * w
<1>1. (m - n) \in Nat /\ (m - n) * w \in Nat
  OBVIOUS
<1>2. m * w = n * w + (m - n) * w
  OBVIOUS
<1>3. QED  BY <1>1, <1>2

LEMMA LessMultiple == ASSUME NEW n \in Nat, NEW m \in Nat, NEW w \in Nat \ {0}, n * w < m * w PROVE n < m
OBVIOUS

LEMMA InTheCard == MaxWord * WordBytes = Blocks * BlockBytes
BY SdAssumption DEF MaxWord, BlockBytes

LEMMA WholeWords ==
  ASSUME NEW n \in Nat, NEW m \in Nat, n * WordBytes = m * BlockBytes
  PROVE  n = m * BlockWords
BY SdAssumption DEF BlockBytes

LEMMA WordsOfBlocks ==
  ASSUME NEW m \in Nat
  PROVE  /\ (m * BlockWords) * WordBytes = m * BlockBytes
         /\ (m * BlockWords) \div BlockWords = m /\ (m * BlockWords) % BlockWords = 0
BY SdAssumption DEF BlockBytes

LEMMA DivMod ==
  ASSUME NEW x \in Nat, NEW s \in Nat \ {0}
  PROVE  x \div s \in Int /\ x % s \in 0 .. s - 1 /\ x = s * (x \div s) + (x % s)
OBVIOUS

LEMMA RamAddrs ==
  ASSUME NEW n \in Nat
  PROVE  RamAddr(n) \in 0 .. RamSize - 1 /\ \E q \in Int : FirstAddr + n = RamSize * q + RamAddr(n)
<1> DEFINE x == FirstAddr + n
<1>1. x \in Nat /\ RamAddr(n) = x % RamSize
  BY SizesAreNat DEF RamAddr
<1> HIDE DEF x
<1>2. x \div RamSize \in Int /\ x % RamSize \in 0 .. RamSize - 1
      /\ x = RamSize * (x \div RamSize) + (x % RamSize)
  BY <1>1, SizesAreNat, DivMod
<1>3. QED  BY <1>1, <1>2 DEF x

(* Fewer words than the SDRAM has do not come to the same address.         *)
LEMMA RamApart ==
  ASSUME NEW m \in Nat, NEW n \in Nat, m < n, n < MaxWord
  PROVE  RamAddr(m) # RamAddr(n)
<1> SUFFICES ASSUME RamAddr(m) = RamAddr(n) PROVE FALSE
  OBVIOUS
<1>1. n - m < RamSize /\ RamSize \in Nat \ {0} /\ FirstAddr \in Nat
  BY SizesAreNat
<1>2. PICK p \in Int : FirstAddr + m = RamSize * p + RamAddr(m)
  BY RamAddrs
<1>3. PICK q \in Int : FirstAddr + n = RamSize * q + RamAddr(n)
  BY RamAddrs
<1>4. RamAddr(n) \in Int
  BY RamAddrs, <1>1
<1>5. n - m = RamSize * q - RamSize * p
  BY <1>1, <1>2, <1>3, <1>4
<1>6. RamSize * q - RamSize * p = RamSize * (q - p)
  BY <1>1
<1>7. q - p > 0 => RamSize * (q - p) >= RamSize
  BY <1>1
<1>8. q - p <= 0 => RamSize * (q - p) <= 0
  BY <1>1
<1>9. QED  BY <1>1, <1>5, <1>6, <1>7, <1>8
-----------------------------------------------------------------------------
(* The host: a byte it takes is the one that comes next.                   *)
Still == Taken' = Taken /\ (HostShk' <=> HostShk /\ ctrl.hndShk)
Takes == Waits /\ HostShk' /\ Taken' = Taken + 1

LEMMA TakenType ==
  ASSUME host \in HostRecord
  PROVE  /\ host.n \in Nat /\ host.k \in Nat /\ Len(host.data) \in Nat /\ Taken \in Nat
         /\ host.n * WordBytes \in Nat
BY SizesAreNat DEF HostRecord, Taken

LEMMA HostKeeps ==
  ASSUME SdInv, ctrl.st # "START_INIT", NEW ack \in BOOLEAN, Host(ack), ~ctrl.busy => Between
  PROVE  host' \in HostRecord /\ DOMAIN ram' = 0 .. RamSize - 1 /\ HostShape' /\ Written' /\ (Still \/ Takes)
<1> USE SizesAreNat, TakenType DEF SdInv, SdTypes, HostShk
<1>1. CASE HostWrite(ack) /\ ack
  <2>1. /\ host.st = "WRITE" /\ host' = [host EXCEPT !.st = "READ_0", !.n = @ + 1, !.data = <<>>]
        /\ ram' = [ram EXCEPT ![RamAddr(host.n)] = host.data]
    BY <1>1 DEF HostWrite
  <2>2. Len(host.data) = WordBytes /\ host.k = 0 /\ (host.n + 1) * WordBytes = host.n * WordBytes + WordBytes
    BY <2>1, NextMultiple DEF HostShape
  <2>3. host.n < MaxWord
    <3>1. host.n * WordBytes < MaxWord * WordBytes
      BY <2>2 DEF HostShape, Taken
    <3>2. QED  BY <3>1, LessMultiple
  <2>4. host'.st = "READ_0" /\ host'.n = host.n + 1 /\ host'.k = 0 /\ host'.data = <<>>
        /\ host' \in HostRecord
    <3>1. <<>> \in Seq(Nat) /\ host.n + 1 \in 0 .. MaxWord
      BY <2>3
    <3>2. QED  BY <2>1, <2>2, <3>1 DEF HostRecord
  <2>5. Taken' = Taken
    BY <2>2, <2>4 DEF Taken
  <2>6. HostShape'
    BY <2>4, <2>5 DEF HostShape
  <2>7. Written'
    <3>1. host.data = WordOfCard(host.n)
      <4>1. host.data \in [1 .. WordBytes -> Nat]
        BY <2>2 DEF HostRecord
      <4>2. \A b \in 1 .. WordBytes : host.data[b] = host.n * WordBytes + b - 1
        BY <2>2 DEF HostShape
      <4>3. host.data = [b \in 1 .. WordBytes |-> host.data[b]]
        BY <4>1
      <4>4. QED  BY <4>2, <4>3 DEF WordOfCard
    <3>2. RamAddr(host.n) \in 0 .. RamSize - 1
      BY RamAddrs
    <3>3. ASSUME NEW n \in 0 .. host.n
          PROVE  ram'[RamAddr(n)] = WordOfCard(n)
      <4>1. CASE n = host.n
        BY <2>1, <3>1, <3>2, <4>1
      <4>2. CASE n # host.n
        <5>1. n \in Nat /\ n < host.n /\ n \in 0 .. host.n - 1
          BY <4>2
        <5>2. RamAddr(n) # RamAddr(host.n)
          BY <2>3, <5>1, RamApart
        <5>3. QED  BY <2>1, <5>1, <5>2 DEF Written
      <4>3. QED  BY <4>1, <4>2
    <3>4. QED  BY <2>4, <3>3 DEF Written
  <2>8. QED  BY <2>1, <2>4, <2>5, <2>6, <2>7 DEF Still
<1>2. CASE UNCHANGED <<host, ram>> /\ (HostShk => ctrl.hndShk)
  BY <1>2 DEF Still, Taken, HostShape, Written, HostRecord
<1>3. CASE /\ UNCHANGED ram /\ host.st \notin {"READ_0", "READ_1", "WRITE"}
           /\ host' = [host EXCEPT !.st = host'.st]
           /\ \/ host'.st = "READ_0" \/ host'.st \in {"ERROR", "DONE"}
              \/ host'.st = "READBLOCK" /\ host.st \in {"RESET", "READBLOCK"}
  <2>1. /\ host'.n = host.n /\ host'.k = host.k /\ host'.data = host.data /\ host' \in HostRecord
        /\ host.data = <<>> /\ host.k = 0
    BY <1>3 DEF HostShape, HostRecord
  <2>2. Taken' = Taken /\ ~HostShk' /\ ~HostShk
    BY <1>3, <2>1 DEF Taken
  <2>3. host'.st = "READBLOCK" => \E m \in Nat : host'.n = m * BlockWords
    <3>1. host.st = "RESET" => host.n = 0 * BlockWords
      BY DEF HostShape
    <3>2. QED  BY <1>3, <2>1, <3>1 DEF HostShape
  <2>4. HostShape'
    BY <1>3, <2>1, <2>2, <2>3 DEF HostShape
  <2>5. QED  BY <1>3, <2>1, <2>2, <2>4 DEF Still, Written
<1>4. CASE HostRead0 /\ UNCHANGED ram
  <2>1. CASE host.k = 0 /\ ~ctrl.busy
    <3>1. host' = [host EXCEPT !.st = "READBLOCK"] /\ host.data = <<>>
      BY <1>4, <2>1 DEF HostRead0, HostShape, HostRecord
    <3>2. /\ host'.st = "READBLOCK" /\ host'.n = host.n /\ host'.k = 0 /\ host'.data = <<>>
          /\ host' \in HostRecord
          /\ ~HostShk /\ ~HostShk'
      BY <1>4, <2>1, <3>1 DEF HostRecord, HostRead0
    <3>3. Taken' = Taken /\ Taken = host.n * WordBytes
      BY <3>1, <3>2 DEF Taken
    <3>4. PICK m \in Nat : Taken = m * BlockBytes
      BY <2>1 DEF Between
    <3>5. host.n = m * BlockWords
      BY <3>3, <3>4, WholeWords
    <3>6. HostShape'
      <4>1. \E q \in Nat : host'.n = q * BlockWords
        BY <3>2, <3>5
      <4>2. Len(host'.data) = 0 /\ Taken' <= MaxWord * WordBytes
        BY <3>2, <3>3 DEF HostShape
      <4>3. \A b \in 1 .. Len(host'.data) : host'.data[b] = host'.n * WordBytes + b - 1
        BY <4>2
      <4>4. QED  BY <3>2, <4>1, <4>2, <4>3 DEF HostShape
    <3>7. QED  BY <1>4, <3>2, <3>3, <3>6 DEF Still, Written
  <2>2. CASE ~(host.k = 0 /\ ~ctrl.busy) /\ ctrl.hndShk
    <3>1. host' = [host EXCEPT !.st = "READ_1", !.data = Append(host.data, ctrl.data)] /\ host.st = "READ_0"
      BY <1>4, <2>2 DEF HostRead0, Take
    <3>2. Waits /\ ctrl.data = Taken /\ ctrl.data \in Nat /\ Len(host.data) = host.k
      BY <2>2, <3>1 DEF Waits, Together, InBlock, Block, CtrlRecord, HostShape
    <3>3. /\ host.data \in Seq(Nat)
          /\ Append(host.data, ctrl.data) \in Seq(Nat)
          /\ Len(Append(host.data, ctrl.data)) = Len(host.data) + 1
          /\ \A b \in 1 .. Len(host.data) : Append(host.data, ctrl.data)[b] = host.data[b]
          /\ Append(host.data, ctrl.data)[Len(host.data) + 1] = ctrl.data
      BY <3>2 DEF HostRecord
    <3>4. /\ host'.st = "READ_1" /\ host'.n = host.n /\ host'.k = host.k /\ host' \in HostRecord
          /\ host'.data = Append(host.data, ctrl.data)
      BY <3>1, <3>3 DEF HostRecord
    <3>5. Taken' = Taken + 1
      <4>1. Taken' = host.n * WordBytes + (Len(host.data) + 1) /\ Taken = host.n * WordBytes + Len(host.data)
        BY <3>3, <3>4 DEF Taken
      <4> DEFINE a == host.n * WordBytes
                 l == Len(host.data)
      <4>2. a \in Nat /\ l \in Nat /\ Taken' = a + (l + 1) /\ Taken = a + l
        BY <4>1
      <4> HIDE DEF a, l
      <4>3. QED  BY <4>2
    <3>6. Taken + 1 <= MaxWord * WordBytes
      <4>1. Block /\ InBlock
        BY <3>2 DEF Waits, Together, InBlock
      <4>2. ctrl.addr \in Nat /\ ctrl.addr + 1 <= Blocks /\ Given <= BlockBytes /\ Given \in Int
        BY <3>2, <4>1 DEF CtrlRecord, Given, Block, Waits, Together
      <4>3. Taken + 1 = ctrl.addr * BlockBytes + Given
        BY <3>2, <4>1 DEF Block
      <4>4. (ctrl.addr + 1) * BlockBytes = ctrl.addr * BlockBytes + BlockBytes
            /\ ctrl.addr * BlockBytes \in Nat
        <5>1. ctrl.addr \in Nat /\ BlockBytes \in Nat
          BY <4>2
        <5>2. QED  BY <5>1, NextMultiple
      <4>5. (ctrl.addr + 1) * BlockBytes <= Blocks * BlockBytes
        <5>1. ctrl.addr + 1 \in Nat /\ Blocks \in Nat /\ BlockBytes \in Nat
          BY <4>2
        <5>2. QED  BY <4>2, <5>1, MoreMultiple
      <4>6. QED  BY <4>2, <4>3, <4>4, <4>5, InTheCard
    <3>7. \A b \in 1 .. Len(host'.data) : host'.data[b] = host'.n * WordBytes + b - 1
      <4>1. \A b \in 1 .. Len(host.data) : host.data[b] = host.n * WordBytes + b - 1
        BY DEF HostShape
      <4>2. ctrl.data = host.n * WordBytes + (Len(host.data) + 1) - 1
        BY <3>2 DEF Taken
      <4>3. QED  BY <3>3, <3>4, <4>1, <4>2
    <3>8. HostShape'
      BY <3>2, <3>3, <3>4, <3>5, <3>6, <3>7 DEF HostShape
    <3>9. QED  BY <1>4, <3>2, <3>4, <3>5, <3>8 DEF Takes, Written
  <2>3. CASE ~(host.k = 0 /\ ~ctrl.busy) /\ ~ctrl.hndShk
    BY <1>2, <1>4, <2>3 DEF HostRead0
  <2>4. QED  BY <2>1, <2>2, <2>3
<1>5. CASE HostRead1 /\ UNCHANGED ram
  <2>1. CASE ctrl.hndShk
    BY <1>2, <1>5, <2>1 DEF HostRead1
  <2>2. CASE ~ctrl.hndShk
    <3>1. host.st = "READ_1" /\ Len(host.data) = host.k + 1
      BY <1>5 DEF HostRead1, HostShape
    <3>2. /\ host'.n = host.n /\ host'.data = host.data /\ host' \in HostRecord /\ ~HostShk'
          /\ \/ host.k = WordBytes - 1 /\ host'.st = "WRITE" /\ host'.k = 0
             \/ host.k # WordBytes - 1 /\ host'.st = "READ_0" /\ host'.k = host.k + 1
      <4>1. CASE host.k = WordBytes - 1
        <5>1. host' = [host EXCEPT !.st = "WRITE", !.k = 0] /\ 0 \in 0 .. WordBytes - 1
          BY <1>5, <2>2, <4>1 DEF HostRead1
        <5>2. QED  BY <4>1, <5>1 DEF HostRecord
      <4>2. CASE host.k # WordBytes - 1
        <5>1. host' = [host EXCEPT !.st = "READ_0", !.k = host.k + 1]
          BY <1>5, <2>2, <4>2 DEF HostRead1
        <5>2. host.k + 1 \in 0 .. WordBytes - 1
          BY <4>2 DEF HostRecord
        <5>3. QED  BY <4>2, <5>1, <5>2 DEF HostRecord
      <4>3. QED  BY <4>1, <4>2
    <3>3. Taken' = Taken
      BY <3>2 DEF Taken
    <3>4. HostShape'
      <4>1. \A b \in 1 .. Len(host'.data) : host'.data[b] = host'.n * WordBytes + b - 1
        BY <3>2 DEF HostShape
      <4>2. Len(host'.data) = host.k + 1 /\ Taken' <= MaxWord * WordBytes
        BY <3>1, <3>2, <3>3 DEF HostShape
      <4>3. CASE host'.st = "WRITE"
        BY <3>2, <4>1, <4>2, <4>3 DEF HostShape
      <4>4. CASE host'.st = "READ_0"
        BY <3>2, <4>1, <4>2, <4>4 DEF HostShape
      <4>5. QED  BY <3>2, <4>3, <4>4
    <3>5. QED  BY <1>5, <2>2, <3>2, <3>3, <3>4 DEF Still, Written
  <2>3. QED  BY <2>1, <2>2
<1>6. CASE HostResets /\ UNCHANGED ram
  BY <1>2, <1>3, <1>6 DEF HostResets, HostRecord
<1>7. CASE HostReadBlock /\ UNCHANGED ram
  BY <1>2, <1>3, <1>7 DEF HostReadBlock, HostRecord
<1>8. CASE HostWait /\ UNCHANGED ram
  BY <1>2, <1>8 DEF HostWait
<1>9. CASE HostWrite(ack) /\ ~ack
  BY <1>2, <1>9 DEF HostWrite
<1>10. QED  BY <1>1, <1>4, <1>5, <1>6, <1>7, <1>8, <1>9 DEF Host
-----------------------------------------------------------------------------
(* The controller: the byte it gives is the one the host has not had, and  *)
(* the next block it reads is the one the host is at.                      *)
LEMMA GiveType ==
  ASSUME ctrl \in CtrlRecord
  PROVE  /\ ctrl.addr \in Nat /\ ctrl.addr * BlockBytes \in Nat /\ ctrl.byteCnt \in Nat
         /\ ctrl.byteCnt <= BlockBytes + 3
         /\ ctrl.addr * BlockBytes + BlockBytes <= MaxWord * WordBytes
         /\ (ctrl.addr + 1) * BlockBytes = ctrl.addr * BlockBytes + BlockBytes
<1>1. ctrl.addr \in Nat /\ BlockBytes \in Nat /\ ctrl.addr + 1 <= Blocks /\ Blocks \in Nat
  BY SizesAreNat DEF CtrlRecord
<1>2. (ctrl.addr + 1) * BlockBytes = ctrl.addr * BlockBytes + BlockBytes /\ ctrl.addr * BlockBytes \in Nat
  BY <1>1, NextMultiple
<1>3. (ctrl.addr + 1) * BlockBytes <= Blocks * BlockBytes
  <2>1. ctrl.addr + 1 \in Nat
    BY <1>1
  <2>2. QED  BY <1>1, <2>1, MoreMultiple
<1>4. QED  BY <1>1, <1>2, <1>3, InTheCard, SizesAreNat DEF CtrlRecord

LEMMA Handshake ==
  ASSUME SdInv, ctrl.st # "START_INIT", ctrl.hndShk \/ HostShk, Still \/ Takes,
         ctrl' = [ctrl EXCEPT !.hndShk = @ /\ ~HostShk]
  PROVE  ctrl' \in CtrlRecord /\ ctrl'.st # "START_INIT" /\ Together'
<1> USE DEF SdInv, SdTypes
<1>1. ctrl.st = "RD_BLK" /\ ctrl.rtnData /\ InBlock /\ Block /\ ctrl.busy
  BY DEF Together, InBlock
<1>2. /\ ctrl' \in CtrlRecord /\ ctrl'.st = ctrl.st /\ ctrl'.rtn = ctrl.rtn
      /\ ctrl'.byteCnt = ctrl.byteCnt /\ ctrl'.rtnData = ctrl.rtnData /\ ctrl'.addr = ctrl.addr
      /\ ctrl'.data = ctrl.data /\ ctrl'.busy = ctrl.busy
      /\ (ctrl'.hndShk <=> ctrl.hndShk /\ ~HostShk)
  BY DEF CtrlRecord
<1>3. InBlock' /\ Given' = Given
  BY <1>1, <1>2 DEF InBlock, Given
<1>4. Block'
  <2>1. CASE Takes
    <3>1. Waits /\ ~Waits' /\ Taken' = Taken + 1
      BY <1>2, <2>1 DEF Takes, Waits
    <3>2. Taken + 1 = ctrl.addr * BlockBytes + Given
      BY <1>1, <3>1 DEF Block
    <3>3. Taken' \in Nat
      BY <3>1, TakenType
    <3>4. QED  BY <1>1, <1>2, <1>3, <3>1, <3>2, <3>3 DEF Block
  <2>2. CASE Still
    <3>1. (Waits' <=> Waits) /\ Taken' = Taken
      BY <1>2, <2>2 DEF Still, Waits
    <3>2. QED  BY <1>1, <1>2, <1>3, <3>1 DEF Block
  <2>3. QED  BY <2>1, <2>2
<1>5. QED  BY <1>1, <1>2, <1>3, <1>4 DEF Together

(* Within a block, when neither side shakes hands.                         *)
LEMMA BlockKeeps ==
  ASSUME SdInv, InBlock, ~ctrl.hndShk, ~HostShk, Taken' = Taken, ~HostShk', InTransfer \/ ReadBlock
  PROVE  ctrl' \in CtrlRecord /\ ctrl'.st # "START_INIT" /\ Together'
<1> USE DEF SdInv, SdTypes
<1>1. /\ ctrl.st # "START_INIT" /\ ~Waits /\ Block /\ Taken \in Nat /\ Taken = ctrl.addr * BlockBytes + Given
      /\ (ctrl.rtnData <=> ctrl.byteCnt \in 2 .. BlockBytes + 1)
      /\ (ctrl.st = "TRANSFER" => ctrl.rtn = "RD_BLK")
  <2>1. Block /\ ~Waits /\ Taken \in Nat /\ ctrl.st # "START_INIT"
    BY TakenType DEF Together, InBlock, Waits
  <2>2. Given \in Int /\ ctrl.addr * BlockBytes \in Nat
    BY GiveType, SizesAreNat DEF Given
  <2>3. QED  BY <2>1, <2>2 DEF Block, InBlock
<1>2. CASE InTransfer
  <2>1. ctrl.st = "TRANSFER" /\ ctrl.rtn = "RD_BLK"
    BY <1>1, <1>2 DEF InTransfer
  <2>2. CASE ctrl' = [ctrl EXCEPT !.busy = TRUE]
    <3>1. /\ ctrl' \in CtrlRecord /\ ctrl'.st = ctrl.st /\ ctrl'.rtn = ctrl.rtn /\ ctrl'.hndShk = ctrl.hndShk
          /\ ctrl'.byteCnt = ctrl.byteCnt /\ ctrl'.rtnData = ctrl.rtnData /\ ctrl'.addr = ctrl.addr
          /\ ctrl'.busy
      BY <2>2 DEF CtrlRecord
    <3>2. Given' = Given /\ InBlock' /\ ~Waits'
      BY <2>1, <3>1 DEF Given, InBlock, Waits
    <3>3. Block'
      BY <1>1, <3>1, <3>2 DEF Block
    <3>4. QED  BY <2>1, <3>1, <3>2, <3>3 DEF Together
  <2>3. CASE ctrl.rtnData /\ EndTransfer
    <3> DEFINE d == ctrl.addr * BlockBytes + (BlockBytes + 1 - ctrl.byteCnt)
    <3>1. ctrl' = [ctrl EXCEPT !.st = "RD_BLK", !.busy = TRUE, !.hndShk = TRUE, !.data = d]
      BY <2>1, <2>3 DEF EndTransfer
    <3>2. ctrl.byteCnt \in 2 .. BlockBytes + 1 /\ Given = BlockBytes + 1 - ctrl.byteCnt /\ d = Taken
      BY <1>1, <2>1, <2>3 DEF Given
    <3>3. d \in 0 .. MaxWord * WordBytes - 1
      <4> DEFINE p == ctrl.addr * BlockBytes
      <4>1. p \in Nat /\ p + BlockBytes <= MaxWord * WordBytes /\ MaxWord * WordBytes \in Nat
            /\ BlockBytes \in Nat
        BY GiveType, SizesAreNat
      <4> HIDE DEF p
      <4>2. d = p + (BlockBytes + 1 - ctrl.byteCnt)
        BY DEF p
      <4>3. ctrl.byteCnt \in Int /\ ctrl.byteCnt >= 2 /\ ctrl.byteCnt <= BlockBytes + 1
        BY <3>2, <4>1
      <4> HIDE DEF d
      <4>4. QED  BY <4>1, <4>2, <4>3
    <3> HIDE DEF d
    <3>4. /\ ctrl' \in CtrlRecord /\ ctrl'.st = "RD_BLK" /\ ctrl'.hndShk /\ ctrl'.byteCnt = ctrl.byteCnt
          /\ ctrl'.rtnData /\ ctrl'.addr = ctrl.addr /\ ctrl'.busy /\ ctrl'.data = d
      BY <2>3, <3>1, <3>3 DEF CtrlRecord, CtrlStates
    <3>5. Given' = Given + 1 /\ InBlock' /\ Waits'
      BY <3>2, <3>4, SizesAreNat DEF Given, InBlock, Waits
    <3>6. Taken' + 1 = ctrl'.addr * BlockBytes + Given'
      <4> DEFINE p == ctrl.addr * BlockBytes
      <4>1. p \in Nat /\ Given \in Int /\ Taken = p + Given /\ Taken' = Taken
        BY <1>1, <3>2, GiveType, SizesAreNat
      <4>2. ctrl'.addr * BlockBytes = p
        BY <3>4
      <4> HIDE DEF p
      <4>3. QED  BY <3>5, <4>1, <4>2
    <3>7. Block'
      BY <1>1, <3>2, <3>4, <3>5, <3>6 DEF Block
    <3>8. QED  BY <3>4, <3>5, <3>7 DEF Together
  <2>4. CASE ~ctrl.rtnData /\ EndTransfer
    <3>1. PICK a \in Answers("RD_BLK") : ctrl' = [ctrl EXCEPT !.st = "RD_BLK", !.busy = TRUE, !.rx = a]
      BY <2>1, <2>4 DEF EndTransfer
    <3>2. a \in {"none", "start", "error"}
      BY <3>1 DEF Answers
    <3>3. /\ ctrl' \in CtrlRecord /\ ctrl'.st = "RD_BLK" /\ ctrl'.hndShk = ctrl.hndShk /\ ctrl'.busy
          /\ ctrl'.byteCnt = ctrl.byteCnt /\ ctrl'.rtnData = ctrl.rtnData /\ ctrl'.addr = ctrl.addr
      BY <3>1, <3>2 DEF CtrlRecord, CtrlStates
    <3>4. Given' = Given /\ InBlock' /\ ~Waits'
      BY <2>4, <3>3 DEF Given, InBlock, Waits
    <3>5. Block'
      BY <1>1, <3>3, <3>4 DEF Block
    <3>6. QED  BY <3>3, <3>4, <3>5 DEF Together
  <2>5. QED  BY <1>2, <2>2, <2>3, <2>4 DEF InTransfer
<1>3. CASE ReadBlock
  <2>1. ctrl.st = "RD_BLK"
    BY <1>3 DEF ReadBlock
  <2> DEFINE Goes(cnt) ==
        /\ ctrl' \in CtrlRecord /\ ctrl'.st = "TRANSFER" /\ ctrl'.rtn = "RD_BLK" /\ ctrl'.hndShk = ctrl.hndShk
        /\ ctrl'.byteCnt = cnt /\ (ctrl'.rtnData <=> cnt \in 2 .. BlockBytes + 1)
        /\ ctrl'.addr = ctrl.addr /\ ctrl'.busy
  <2>1a. ASSUME NEW cnt \in 0 .. BlockBytes + 3, cnt \notin 2 .. BlockBytes + 1,
                ctrl' = [Transfer("RD_BLK") EXCEPT !.byteCnt = cnt, !.rtnData = FALSE]
         PROVE  Goes(cnt)
    BY <2>1a, SizesAreNat DEF CtrlRecord, CtrlStates, Transfer
  <2>1b. ASSUME NEW cnt \in 2 .. BlockBytes + 1,
                ctrl' = [Transfer("RD_BLK") EXCEPT !.byteCnt = cnt, !.rtnData = TRUE]
         PROVE  Goes(cnt)
    <3>1. cnt \in 0 .. ReadSize
      BY SizesAreNat
    <3>2. QED  BY <2>1b, <3>1 DEF CtrlRecord, CtrlStates, Transfer
  <2>2. ASSUME NEW cnt \in Nat, Goes(cnt),
               Given = IF cnt \in 2 .. BlockBytes + 1 THEN BlockBytes + 1 - cnt
                       ELSE IF cnt >= BlockBytes + 2 THEN 0 ELSE BlockBytes
        PROVE  ctrl' \in CtrlRecord /\ ctrl'.st # "START_INIT" /\ Together'
    <3>1. Given' = Given /\ InBlock' /\ ~Waits'
      BY <2>2 DEF Given, InBlock, Waits
    <3>2. Block'
      BY <1>1, <2>2, <3>1 DEF Block
    <3>3. QED  BY <2>2, <3>1, <3>2 DEF Together
  <2> HIDE DEF Goes
  <2>3. ctrl.byteCnt \in Nat /\ ctrl.byteCnt <= BlockBytes + 3 /\ BlockBytes \in Nat \ {0}
        /\ ReadSize = BlockBytes + 3
    BY GiveType, SizesAreNat
  <2>3a. /\ BlockBytes + 2 \in 0 .. BlockBytes + 3 /\ BlockBytes + 2 \notin 2 .. BlockBytes + 1
         /\ BlockBytes + 1 \in 2 .. BlockBytes + 1
    BY <2>3
  <2>4. CASE ctrl.byteCnt = ReadSize
    <3>1. ctrl' = [Transfer("RD_BLK") EXCEPT !.byteCnt = BlockBytes + 2, !.rtnData = FALSE]
      <4>1. ReadSize - 1 = BlockBytes + 2
        BY <2>3
      <4>2. QED  BY <1>3, <2>4, <4>1 DEF ReadBlock, Receive
    <3>2. Given = 0
      BY <1>1, <2>3, <2>4 DEF Given
    <3>3. Goes(BlockBytes + 2)
      BY <2>1a, <2>3a, <3>1
    <3>4. QED  BY <2>2, <2>3, <3>2, <3>3
  <2>5. CASE ctrl.byteCnt = ReadSize - 1
    <3>1. ~ctrl.rtnData /\ Given = 0
      BY <1>1, <2>3, <2>5 DEF Given
    <3>2. CASE ctrl' = [Transfer("RD_BLK") EXCEPT !.byteCnt = BlockBytes + 2, !.rtnData = FALSE]
      <4>1. Goes(BlockBytes + 2)
        BY <2>1a, <2>3a, <3>2
      <4>2. QED  BY <2>2, <2>3, <3>1, <4>1
    <3>3. CASE ctrl' = [Transfer("RD_BLK") EXCEPT !.byteCnt = BlockBytes + 1, !.rtnData = TRUE]
      <4>1. Goes(BlockBytes + 1)
        BY <2>1b, <2>3a, <3>3
      <4>2. QED  BY <2>2, <2>3, <3>1, <4>1
    <3>4. CASE ctrl' = Proceed("REPORT_ERROR")
      <4>1. /\ ctrl' \in CtrlRecord /\ ctrl'.st = "REPORT_ERROR" /\ ~ctrl'.hndShk
            /\ ~ctrl'.rtnData /\ ctrl'.addr = ctrl.addr /\ ctrl'.busy
        BY <3>1, <3>4 DEF CtrlRecord, CtrlStates, Proceed
      <4>2. Taken' = ctrl.addr * BlockBytes /\ ctrl.addr \in Nat
        BY <1>1, <3>1, GiveType
      <4>3. Between' /\ ~InBlock'
        BY <4>1, <4>2 DEF Between, InBlock
      <4>4. QED  BY <4>1, <4>3 DEF Together
    <3>5. ReadSize - 1 = BlockBytes + 2 /\ ReadSize - 2 = BlockBytes + 1 /\ ctrl.byteCnt # ReadSize
      BY <2>3, <2>5
    <3>6. QED  BY <1>3, <2>5, <3>2, <3>3, <3>4, <3>5 DEF ReadBlock, Receive
  <2>6. CASE ctrl.byteCnt > 0 /\ ctrl.byteCnt < ReadSize - 1
    <3> DEFINE c == ctrl.byteCnt - 1
    <3>1. /\ c \in Nat /\ c <= BlockBytes /\ ctrl.byteCnt # ReadSize /\ ctrl.byteCnt # ReadSize - 1
          /\ ctrl.byteCnt = c + 1
      BY <2>3, <2>6
    <3>2. ctrl' = [Transfer("RD_BLK") EXCEPT !.byteCnt = c, !.rtnData = ctrl.byteCnt >= 3]
      BY <1>3, <2>6, <3>1 DEF ReadBlock, Receive
    <3>3. Given = IF c \in 2 .. BlockBytes + 1 THEN BlockBytes + 1 - c
                  ELSE IF c >= BlockBytes + 2 THEN 0 ELSE BlockBytes
      <4> HIDE DEF c
      <4>1. CASE c = 0
        BY <1>1, <2>1, <2>3, <3>1, <4>1 DEF Given
      <4>2. CASE c # 0
        BY <1>1, <2>1, <2>3, <3>1, <4>2 DEF Given
      <4>3. QED  BY <4>1, <4>2
    <3>4. CASE c >= 2
      <4>1. (ctrl.byteCnt >= 3) = TRUE
        BY <2>3, <3>1, <3>4
      <4>2. ctrl' = [Transfer("RD_BLK") EXCEPT !.byteCnt = c, !.rtnData = TRUE]
        BY <3>2, <4>1
      <4>3. c \in 2 .. BlockBytes + 1
        BY <2>3, <3>1, <3>4
      <4>4. Goes(c)
        BY <2>1b, <4>2, <4>3
      <4>5. QED  BY <2>2, <3>1, <3>3, <4>4
    <3>5. CASE ~(c >= 2)
      <4>1. (ctrl.byteCnt >= 3) = FALSE
        BY <2>3, <3>1, <3>5
      <4>2. ctrl' = [Transfer("RD_BLK") EXCEPT !.byteCnt = c, !.rtnData = FALSE]
        BY <3>2, <4>1
      <4>3. c \in 0 .. BlockBytes + 3 /\ c \notin 2 .. BlockBytes + 1
        BY <2>3, <3>1, <3>5
      <4>4. Goes(c)
        BY <2>1a, <4>2, <4>3
      <4>5. QED  BY <2>2, <3>1, <3>3, <4>4
    <3>6. QED  BY <3>4, <3>5
  <2>7. CASE ctrl.byteCnt = 0
    <3>1. ctrl' = [Transfer("WAIT_FOR_HOST_RW") EXCEPT !.rtnData = FALSE]
      <4>1. 0 # ReadSize /\ 0 # ReadSize - 1 /\ ~(0 > 0)
        BY <2>3
      <4>2. QED  BY <1>3, <2>7, <4>1 DEF ReadBlock
    <3>2. /\ ctrl' \in CtrlRecord /\ ctrl'.st = "TRANSFER" /\ ctrl'.rtn = "WAIT_FOR_HOST_RW" /\ ~ctrl'.hndShk
          /\ ~ctrl'.rtnData /\ ctrl'.addr = ctrl.addr /\ ctrl'.busy
      BY <3>1 DEF CtrlRecord, CtrlStates, Transfer
    <3>3. Given = BlockBytes
      BY <1>1, <2>3, <2>7 DEF Given
    <3>4. Taken' = (ctrl.addr + 1) * BlockBytes /\ ctrl.addr + 1 \in Nat
      BY <1>1, <3>3, GiveType
    <3>5. Between' /\ ~InBlock'
      BY <3>2, <3>4 DEF Between, InBlock
    <3>6. QED  BY <3>2, <3>5 DEF Together
  <2>8. QED  BY <2>3, <2>4, <2>5, <2>6, <2>7
<1>4. QED  BY <1>2, <1>3

(* Between blocks: the address goes to where the host is.                  *)
LEMMA NextBlock ==
  ASSUME SdInv, Between, ctrl.st = "WAIT_FOR_HOST_RW", Rd
  PROVE  LET a == IF Continue THEN ctrl.addr + 1 ELSE host.n \div BlockWords
         IN  a \in 0 .. Blocks - 1 /\ Taken = a * BlockBytes
<1> USE DEF SdInv, SdTypes
<1>1. host.st = "READBLOCK" /\ host.n < MaxWord /\ host.n \in Nat /\ Len(host.data) = 0
  BY TakenType DEF Rd, HostShape
<1>2. PICK m \in Nat : Taken = m * BlockBytes /\ ((m = 0 /\ ctrl.addr = 0) \/ m = ctrl.addr + 1)
  BY DEF Between
<1>3. host.n * WordBytes = m * BlockBytes
  <2>1. Taken = host.n * WordBytes + 0
    BY <1>1 DEF Taken
  <2>2. host.n * WordBytes \in Nat
    BY TakenType
  <2>3. QED  BY <1>2, <2>1, <2>2
<1>4. host.n = m * BlockWords /\ host.n \div BlockWords = m
  BY <1>1, <1>3, WholeWords, WordsOfBlocks
<1>5. m < Blocks
  <2>1. m * BlockWords < Blocks * BlockWords
    BY <1>1, <1>4 DEF MaxWord
  <2>2. QED  BY <2>1, LessMultiple, SizesAreNat
<1>6. (Continue <=> m # 0) /\ m \in 0 .. Blocks - 1
  BY <1>4, <1>5, SizesAreNat DEF Continue
<1>7. QED  BY <1>2, <1>4, <1>6

LEMMA BetweenKeeps ==
  ASSUME SdInv, ctrl.st # "START_INIT", ~InBlock, ~ctrl.hndShk, ~HostShk, Taken' = Taken, ~HostShk', Operate
  PROVE  ctrl' \in CtrlRecord /\ ctrl'.st # "START_INIT" /\ Together'
<1> USE DEF SdInv, SdTypes
<1>1. Between /\ ~ctrl.rtnData
      /\ (ctrl.st = "TRANSFER" => ctrl.rtn \notin {"START_INIT", "TRANSFER", "REPORT_ERROR", "RD_BLK"})
  BY DEF Together, Between, InBlock
<1> DEFINE Goes ==
      /\ ctrl' \in CtrlRecord /\ ~ctrl'.rtnData /\ ctrl'.addr = ctrl.addr /\ ~ctrl'.hndShk
      /\ ctrl'.st \notin {"START_INIT", "RD_BLK"} /\ (ctrl.st = "REPORT_ERROR" => ctrl'.st = "REPORT_ERROR")
      /\ ctrl'.busy \/ ctrl'.st \in {"WAIT_FOR_HOST_RW", "REPORT_ERROR"}
      /\ ctrl'.st = "TRANSFER" => ctrl'.rtn \notin {"START_INIT", "TRANSFER", "REPORT_ERROR", "RD_BLK"}
<1>2. ASSUME Goes PROVE ctrl' \in CtrlRecord /\ ctrl'.st # "START_INIT" /\ Together'
  <2>1. ~InBlock' /\ Between'
    BY <1>1, <1>2 DEF InBlock, Between
  <2>2. QED  BY <1>2, <2>1 DEF Together
<1>3. CASE InTransfer
  <2>1. ctrl.st = "TRANSFER"
    BY <1>3 DEF InTransfer
  <2>2. CASE ctrl' = [ctrl EXCEPT !.busy = TRUE]
    BY <1>1, <1>2, <2>1, <2>2 DEF CtrlRecord
  <2>3. CASE EndTransfer
    <3>1. PICK a \in Answers(ctrl.rtn) : ctrl' = [ctrl EXCEPT !.st = ctrl.rtn, !.busy = TRUE, !.rx = a]
      BY <1>1, <2>3 DEF EndTransfer
    <3>2. a \in {"none", "start", "idle", "active", "error"}
      BY <3>1 DEF Answers, CtrlRecord
    <3>3. Goes
      BY <1>1, <2>1, <3>1, <3>2 DEF CtrlRecord
    <3>4. QED  BY <1>2, <3>3
  <2>4. QED  BY <1>3, <2>2, <2>3 DEF InTransfer
<1>4. CASE Initialise
  <2>1. \/ \E s \in {"CHK_CMD0_RESPONSE", "GET_CMD8_RESPONSE", "SEND_CMD55", "SEND_CMD41",
                     "CHK_ACMD41_RESPONSE"} :
             ctrl' = Transfer(s)
        \/ \E s \in {"SEND_CMD8", "SEND_CMD0", "WAIT_FOR_HOST_RW", "SEND_CMD55", "REPORT_ERROR"} :
             ctrl' = Proceed(s)
    BY <1>4 DEF Initialise
  <2>2. ctrl.st # "REPORT_ERROR"
    BY <1>4 DEF Initialise, InBlock
  <2>3. ASSUME NEW s \in {"CHK_CMD0_RESPONSE", "GET_CMD8_RESPONSE", "SEND_CMD55", "SEND_CMD41",
                          "CHK_ACMD41_RESPONSE"},
               ctrl' = Transfer(s)
        PROVE  Goes
    BY <1>1, <2>2, <2>3 DEF Transfer, CtrlRecord, CtrlStates
  <2>4. ASSUME NEW s \in {"SEND_CMD8", "SEND_CMD0", "WAIT_FOR_HOST_RW", "SEND_CMD55", "REPORT_ERROR"},
               ctrl' = Proceed(s)
        PROVE  Goes
    BY <1>1, <2>2, <2>4 DEF Proceed, CtrlRecord, CtrlStates
  <2>5. QED  BY <1>2, <2>1, <2>3, <2>4
<1>5. CASE WaitForHost
  <2>1. CASE ~Rd
    BY <1>1, <1>2, <1>5, <2>1 DEF WaitForHost, CtrlRecord
  <2>2. CASE Rd
    <3> DEFINE a == IF Continue THEN ctrl.addr + 1 ELSE host.n \div BlockWords
    <3>1. a \in 0 .. Blocks - 1 /\ Taken = a * BlockBytes /\ Taken \in Nat
      BY <1>1, <1>5, <2>2, NextBlock, TakenType DEF WaitForHost
    <3>2. ctrl' = [Transfer("RD_BLK") EXCEPT !.byteCnt = ReadSize, !.addr = a]
      <4>1. CASE Continue
        BY <1>5, <2>2, <4>1 DEF WaitForHost, Transfer
      <4>2. CASE ~Continue
        BY <1>5, <2>2, <4>2 DEF WaitForHost
      <4>3. QED  BY <4>1, <4>2
    <3> HIDE DEF a
    <3>3. ReadSize = BlockBytes + 3 /\ ReadSize \in 0 .. ReadSize /\ BlockBytes \in Nat \ {0}
      BY SizesAreNat
    <3>4. /\ ctrl' \in CtrlRecord /\ ctrl'.st = "TRANSFER" /\ ctrl'.rtn = "RD_BLK" /\ ~ctrl'.hndShk
          /\ ctrl'.byteCnt = ReadSize /\ ~ctrl'.rtnData /\ ctrl'.addr = a /\ ctrl'.busy
      BY <1>1, <3>1, <3>2, <3>3 DEF CtrlRecord, CtrlStates, Transfer
    <3>5. Given' = 0 /\ InBlock' /\ ~Waits'
      BY <3>3, <3>4 DEF Given, InBlock, Waits
    <3>6. Block'
      BY <3>1, <3>3, <3>4, <3>5 DEF Block
    <3>7. QED  BY <3>4, <3>5, <3>6 DEF Together
  <2>3. QED  BY <2>1, <2>2
<1>6. CASE ReportError
  BY <1>1, <1>2, <1>6 DEF ReportError, CtrlRecord
<1>7. CASE ReadBlock
  BY <1>7 DEF ReadBlock, InBlock
<1>8. QED  BY <1>3, <1>4, <1>5, <1>6, <1>7 DEF Operate

LEMMA CtrlKeeps ==
  ASSUME SdInv, ctrl.st # "START_INIT", Controller, Still \/ Takes
  PROVE  ctrl' \in CtrlRecord /\ ctrl'.st # "START_INIT" /\ Together'
<1>1. CASE ctrl.hndShk \/ HostShk
  BY <1>1, Handshake DEF Controller
<1>2. CASE ~ctrl.hndShk /\ ~HostShk
  <2>1. Operate /\ Taken' = Taken /\ ~HostShk'
    BY <1>2 DEF Controller, Still, Takes, Waits
  <2>2. CASE InBlock
    <3>1. InTransfer \/ ReadBlock
      BY <2>1, <2>2 DEF Operate, InBlock, Initialise, WaitForHost, ReportError
    <3>2. QED  BY <1>2, <2>1, <2>2, <3>1, BlockKeeps
  <2>3. QED  BY <1>2, <2>1, <2>2, BetweenKeeps
<1>3. QED  BY <1>1, <1>2
-----------------------------------------------------------------------------
(* The first cycle, and a reset.                                           *)
LEMMA StartKeeps ==
  ASSUME SdInv, ctrl.st = "START_INIT", Tick
  PROVE  SdInv'
<1> USE DEF SdInv, SdTypes
<1>1. host = HostReset /\ Operate
  BY DEF Tick, Controller
<1>2. ctrl' = [Transfer("SEND_CMD0") EXCEPT !.error = FALSE, !.hndShk = FALSE, !.addr = 0, !.rtnData = FALSE]
  BY <1>1 DEF Operate, InTransfer, Initialise, WaitForHost, ReadBlock, ReportError
<1>3. /\ ctrl' \in CtrlRecord /\ ctrl'.st = "TRANSFER" /\ ctrl'.rtn = "SEND_CMD0" /\ ~ctrl'.hndShk
      /\ ~ctrl'.rtnData /\ ctrl'.addr = 0 /\ ctrl'.busy
  <2>1. 0 \in 0 .. Blocks - 1
    BY SizesAreNat
  <2>2. QED  BY <1>2, <2>1 DEF CtrlRecord, CtrlStates, Transfer
<1>4. ram' = ram /\ HostResets
  BY <1>1 DEF Tick, Host, HostReset, HostWrite, HostReadBlock, HostRead0, HostRead1, HostWait
<1>5. /\ host'.n = 0 /\ host'.k = 0 /\ host'.data = <<>> /\ host' \in HostRecord
      /\ host'.st \in {"RESET", "ERROR", "READBLOCK"}
  BY <1>1, <1>4 DEF HostResets, HostReset, HostRecord
<1>6. Len(host'.data) = 0 /\ Taken' = 0
  BY <1>5, SizesAreNat DEF Taken
<1>7. HostShape'
  <2>1. host'.n = 0 * BlockWords
    BY <1>5, SizesAreNat
  <2>2. \E m \in Nat : host'.n = m * BlockWords
    BY <2>1
  <2>3. \A b \in 1 .. Len(host'.data) : host'.data[b] = host'.n * WordBytes + b - 1
    BY <1>6
  <2>4. Taken' <= MaxWord * WordBytes
    BY <1>6, SizesAreNat
  <2>5. QED  BY <1>5, <2>2, <2>3, <2>4 DEF HostShape
<1>8. Together'
  <2>1. Taken' = 0 * BlockBytes
    BY <1>6, SizesAreNat
  <2>2. Between'
    BY <1>3, <2>1 DEF Between
  <2>3. QED  BY <1>3, <1>5, <2>2 DEF Together, InBlock, HostShk
<1>9. Written'
  BY <1>5 DEF Written
<1>10. QED  BY <1>3, <1>4, <1>5, <1>7, <1>8, <1>9

LEMMA ResetShape ==
  ASSUME host = HostReset PROVE host \in HostRecord /\ HostShape /\ Written
<1>1. /\ host.st = "RESET" /\ host.n = 0 /\ host.k = 0 /\ host.data = <<>> /\ host \in HostRecord
      /\ Len(host.data) = 0
  BY SizesAreNat DEF HostReset, HostRecord
<1>2. Taken = 0 /\ Taken <= MaxWord * WordBytes
  BY <1>1, SizesAreNat DEF Taken
<1>3. \A b \in 1 .. Len(host.data) : host.data[b] = host.n * WordBytes + b - 1
  BY <1>1
<1>4. QED  BY <1>1, <1>2, <1>3 DEF HostShape, Written

LEMMA SdInvInit == Init => SdInv
<1> SUFFICES ASSUME Init PROVE SdInv
  OBVIOUS
<1>1. ctrl \in CtrlRecord /\ ctrl.st = "START_INIT" /\ ~ctrl.hndShk
  <2>1. 0 \in 0 .. Blocks - 1 /\ 0 \in 0 .. MaxWord * WordBytes - 1 /\ 0 \in 0 .. ReadSize
    BY SizesAreNat
  <2>2. (IF ColdStart THEN BOOLEAN ELSE {TRUE}) \subseteq BOOLEAN
    OBVIOUS
  <2>3. QED  BY <2>1, <2>2 DEF Init, CtrlRecord, CtrlStates
<1>2. QED  BY <1>1, ResetShape DEF Init, SdInv, SdTypes

LEMMA SdInvStep == SdInv /\ [Next]_vars => SdInv'
<1> SUFFICES ASSUME SdInv, [Next]_vars PROVE SdInv'
  OBVIOUS
<1>1. CASE Tick /\ ctrl.st # "START_INIT"
  <2>1. PICK ack \in BOOLEAN : Host(ack)
    BY <1>1 DEF Tick
  <2>2. ~ctrl.busy => Between
    BY <1>1 DEF SdInv, Together, InBlock
  <2>3. host' \in HostRecord /\ DOMAIN ram' = 0 .. RamSize - 1 /\ HostShape' /\ Written' /\ (Still \/ Takes)
    BY <1>1, <2>1, <2>2, HostKeeps
  <2>4. ctrl' \in CtrlRecord /\ ctrl'.st # "START_INIT" /\ Together'
    BY <1>1, <2>3, CtrlKeeps DEF Tick
  <2>5. QED  BY <2>3, <2>4 DEF SdInv, SdTypes
<1>2. CASE Tick /\ ctrl.st = "START_INIT"
  BY <1>2, StartKeeps
<1>3. CASE Reset
  <2>1. ctrl' \in CtrlRecord /\ ctrl'.st = "START_INIT" /\ ctrl'.busy /\ host' = HostReset /\ ram' = ram
    BY <1>3 DEF Reset, SdInv, SdTypes, CtrlRecord, CtrlStates
  <2>2. host' \in HostRecord /\ HostShape' /\ Written'
    <3>1. host'.n = 0 /\ host' \in HostRecord /\ host'.st = "RESET" /\ host'.k = 0 /\ host'.data = <<>>
      BY <2>1, SizesAreNat DEF HostReset, HostRecord
    <3>2. Len(host'.data) = 0 /\ Taken' = 0
      BY <3>1, SizesAreNat DEF Taken
    <3>3. Taken' <= MaxWord * WordBytes
      BY <3>2, SizesAreNat
    <3>4. \A b \in 1 .. Len(host'.data) : host'.data[b] = host'.n * WordBytes + b - 1
      BY <3>2
    <3>5. QED  BY <3>1, <3>3, <3>4 DEF HostShape, Written
  <2>3. QED  BY <2>1, <2>2 DEF SdInv, SdTypes
<1>4. CASE UNCHANGED vars
  <2>1. SdTypes' /\ HostShape' /\ Written' /\ (Together' <=> Together)
    BY <1>4 DEF vars, SdInv, SdTypes, HostShape, Written, Taken, Together, HostShk, InBlock, Block, Between,
                Given, Waits
  <2>2. QED  BY <1>4, <2>1 DEF vars, SdInv
<1>5. QED  BY <1>1, <1>2, <1>3, <1>4 DEF Next
-----------------------------------------------------------------------------
(* The invariant, in every state of every behaviour.                       *)
LEMMA SdInvTheorem == Spec => []SdInv
BY SdInvInit, SdInvStep, PTL DEF Spec

(* Every register of the two machines keeps to its range                   *)
(* (sdcard_init.sv, SDCard.vhd).                                           *)
THEOREM SdTypeTheorem == Spec => []TypeOK
<1>1. SdInv => TypeOK
  <2> SUFFICES ASSUME SdInv PROVE TypeOK
    OBVIOUS
  <2>1. Len(host.data) <= WordBytes
    <3>1. host.k \in Nat /\ host.k <= WordBytes - 1 /\ WordBytes \in Nat /\ Len(<<>>) = 0
      BY SizesAreNat DEF SdInv, SdTypes, HostRecord
    <3>2. QED  BY <3>1 DEF SdInv, HostShape
  <2>2. QED  BY <2>1 DEF TypeOK, SdInv, SdTypes, HostRecord, CtrlRecord
<1>2. QED  BY <1>1, SdInvTheorem, PTL

(* Every word written is that of the card at its place in the SDRAM, and   *)
(* the host leaves a block only at its end (sdcard_init.sv:117-308).       *)
THEOREM WordsInPlaceTheorem == Spec => []WordsInPlace
<1>1. SdInv => WordsInPlace
  <2> SUFFICES ASSUME SdInv PROVE WordsInPlace
    OBVIOUS
  <2>1. ASSUME host.st = "READBLOCK"
        PROVE  host.n % BlockWords = 0 /\ host.k = 0 /\ host.data = <<>>
    <3>1. PICK m \in Nat : host.n = m * BlockWords
      BY <2>1 DEF SdInv, HostShape
    <3>2. QED  BY <2>1, <3>1, WordsOfBlocks DEF SdInv, HostShape
  <2>2. QED  BY <2>1 DEF WordsInPlace, SdInv, Written
<1>2. QED  BY <1>1, SdInvTheorem, PTL

(* The handshake of each byte has four phases: a side moves only after the *)
(* other has (SDCard.vhd:91-94).                                           *)
THEOREM FourPhaseTheorem == Spec => FourPhase
<1> DEFINE A == \/ host' = HostReset
                \/ /\ ~ctrl.hndShk /\ ctrl'.hndShk => ~HostShk
                   /\ ctrl.hndShk /\ ~ctrl'.hndShk => HostShk
                   /\ ctrl.hndShk /\ ctrl'.hndShk => ctrl'.data = ctrl.data
                   /\ ~HostShk /\ HostShk' => ctrl.hndShk
                   /\ HostShk /\ ~HostShk' => ~ctrl.hndShk
<1>1. SdInv /\ [Next]_vars => [A]_vars
  <2> SUFFICES ASSUME SdInv, Next PROVE A
    OBVIOUS
  <2>1. CASE Reset
    BY <2>1 DEF Reset
  <2>2. CASE Tick /\ ctrl.st = "START_INIT"
    <3>1. host = HostReset /\ Operate
      BY <2>2 DEF SdInv, Tick, Controller
    <3>2. HostResets /\ ctrl' = [Transfer("SEND_CMD0") EXCEPT !.error = FALSE, !.hndShk = FALSE,
                                   !.addr = 0, !.rtnData = FALSE]
      BY <2>2, <3>1 DEF Operate, InTransfer, Initialise, WaitForHost, ReadBlock, ReportError,
                        Tick, Host, HostReset, HostWrite, HostReadBlock, HostRead0, HostRead1, HostWait
    <3>3. ctrl'.hndShk = FALSE /\ ~HostShk /\ ~HostShk'
      BY <3>1, <3>2 DEF SdInv, SdTypes, CtrlRecord, Transfer, HostReset, HostResets, HostShk
    <3>4. host' = HostReset \/ ~ctrl.hndShk
      BY <2>2, <3>1, <3>2 DEF SdInv, HostResets
    <3>5. QED  BY <3>3, <3>4
  <2>3. CASE Tick /\ ctrl.st # "START_INIT"
    <3>1. Still \/ Takes
      <4>1. PICK ack \in BOOLEAN : Host(ack)
        BY <2>3 DEF Tick
      <4>2. ~ctrl.busy => Between
        BY <2>3 DEF SdInv, Together, InBlock
      <4>3. QED  BY <2>3, <4>1, <4>2, HostKeeps
    <3>2. (~HostShk /\ HostShk' => ctrl.hndShk) /\ (HostShk /\ ~HostShk' => ~ctrl.hndShk)
      BY <3>1 DEF Still, Takes, Waits
    <3>3. CASE ctrl.hndShk \/ HostShk
      <4>1. (ctrl'.hndShk <=> ctrl.hndShk /\ ~HostShk) /\ ctrl'.data = ctrl.data
        BY <2>3, <3>3 DEF Tick, Controller, SdInv, SdTypes, CtrlRecord
      <4>2. QED  BY <3>2, <4>1
    <3>4. CASE ~ctrl.hndShk /\ ~HostShk
      BY <3>2, <3>4
    <3>5. QED  BY <3>3, <3>4
  <2>4. QED  BY <2>1, <2>2, <2>3 DEF Next
<1>2. QED  BY <1>1, SdInvTheorem, PTL DEF Spec, FourPhase
=============================================================================
