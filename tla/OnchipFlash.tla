---------------------------- MODULE OnchipFlash ----------------------------
(***************************************************************************)
(* The driver of the on-chip flash: writes of any place and length, split  *)
(* into erase pages and words, against a flash that carries commands out   *)
(* by itself, can fail, and can still be busy when a wait gives up.        *)
(*                                                                         *)
(* A byte has one bit, which an erase sets and a write can only clear.     *)
(* Addresses count bytes.  The erase status is taken to be FALSE from the  *)
(* command to its end.                                                     *)
(***************************************************************************)
EXTENDS Integers, FiniteSets, FiniteSetsExt

CONSTANTS
  Length, PAGE, ALIGN,    (* The device, an erase page, the word a write has.*)
  Sectors,                (* The sectors of system.h: enabled, start, end.   *)
  Unavailable,            (* Sectors the status register may not offer.      *)
  FlashName, FlashNames,  (* The device's name, and the names asked for.     *)
  Patterns,               (* Data to write, as a function of the address.    *)
  Lengths                 (* Of one call.                                    *)

ASSUME FlashAssumption ==
  /\ Length \in Nat \ {0} /\ PAGE \in Nat \ {0} /\ ALIGN \in Nat \ {0} /\ PAGE % ALIGN = 0
  /\ \A s \in Sectors :
       s.enabled => /\ s.start \in Nat /\ s.start % PAGE = 0 /\ s.end % PAGE = PAGE - 1
                    /\ s.start < s.end /\ s.end < Length
  /\ Cardinality(Sectors) <= 5 /\ Unavailable \subseteq Sectors /\ Lengths \subseteq Nat
  /\ Patterns \subseteq [0 .. Length - 1 -> 0 .. 1]

VARIABLES
  regions,                (* region_info: the sectors found at the start.    *)
  flash_fd,               (* The program holds the device.                   *)
  mem, hw,                (* The flash, and the command it carries out: none,*)
                          (* the erase of a page or the write of a word.     *)
  wpass, epass,           (* Status: the last write or erase has passed.     *)
  protected,              (* Control: writing and erasing is disabled.       *)
  flash_pc, offset, length,     (* The call under way and what is left of it.      *)
  whole,                  (* It erases as well: alt_onchip_flash_write.      *)
  data, cur, block_left,        (* The block under way: next address, bytes left.  *)
  ret,                    (* Its result so far, then that of the call.       *)
  asked                   (* History: the first address and length asked for.*)

flashHardware == <<mem, hw, wpass, epass>>
flashCall == <<offset, length, whole, data, cur, block_left, asked>>
flashVars == <<regions, flash_fd, protected, flash_pc, ret, flashHardware, flashCall>>

Bytes == 0 .. Length - 1
PageOf(a) == a - (a % PAGE)
PageBytes(p) == p .. p + PAGE - 1
None == [does |-> "nothing", at |-> 0, chunk |-> <<>>]

(* The status register: busy with a command, how the last ones ended, and  *)
(* the sectors it offers of those that are enabled.                        *)
BusyIdle == hw = None
WritePassed == wpass
ErasePassed == epass
Offered(gone) == {s \in Sectors : s.enabled /\ s \notin gone}

(* The control register: writing and erasing is allowed, or not, for all   *)
(* sectors at once; a page address besides it starts an erase, and the     *)
(* erase status falls with it.                                             *)
EnableWriteAndErase == protected' = FALSE
DisableWriteAndErase == protected' = TRUE
PageErase(p) == hw' = [does |-> "erase", at |-> p, chunk |-> <<>>] /\ epass' = FALSE

(* A region is a sector, and its blocks are pages.                         *)
Region(s) ==
  LET size == s.end - s.start + 1 IN
  [offset |-> s.start, region_size |-> size, number_of_blocks |-> size \div PAGE, block_size |-> PAGE]
Blocks(r) == {r.offset + n * r.block_size : n \in 0 .. r.number_of_blocks - 1}
InRegion(a) == \E r \in regions : \E b \in Blocks(r) : a \in b .. b + r.block_size - 1
MaxRegions == 8

(* altera_onchip_flash_init: the regions are the sectors that are there.   *)
FlashInit ==
  /\ \E gone \in SUBSET Unavailable : regions = {Region(s) : s \in Offered(gone)}
  /\ flash_fd = FALSE
  /\ mem = [a \in Bytes |-> 1] /\ hw = None /\ wpass = FALSE /\ epass = FALSE
  /\ protected = TRUE /\ flash_pc = "ready" /\ ret = 0
  /\ offset = 0 /\ length = 0 /\ whole = FALSE /\ data = [a \in Bytes |-> 1]
  /\ cur = 0 /\ block_left = 0 /\ asked = <<0, 0>>

FlashGoto(l) == flash_pc' = l
FlashAt(l) == flash_pc = l

(* The end of a call: its locals are gone.                                 *)
Blank == [a \in Bytes |-> 1]
FlashReturn(r) ==
  /\ ret' = r /\ FlashGoto("ready")
  /\ offset' = 0 /\ length' = 0 /\ whole' = FALSE /\ data' = Blank
  /\ cur' = 0 /\ block_left' = 0 /\ asked' = <<0, 0>>

(* The driver has no open and no close of its own: opening only finds the  *)
(* device by its name, and closing does nothing.                           *)
alt_flash_open_dev ==
  /\ FlashAt("ready") /\ \E name \in FlashNames : flash_fd' = (name = FlashName)
  /\ UNCHANGED <<regions, protected, flash_pc, ret, flashHardware, flashCall>>

alt_flash_close_dev == FlashAt("ready") /\ UNCHANGED flashVars

Called == FlashAt("ready") /\ UNCHANGED <<regions, flash_fd, protected, flashHardware>>

(* Calls from outside this device's range are refused before anything.     *)
OutOfRange(at, n) == at >= Length \/ n > Length - at

Ask(at, n, erases, d) ==
  /\ Called
  /\ IF OutOfRange(at, n) THEN FlashReturn(-14)
     ELSE /\ offset' = at /\ length' = n /\ whole' = erases /\ data' = d /\ asked' = <<at, n>>
          /\ cur' = at /\ block_left' = n /\ ret' = 0 /\ FlashGoto(IF erases THEN "look" ELSE "write_block")

alt_onchip_flash_write == \E at \in 0 .. Length, n \in Lengths, d \in Patterns : Ask(at, n, TRUE, d)
alt_onchip_flash_write_block == \E at \in 0 .. Length, n \in Lengths, d \in Patterns : Ask(at, n, FALSE, d)

(* alt_onchip_flash_read copies, and reports whether the read passed.      *)
(* A busy flash holds it back.                                             *)
alt_onchip_flash_read ==
  /\ Called
  /\ \E at \in 0 .. Length, n \in Lengths :
       IF OutOfRange(at, n) THEN ret' = -14 ELSE BusyIdle /\ ret' \in {0, -5}
  /\ UNCHANGED <<flash_pc, flashCall>>

alt_onchip_flash_get_info ==
  /\ Called
  /\ ret' = IF regions = {} THEN -12 ELSE IF Cardinality(regions) > MaxRegions THEN -14 ELSE 0
  /\ UNCHANGED <<flash_pc, flashCall>>

(* An erase on its own, of any address.                                    *)
alt_onchip_flash_erase_block ==
  /\ Called
  /\ \E at \in 0 .. Length :
       IF at >= Length THEN FlashReturn(-14)
       ELSE IF at % PAGE # 0 THEN FlashReturn(-22)
       ELSE /\ offset' = at /\ ret' = 0 /\ FlashGoto("erase")
            /\ UNCHANGED <<length, whole, data, cur, block_left, asked>>

(* A call goes through the function table of the device that is held: the  *)
(* interface to a flash of any kind.                                       *)
Through(call) == flash_fd /\ call

alt_write_flash == Through(alt_onchip_flash_write)
alt_read_flash == Through(alt_onchip_flash_read)
alt_get_flash_info == Through(alt_onchip_flash_get_info)
alt_erase_flash_block == Through(alt_onchip_flash_erase_block)
alt_write_flash_block == Through(alt_onchip_flash_write_block)

(* The page of a region that holds the next byte: what of the call falls   *)
(* into it is compared, and erased and written if it differs.  Without     *)
(* such a region the search comes to its end.  A busy flash holds the      *)
(* reads back.                                                             *)
DataToWrite == Min({PageOf(offset) + PAGE - offset, length})

Look ==
  /\ FlashAt("look")
  /\ IF InRegion(offset)
     THEN /\ BusyIdle /\ cur' = offset /\ block_left' = DataToWrite
          /\ FlashGoto(IF \E a \in offset .. offset + DataToWrite - 1 : mem[a] # data[a] THEN "erase" ELSE "next")
          /\ UNCHANGED <<ret, offset, length, whole, data, asked>>
     ELSE FlashReturn(0)
  /\ UNCHANGED <<regions, flash_fd, protected, flashHardware>>

NextPage ==
  /\ FlashAt("next")
  /\ IF length = DataToWrite \/ ret # 0 THEN FlashReturn(ret)
     ELSE /\ length' = length - DataToWrite /\ offset' = PageOf(offset) + PAGE /\ FlashGoto("look")
          /\ UNCHANGED <<ret, whole, data, cur, block_left, asked>>
  /\ UNCHANGED <<regions, flash_fd, protected, flashHardware>>

(* The three polls of the status register go on when they find what they   *)
(* wait for, and give up, after 0.7 seconds, only while they do not.       *)
poll_for_status_to_go_idle(ok) == ok = BusyIdle
poll_for_status_erase_passed(ok) == ok = ErasePassed
poll_for_status_write_passed(ok) == ok = WritePassed

(* What follows a block: the next page, or the end of a call of its own.   *)
BlockEnd(r) == IF whole THEN ret' = r /\ FlashGoto("next") /\ UNCHANGED flashCall ELSE FlashReturn(r)

(* Erase and write commands need the protection off.                       *)
EraseBegin ==
  /\ FlashAt("erase")
  /\ \/ /\ poll_for_status_to_go_idle(TRUE) /\ EnableWriteAndErase /\ PageErase(PageOf(offset))
        /\ FlashGoto("erasing") /\ UNCHANGED <<ret, flashCall>>
     \/ poll_for_status_to_go_idle(FALSE) /\ BlockEnd(-116) /\ UNCHANGED <<protected, epass, hw>>
  /\ UNCHANGED <<regions, flash_fd, mem, wpass>>

Erased == IF whole THEN ret' = 0 /\ FlashGoto("write_block") /\ UNCHANGED flashCall ELSE FlashReturn(0)

(* Two waits, for idle and for the status; only the second one's result    *)
(* is kept, and the protection is set in any case.                         *)
EraseEnd ==
  /\ FlashAt("erasing") /\ DisableWriteAndErase
  /\ \/ poll_for_status_erase_passed(TRUE) /\ Erased
     \/ poll_for_status_erase_passed(FALSE) /\ BlockEnd(-116)
  /\ UNCHANGED <<regions, flash_fd, flashHardware>>

WriteBegin ==
  /\ FlashAt("write_block")
  /\ \/ poll_for_status_to_go_idle(TRUE) /\ EnableWriteAndErase /\ FlashGoto("word")
          /\ UNCHANGED <<ret, flashCall>>
     \/ poll_for_status_to_go_idle(FALSE) /\ BlockEnd(-116) /\ UNCHANGED protected
  /\ UNCHANGED <<regions, flash_fd, flashHardware>>

WordOf(a) == a - (a % ALIGN)

(* Mutant: the word of an unaligned start is filled from the aligned       *)
(* address on.                                                             *)
ChunkUnpadded(a) == IF a < WordOf(cur) + block_left THEN data[cur + (a - WordOf(cur))] ELSE 1

(* A word of data, with ones before and after it that leave the flash as   *)
(* it is.                                                                  *)
Chunk(a) == IF a \in cur .. cur + block_left - 1 THEN data[a] ELSE 1

WriteWord ==
  /\ FlashAt("word")
  /\ IF block_left = 0 THEN DisableWriteAndErase /\ BlockEnd(ret) /\ UNCHANGED <<hw, wpass>>
     ELSE /\ hw' = [does |-> "write", at |-> WordOf(cur),
                    chunk |-> [a \in WordOf(cur) .. WordOf(cur) + ALIGN - 1 |-> Chunk(a)]]
          /\ wpass' = FALSE /\ FlashGoto("writing") /\ UNCHANGED <<protected, ret, flashCall>>
  /\ UNCHANGED <<regions, flash_fd, mem, epass>>

Written == Min({block_left, WordOf(cur) + ALIGN - cur})

WordEnd ==
  /\ FlashAt("writing")
  /\ \/ /\ poll_for_status_to_go_idle(TRUE) /\ poll_for_status_write_passed(TRUE)
        /\ FlashGoto("word") /\ cur' = cur + Written /\ block_left' = block_left - Written
        /\ UNCHANGED <<protected, ret, offset, length, whole, data, asked>>
     \/ /\ poll_for_status_to_go_idle(FALSE) \/ poll_for_status_write_passed(FALSE)
        /\ DisableWriteAndErase /\ BlockEnd(-116)
  /\ UNCHANGED <<regions, flash_fd, flashHardware>>

(* The flash ends its command, well or badly.                              *)
Completes ==
  /\ ~BusyIdle /\ hw' = None
  /\ \/ /\ hw.does = "erase" /\ epass' = TRUE /\ UNCHANGED wpass
        /\ mem' = [a \in Bytes |-> IF a \in PageBytes(hw.at) THEN 1 ELSE mem[a]]
     \/ /\ hw.does = "write" /\ wpass' = TRUE /\ UNCHANGED epass
        /\ mem' = [a \in Bytes |-> IF a \in DOMAIN hw.chunk THEN Min({mem[a], hw.chunk[a]}) ELSE mem[a]]
     \/ UNCHANGED <<mem, epass, wpass>>
  /\ UNCHANGED <<regions, flash_fd, protected, flash_pc, ret, flashCall>>

FlashNext ==
  \/ alt_flash_open_dev \/ alt_flash_close_dev
  \/ alt_write_flash \/ alt_read_flash \/ alt_get_flash_info \/ alt_erase_flash_block \/ alt_write_flash_block
  \/ Look \/ NextPage \/ EraseBegin \/ EraseEnd \/ WriteBegin \/ WriteWord \/ WordEnd \/ Completes

FlashSpec == FlashInit /\ [][FlashNext]_flashVars
-----------------------------------------------------------------------------
FlashTypeOK ==
  /\ regions \subseteq {Region(s) : s \in Sectors} /\ flash_fd \in BOOLEAN
  /\ mem \in [Bytes -> 0 .. 1] /\ hw.does \in {"nothing", "erase", "write"}
  /\ wpass \in BOOLEAN /\ epass \in BOOLEAN /\ protected \in BOOLEAN /\ whole \in BOOLEAN
  /\ flash_pc \in {"ready", "look", "next", "erase", "erasing", "write_block", "word", "writing"}
  /\ offset \in 0 .. Length /\ length \in Lengths \cup 0 .. Length /\ data \in Patterns \cup {Blank}
  /\ cur \in 0 .. Length /\ block_left \in Lengths \cup 0 .. Length /\ ret \in {0, -5, -12, -14, -22, -116}

Asked == asked[1] .. asked[1] + asked[2] - 1

Ends == ~FlashAt("ready") /\ flash_pc' = "ready"
Reports(r) == whole /\ ret' = r

(* A write that reports success has put every byte in its place, through   *)
(* whatever pages and unaligned words it was split into                    *)
(* (altera_onchip_flash.c:198-383), in a range whose sectors are there.    *)
(* And whichever of the waits gave up, a call that ends leaves the flash   *)
(* protected (altera_onchip_flash.c:165-181, 236-291).                     *)
WritesLand ==
  [][Ends => /\ protected'
             /\ Reports(0) /\ (\A a \in Asked : InRegion(a))
                  => \A a \in Asked : mem[a] = data[a]]_flashVars

=============================================================================
