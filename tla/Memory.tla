------------------------------- MODULE Memory -------------------------------
(***************************************************************************)
(* The processor's memory from the reset on: crt0.S clears .bss and        *)
(* alt_load copies the sections that have their place in the memory from   *)
(* the flash, word by word; then the program runs, and sbrk (alt_sbrk.c)   *)
(* hands the rest of the memory out, to it and to interrupt handlers.      *)
(*                                                                         *)
(* A reset can come at any time and leaves the memory as it was: also      *)
(* heap_end, which is a word of .rwdata.  The sections are a few words     *)
(* each, the heap is all that is left of the board's 32 KB.                *)
(***************************************************************************)
EXTENDS Board, Sequences, FiniteSets

CONSTANTS
  Rodata, Rwdata, Bss,   (* The words of the sections.                       *)
  Increments,            (* What sbrk is called with.                        *)
  MaxBlocks              (* Blocks handed out, at most.                      *)

(* The linker refuses a program whose sections do not fit.                 *)
ASSUME MemoryAssumption ==
  /\ {Rodata, Bss} \subseteq Nat /\ Rwdata \in Nat \ {0} /\ Increments \subseteq Nat /\ MaxBlocks \in Nat
  /\ 4 * (Rodata + Rwdata + Bss) <= ONCHIP_MEMORY2_0_REGION.span

(* linker.x: from the beginning of the memory .rodata, .rwdata, .bss and   *)
(* the heap, up to the memory's end, from where the stack comes down.      *)
WordsFrom(base, n) == {base + 4 * i : i \in 0 .. n - 1}
RodataStart    == ONCHIP_MEMORY2_0_REGION.base
RwdataStart    == RodataStart + 4 * Rodata
BssStart       == RwdataStart + 4 * Rwdata
alt_heap_start == BssStart + 4 * Bss
alt_heap_limit == ONCHIP_MEMORY2_0_REGION.base + ONCHIP_MEMORY2_0_REGION.span
HeapEnd        == RwdataStart
RamWords       == WordsFrom(RodataStart, Rodata + Rwdata + Bss)

(* The sections in the order alt_load takes them.  The handler of          *)
(* exceptions is linked to where it is loaded.                             *)
Section(from, to, n) == [from |-> from, to |-> to, end |-> to + 4 * n]
RodataLoad == ONCHIP_FLASH_0_DATA_REGION.base + 1024
RwdataLoad == RodataLoad + 4 * Rodata
Sections ==
  <<Section(RwdataLoad, RwdataStart, Rwdata),
    Section(ONCHIP_FLASH_0_DATA_REGION.base, ONCHIP_FLASH_0_DATA_REGION.base, 8),
    Section(RodataLoad, RodataStart, Rodata)>>

(* A word of the flash stands for its address, but for the one that        *)
(* heap_end begins with.                                                   *)
Image(word) == IF word = RwdataLoad THEN alt_heap_start ELSE word
Unknown == -1
-----------------------------------------------------------------------------
VARIABLES
  ram,             (* Its words below the heap.                              *)
  at, section,     (* "bss", "load" or "main"; which section is copied.      *)
  from, to,        (* The pointers of the loop.                              *)
  on, irqs_on,     (* alt_irq_init has been through; status.PIE.             *)
  sbrks,           (* Calls of sbrk under way: the program's, a handler's.   *)
  blocks, stored   (* History: what sbrk has returned, what the program has  *)
                   (* stored to, since the reset.                            *)

memoryVars == <<ram, at, section, from, to, on, irqs_on, sbrks, blocks, stored>>

Reset ==
  /\ at' = "bss" /\ section' = 0 /\ from' = 0 /\ to' = BssStart
  /\ on' = FALSE /\ irqs_on' = FALSE /\ sbrks' = <<>> /\ blocks' = {} /\ stored' = {}
  /\ UNCHANGED ram

EnterSection(n) ==
  /\ section' = n
  /\ IF n > Len(Sections) THEN at' = "main" /\ from' = 0 /\ to' = 0
     ELSE at' = "load" /\ from' = Sections[n].from /\ to' = Sections[n].to

ClearBss ==
  /\ at = "bss"
  /\ IF to < alt_heap_start
     THEN ram' = [ram EXCEPT ![to] = 0] /\ to' = to + 4 /\ UNCHANGED <<at, section, from>>
     ELSE EnterSection(1) /\ UNCHANGED ram
  /\ UNCHANGED <<on, irqs_on, sbrks, blocks, stored>>

(* Goes on while the pointer is not the end, whether below or above it.    *)
alt_load_section ==
  LET s == Sections[section] IN
  /\ at = "load"
  /\ IF s.to # s.from /\ to # s.end
     THEN ram' = [ram EXCEPT ![to] = Image(from)] /\ to' = to + 4 /\ from' = from + 4
       /\ UNCHANGED <<at, section>>
     ELSE EnterSection(section + 1) /\ UNCHANGED ram
  /\ UNCHANGED <<on, irqs_on, sbrks, blocks, stored>>

Boot == UNCHANGED <<at, section, from, to>>

SwitchOn ==
  /\ at = "main" /\ ~on /\ sbrks = <<>> /\ on' = TRUE /\ irqs_on' = TRUE
  /\ Boot /\ UNCHANGED <<ram, sbrks, blocks, stored>>

Store ==
  /\ at = "main"
  /\ \E a \in RamWords \ (WordsFrom(RodataStart, Rodata) \cup {HeapEnd}) :
       ram' = [ram EXCEPT ![a] = Unknown] /\ stored' = stored \cup {a}
  /\ Boot /\ UNCHANGED <<on, irqs_on, sbrks, blocks>>
-----------------------------------------------------------------------------
(* sbrk.  The last call of `sbrks' runs; a handler's ends with the         *)
(* interrupt.                                                              *)
Sbrk(who, incr) == [who |-> who, step |-> "disable", incr |-> incr, context |-> FALSE]
Newest == sbrks[Len(sbrks)]
AtSbrk(step) == sbrks # <<>> /\ Newest.step = step
GoesTo(step) == sbrks' = [sbrks EXCEPT ![Len(sbrks)].step = step]

SbrkCall ==
  /\ at = "main" /\ sbrks = <<>> /\ Cardinality(blocks) < MaxBlocks
       /\ \E incr \in Increments : sbrks' = <<Sbrk("program", incr)>>
  /\ Boot /\ UNCHANGED <<ram, on, irqs_on, blocks, stored>>

InterruptCalls ==
  /\ irqs_on /\ irqs_on' = FALSE /\ Cardinality(blocks) < MaxBlocks
  /\ \E incr \in Increments : sbrks' = Append(sbrks, Sbrk("handler", incr))
  /\ Boot /\ UNCHANGED <<ram, on, blocks, stored>>

(* Mutant: interrupts are left on.                                         *)
DisabledNot == irqs_on

Disabled == FALSE

DisableAll ==
  /\ AtSbrk("disable") /\ irqs_on' = Disabled
  /\ sbrks' = [sbrks EXCEPT ![Len(sbrks)] = [@ EXCEPT !.step = "align", !.context = irqs_on]]
  /\ Boot /\ UNCHANGED <<ram, on, blocks, stored>>

Align ==
  /\ AtSbrk("align") /\ ram' = [ram EXCEPT ![HeapEnd] = ((@ + 3) \div 4) * 4] /\ GoesTo("check")
  /\ Boot /\ UNCHANGED <<on, irqs_on, blocks, stored>>

CheckLimit ==
  /\ AtSbrk("check") /\ GoesTo(IF ram[HeapEnd] + Newest.incr > alt_heap_limit THEN "enable" ELSE "take")
  /\ Boot /\ UNCHANGED <<ram, on, irqs_on, blocks, stored>>

TakeBlock ==
  /\ AtSbrk("take") /\ blocks' = blocks \cup {[base |-> ram[HeapEnd], span |-> Newest.incr]}
  /\ ram' = [ram EXCEPT ![HeapEnd] = @ + Newest.incr] /\ GoesTo("enable")
  /\ Boot /\ UNCHANGED <<on, irqs_on, stored>>

EnableAll ==
  /\ AtSbrk("enable") /\ sbrks' = SubSeq(sbrks, 1, Len(sbrks) - 1)
  /\ irqs_on' = (Newest.context \/ Newest.who = "handler")
  /\ Boot /\ UNCHANGED <<ram, on, blocks, stored>>

ALT_SBRK == DisableAll \/ Align \/ CheckLimit \/ TakeBlock \/ EnableAll

(* When the power comes on, the memory holds anything.                     *)
MemoryInit ==
  /\ ram = [a \in RamWords |-> Unknown] /\ at = "bss" /\ section = 0 /\ from = 0 /\ to = BssStart
  /\ on = FALSE /\ irqs_on = FALSE /\ sbrks = <<>> /\ blocks = {} /\ stored = {}

MemoryNext ==
  \/ Reset \/ ClearBss \/ alt_load_section \/ SwitchOn \/ Store \/ SbrkCall \/ InterruptCalls \/ ALT_SBRK

MemorySpec == MemoryInit /\ [][MemoryNext]_memoryVars
-----------------------------------------------------------------------------
MemoryTypeOK ==
  /\ ram \in [RamWords -> Int] /\ at \in {"bss", "load", "main"} /\ section \in 0 .. Len(Sections) + 1
  /\ {on, irqs_on} \subseteq BOOLEAN /\ Len(sbrks) <= 2 /\ stored \subseteq RamWords
  /\ \A b \in blocks : b.base \in Nat /\ b.span \in Increments

(* The program finds what it was linked with: constants always, variables  *)
(* until it stores to them, however it was interrupted before.             *)
Loaded ==
  /\ \A i \in 0 .. Rodata - 1 : ram[RodataStart + 4 * i] = Image(RodataLoad + 4 * i)
  /\ \A i \in 1 .. Rwdata - 1 :
       RwdataStart + 4 * i \in stored \/ ram[RwdataStart + 4 * i] = Image(RwdataLoad + 4 * i)
  /\ \A a \in WordsFrom(BssStart, Bss) : a \in stored \/ ram[a] = 0

(* Blocks are aligned, in the heap, and apart from each other.             *)
HeapSound ==
  /\ \A b \in blocks : b.base % 4 = 0 /\ b.base >= alt_heap_start /\ b.base + b.span <= ram[HeapEnd]
  /\ \A b, c \in blocks : b # c => Apart(b, c)
  /\ ram[HeapEnd] \in alt_heap_start .. alt_heap_limit

(* The memory is the program's, at every moment of every run: after resets *)
(* in the midst of the copying or of a call, and with calls of sbrk from   *)
(* handlers between any two steps of one, "so must be safe if called from  *)
(* an interrupt context" (alt_sbrk.c:52-53); interrupts are as they were   *)
(* when a call is over.                                                    *)
MemoryKept ==
  at = "main" => Loaded /\ HeapSound /\ (sbrks = <<>> => irqs_on = on)
=============================================================================
