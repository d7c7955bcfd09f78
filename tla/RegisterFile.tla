---------------------------- MODULE RegisterFile ----------------------------
(***************************************************************************)
(* What the USB code relies on: the MAX3421E as a file of registers.  An   *)
(* access names a register; its bytes go to it, or come from it, one after *)
(* the other and whole; and the chip changes its registers meanwhile.      *)
(***************************************************************************)
EXTENDS Sequences, Naturals

CONSTANTS
  Bytes,      (* Data bytes, 0 among them.                                   *)
  Accesses,   (* [reg, bytes, count]: the bytes to write, how many to read.  *)
  Fifos,      (* Registers that are queues; a register is a queue of one.    *)
  Filled      (* What the chip puts into the queue it receives with.         *)

VARIABLES
  file,       (* The registers' contents.                                    *)
  access,     (* The access under way, or NoAccess.                          *)
  moved,      (* The bytes that have gone over.                              *)
  answer      (* Of the last access that read.                               *)

NoAccess == [reg |-> 0, bytes |-> <<>>, count |-> 0]

Put(contents, reg, byte) ==
  [contents EXCEPT ![reg] = IF reg \in Fifos THEN Append(@, byte) ELSE <<byte>>]

(* The last byte of an empty queue is not defined; it reads 0.             *)
Get(contents, reg) == IF contents[reg] = <<>> THEN 0 ELSE Head(contents[reg])

Got(contents, reg) ==
  IF reg \in Fifos /\ contents[reg] # <<>> THEN [contents EXCEPT ![reg] = Tail(@)] ELSE contents

FileInit ==
  /\ file = [reg \in {a.reg : a \in Accesses} |-> IF reg \in Fifos THEN <<>> ELSE <<0>>]
  /\ access = NoAccess /\ moved = <<>> /\ answer = <<>>

Ask == access = NoAccess /\ access' \in Accesses /\ moved' = <<>> /\ UNCHANGED <<file, answer>>

WriteByte ==
  /\ access # NoAccess /\ Len(moved) < Len(access.bytes)
  /\ LET byte == access.bytes[Len(moved) + 1] IN
       file' = Put(file, access.reg, byte) /\ moved' = Append(moved, byte)
  /\ UNCHANGED <<access, answer>>

ReadByte ==
  /\ access # NoAccess /\ access.bytes = <<>> /\ Len(moved) < access.count
  /\ moved' = Append(moved, Get(file, access.reg)) /\ file' = Got(file, access.reg)
  /\ UNCHANGED <<access, answer>>

Return ==
  /\ access # NoAccess /\ Len(moved) = Len(access.bytes) + access.count /\ access' = NoAccess
  /\ answer' = (IF access.bytes = <<>> THEN moved ELSE answer) /\ UNCHANGED <<file, moved>>

(* A register changes, or a queue that is not being accessed is filled or  *)
(* emptied.                                                                *)
Changes ==
  /\ \E reg \in DOMAIN file :
       /\ access.reg # reg \/ reg \notin Fifos
       /\ \E contents \in IF reg \in Fifos THEN {<<>>, Filled} ELSE {<<byte>> : byte \in Bytes} :
            file' = [file EXCEPT ![reg] = contents]
  /\ UNCHANGED <<access, moved, answer>>

FileNext == Ask \/ WriteByte \/ ReadByte \/ Return \/ Changes
FileSpec == FileInit /\ [][FileNext]_<<file, access, moved, answer>>
=============================================================================
