---------------------------- MODULE DriverProofs ----------------------------
(***************************************************************************)
(* Theorems about the parts of the HAL that serve its drivers: the         *)
(* interrupts, for any number of requests, calls and exceptions; the       *)
(* codec's set-up, for any number of attempts and any bus; the I2C master, *)
(* for FIFOs and requests of any size, any number of attempts, and a core  *)
(* and a device that refuse, lose or hold the bus at any byte.             *)
(***************************************************************************)
EXTENDS Interrupts, I2cMaster, Codec, WellFoundedInduction, SequenceTheorems, TLAPS

(* A set of natural numbers has a least element: what holds of 0, and of a *)
(* number if it holds of those below, holds; and alt_get_fd finds the      *)
(* first free descriptor if there is one.                                  *)
LEMMA MinNat ==
  ASSUME NEW S, S \subseteq Nat, S # {}
  PROVE  \E x \in S : \A y \in S : x <= y
<1>1. IsWellFoundedOn({p \in Nat \X Nat : p[1] < p[2]}, Nat)
  BY NatLessThanWellFounded DEF OpToRel
<1>2. PICK x \in S : \A y \in S : ~(<<y, x>> \in {p \in Nat \X Nat : p[1] < p[2]})
  BY <1>1, WFMin
<1>3. \A y \in S : x <= y
  <2>. TAKE y \in S
  <2>1. x \in Nat /\ y \in Nat /\ ~(<<y, x>> \in {p \in Nat \X Nat : p[1] < p[2]})
    BY <1>2
  <2>. QED  BY <2>1
<1>4. QED  BY <1>3
-----------------------------------------------------------------------------
(* The interrupts.  The invariant is about the code that is still to run.  *)
(* Along the code of each frame the depth of sections with interrupts off  *)
(* goes from the number of contexts the frame has saved to 0 (Nests); in   *)
(* the program's code one store of a registration follows the other        *)
(* (Chain), and a line is unmasked only behind the store of its handler    *)
(* (Prepared).  Stack says which frames there can be, one above the other, *)
(* and what PIE is then; CodeOrder says of the program's code, the table   *)
(* and the registers how far a registration has come (Handled, Masked) and *)
(* what of the start is still ahead (StartOrder).                          *)
ProgramOps == {"disable_all", "enable_all", "handler", "context", "active", "write_ienable", "clear_ienable",
               "cpu_enable_interrupts", "sysclk_init", "start", "quiet", "alarm_start", "dev_reg", "io_redirect",
               "main", "spin", "trap"}
HandlerOps == {"pending", "dispatch", "again", "lower", "quiet", "disable_all", "trap", "enable_all", "eret"}
Ops == ProgramOps \cup HandlerOps \cup {"irqtest", "exception", "break"}

Op == [op : Ops, irq : Int, arg : Int]

(* The depth of sections along a code, from d to 0, and where an operation *)
(* may stand.                                                              *)
Inside == {"handler", "context", "active", "write_ienable", "enable_all"}
Outside == {"cpu_enable_interrupts", "main", "pending", "dispatch", "again"}
Change(x) == IF x = "disable_all" THEN 1 ELSE IF x = "enable_all" THEN -1 ELSE 0
Stands(x, d) == (x \in Inside => d > 0) /\ (x \in Outside => d = 0)

SectionDepth(c, d, e, f) ==
  /\ f \in [1..Len(c) + 1 -> 0..3] /\ f[1] = d /\ f[Len(c) + 1] = e
  /\ \A k \in 1..Len(c) : f[k + 1] = f[k] + Change(c[k].op) /\ Stands(c[k].op, f[k])

Nests(c, d, e) == \E f : SectionDepth(c, d, e, f)

(* What follows a store in the code of a call.                             *)
Follows(c, k) ==
  /\ c[k].op = "handler" =>
       k + 1 <= Len(c) /\ c[k + 1] = DoTo("context", c[k].irq, c[k].arg)
  /\ c[k].op = "context" =>
       /\ k + 2 <= Len(c) /\ c[k].irq \in Irqs /\ c[k].arg \in {c[k].irq, NULL} /\ c[k + 1] = Do("disable_all")
       /\ c[k + 2] = DoTo("active", c[k].irq, IF c[k].arg # NULL THEN 1 ELSE 0)
  /\ c[k].op = "active" =>
       k + 1 <= Len(c) /\ c[k].irq \in Irqs /\ c[k].arg \in {0, 1} /\ c[k + 1] = Do("write_ienable")
  /\ c[k].op = "clear_ienable" => k + 1 <= Len(c) /\ c[k + 1] = Do("cpu_enable_interrupts")
  /\ c[k].op \in {"start", "quiet"} => c[k].irq \in Irqs

Chain(c) == \A k \in 1..Len(c) : Follows(c, k)

(* And what comes before one.                                              *)
Introduced(c) == \A k \in 1..Len(c) : c[k].op = "context" => k - 1 \in 1..Len(c) /\ c[k - 1].op = "handler"
Led(c) == \A k \in 1..Len(c) : c[k].op = "context" => k = 1 \/ (k - 1 \in 1..Len(c) /\ c[k - 1].op = "handler")

MainLast(c) == \A k \in 1..Len(c) : c[k].op = "main" => Len(c) = k + 1 /\ c[k + 1] = Do("spin")

Frames == [kind : {"program", "entry", "interrupt", "exception"}, code : Seq(Op),
           saved : Seq(BOOLEAN), estatus : BOOLEAN, skip : BOOLEAN, pending : SUBSET Irqs]

Says(p, b) == (b => p = TRUE) /\ (~b => p = FALSE)

(* The program has switched interrupts on; and is in no section.           *)
SwitchedOn(c) == \A k \in 1..Len(c) : c[k].op # "cpu_enable_interrupts"
Level(f) == SwitchedOn(f.code) /\ f.saved = <<>>

Whole(f) == f \in Frames /\ Nests(f.code, Len(f.saved), 0)

(* What the program saved on the way into its sections.                    *)
Base(f) ==
  /\ Whole(f) /\ f.kind = "program"
  /\ \A k \in 1..Len(f.saved) : Says(f.saved[k], SwitchedOn(f.code) /\ k = 1)

AtTrap(c) == c # <<>> /\ c[1].op = "trap"

(* The frames of exceptions.  g is the one below, e what is enabled, and q *)
(* says that a request is pending.                                         *)
Entered(f, g, q) ==
  /\ Whole(f) /\ f.kind = "entry" /\ f.code = <<Do("irqtest")>> /\ f.saved = <<>> /\ f.skip = FALSE
  /\ AtTrap(g.code) \/ (f.estatus = TRUE /\ q)

Excepted(f, g) ==
  /\ Whole(f) /\ f.kind = "exception" /\ f.code \in {<<Do("exception")>>, <<Do("eret")>>, <<Do("break")>>}
  /\ f.saved = <<>> /\ AtTrap(g.code)

Dispatches(f, e, q) ==
  \A k \in 1..Len(f.code) :
    /\ f.code[k].op \in HandlerOps
    /\ f.code[k].op = "pending" => Len(f.code) = 1 /\ q
    /\ f.code[k].op = "dispatch" => Len(f.code) = 1 /\ f.pending # {} /\ f.pending \subseteq e

Interrupted(f, e, q) ==
  /\ Whole(f) /\ f.kind = "interrupt" /\ f.skip = FALSE /\ f.estatus = TRUE
  /\ \A k \in 1..Len(f.saved) : f.saved[k] = FALSE
  /\ Dispatches(f, e, q)

(* The program alone, an exception, or one upon an interrupt.              *)
Alone(F, p) == Len(F) = 1 /\ Says(p, Level(F[1]))

Twofold(F, p, e, q) ==
  /\ Len(F) = 2 /\ p = FALSE
  /\ \/ (Entered(F[2], F[1], q) \/ Excepted(F[2], F[1])) /\ Says(F[2].estatus, Level(F[1]))
     \/ Interrupted(F[2], e, q) /\ Level(F[1])

Threefold(F, p, e) ==
  /\ Len(F) = 3 /\ p = FALSE /\ Interrupted(F[2], e, FALSE) /\ Level(F[1])
  /\ (Entered(F[3], F[2], FALSE) \/ Excepted(F[3], F[2])) /\ F[3].estatus = FALSE

Stack(F, p, e, q) ==
  F \in Seq(Frames) /\ Base(F[1]) /\ (Alone(F, p) \/ Twofold(F, p, e, q) \/ Threefold(F, p, e))

(* Of the program: c is its code, s what it saved, t the table, e what is  *)
(* enabled, a what is active, b what is set up and n its calls.            *)
Entry(x, y) == [handler |-> x, context |-> y]
Tables == [Irqs -> [handler : Irqs \cup {NULL}, context : Irqs \cup {NULL}]]

(* The next store is that of this line's context.                          *)
SetsContext(c, i) == c # <<>> /\ c[1].op = "context" /\ c[1].irq = i

(* The line is about to be masked.                                         *)
Leaving(c, s, i) ==
  \/ c # <<>> /\ c[1] = DoTo("context", i, NULL)
  \/ Len(c) >= 2 /\ s # <<>> /\ c[1] = Do("disable_all") /\ c[2] = DoTo("active", i, 0)
  \/ c # <<>> /\ c[1] = DoTo("active", i, 0)

Handled(c, t) ==
  /\ t \in Tables
  /\ \A i \in Irqs : IF SetsContext(c, i) THEN t[i].handler = c[1].arg
                      ELSE t[i] = Entry(i, i) \/ t[i] = Entry(NULL, NULL)

Masked(c, s, t, e, a) ==
  /\ e \subseteq Irqs /\ a \subseteq Irqs
  /\ \A i \in a : t[i].handler = i \/ Leaving(c, s, i)
  /\ c # <<>> /\ c[1].op = "clear_ienable" => a = {}
  /\ e = a \/ (c # <<>> /\ c[1].op \in {"write_ienable", "clear_ienable"})

(* A line that is going to be unmasked has its handler by then.            *)
Prepared(c, S) ==
  /\ \A k \in 1..Len(c) : c[k].op = "active" /\ c[k].arg = 1 =>
       c[k].irq \in S \/ \E j \in 1..k - 1 : c[j] = DoTo("handler", c[k].irq, c[k].irq)
  /\ \A j, k \in 1..Len(c) :
       c[j].op = "handler" /\ c[j].arg = NULL /\ c[k].op = "active" /\ c[k].irq = c[j].irq => c[k].arg = 0

Registered(t) == {i \in Irqs : t[i].handler = i}

Program(c, b) ==
  /\ Chain(c) /\ Led(c) /\ MainLast(c) /\ \A k \in 1..Len(c) : c[k].op \in ProgramOps
  /\ \A k \in 1..Len(c) : c[k].op = "cpu_enable_interrupts" =>
       "clock" \notin b /\ (k = 1 \/ (k = 2 /\ c[1].op = "clear_ienable"))

(* y comes after x, unless m is in b.                                      *)
Needs(c, x, y, m, b) ==
  \A k \in 1..Len(c) : c[k].op = y => m \in b \/ \E j \in 1..k - 1 : c[j].op = x

Has(c, x) == \E k \in 1..Len(c) : c[k] = x

NoNull(c) == \A k \in 1..Len(c) : (c[k].op = "active" => c[k].arg = 1)
                                  /\ (c[k].op \in {"handler", "context"} => c[k].arg # NULL)

(* What the start has not done is still in the code.                       *)
StillAhead(c, t, a, b) ==
  /\ \A i \in Irqs : t[i] = Entry(i, i) \/ Has(c, DoTo("context", i, i))
  /\ \A i \in Irqs : i \in a \/ Has(c, DoTo("active", i, 1))
  /\ "clock" \in b \/ Has(c, Do("sysclk_init"))
  /\ "alarm" \in b \/ Has(c, Do("alarm_start"))
  /\ "console" \in b \/ Has(c, Do("dev_reg"))
  /\ "stdio" \in b \/ Has(c, Do("io_redirect"))

StartOrder(c, t, a, b, n) ==
  /\ Needs(c, "sysclk_init", "alarm_start", "clock", b) /\ Needs(c, "dev_reg", "io_redirect", "console", b)
  /\ n = 0 => NoNull(c) /\ StillAhead(c, t, a, b)

CodeOrder(c, s, t, e, a, b, n) ==
  Handled(c, t) /\ Masked(c, s, t, e, a) /\ Prepared(c, Registered(t)) /\ Program(c, b) /\ StartOrder(c, t, a, b, n)

Others ==
  /\ started \subseteq Irqs /\ lines \subseteq started /\ requests \in [Irqs -> 0..MaxRequests]
  /\ calls \in 0..MaxCalls /\ traps \in 0..MaxTraps /\ alt_instruction_exception_handler \in BOOLEAN
  /\ board \subseteq {"clock", "alarm", "console", "stdio"} /\ pie \in BOOLEAN

IrqInv ==
  /\ Stack(frames, pie, ienable, ipending # {})
  /\ CodeOrder(frames[1].code, frames[1].saved, alt_irq, ienable, alt_irq_active, board, calls)
  /\ Others

LEMMA LinesAre == Irqs = {0, 1, 3} /\ NULL = -1 /\ NULL \notin Irqs /\ Irqs \subseteq Int
                  /\ JTAG_UART_0_IRQ \in Irqs /\ TIMER_0_IRQ \in Irqs /\ I2C_0_IRQ \in Irqs
<1>1. JTAG_UART_0_IRQ = 0 /\ TIMER_0_IRQ = 1 /\ I2C_0_IRQ = 3
  BY DEF JTAG_UART_0_IRQ, TIMER_0_IRQ, I2C_0_IRQ, JTAG_UART_0, TIMER_0, I2C_0, At
<1>2. NULL = -1
  BY DEF NULL
<1> QED  BY <1>1, <1>2 DEF Irqs

LEMMA DoType ==
  ASSUME NEW x \in Ops, NEW i \in Int, NEW a \in Int
  PROVE  Do(x) \in Op /\ DoTo(x, i, a) \in Op
<1>1. NULL \in Int
  BY LinesAre
<1> QED  BY <1>1 DEF Do, DoTo, Op

LEMMA NamesAre ==
  /\ "disable_all" \in Ops /\ "enable_all" \in Ops /\ "handler" \in Ops /\ "context" \in Ops /\ "active" \in Ops
  /\ "write_ienable" \in Ops /\ "clear_ienable" \in Ops /\ "cpu_enable_interrupts" \in Ops /\ "sysclk_init" \in Ops
  /\ "start" \in Ops /\ "quiet" \in Ops /\ "alarm_start" \in Ops /\ "dev_reg" \in Ops /\ "io_redirect" \in Ops
  /\ "main" \in Ops /\ "spin" \in Ops /\ "trap" \in Ops
  /\ "pending" \in Ops /\ "dispatch" \in Ops /\ "again" \in Ops /\ "lower" \in Ops /\ "eret" \in Ops
  /\ "irqtest" \in Ops /\ "exception" \in Ops /\ "break" \in Ops
BY DEF Ops, ProgramOps, HandlerOps

LEMMA TailIs ==
  ASSUME NEW c \in Seq(Op), c # <<>>
  PROVE  /\ Head(c) = c[1] /\ c[1] \in Op /\ Tail(c) \in Seq(Op) /\ Len(c) \in Nat \ {0} /\ Len(Tail(c)) = Len(c) - 1
         /\ \A k \in 1..Len(c) - 1 : k + 1 \in 1..Len(c) /\ Tail(c)[k] = c[k + 1]
OBVIOUS

LEMMA NestsTail ==
  ASSUME NEW c \in Seq(Op), c # <<>>, NEW d, Nests(c, d, 0)
  PROVE  /\ d \in 0..3 /\ d + Change(c[1].op) \in 0..3 /\ Stands(c[1].op, d)
         /\ Nests(Tail(c), d + Change(c[1].op), 0)
<1>1. PICK f : SectionDepth(c, d, 0, f)
  BY DEF Nests
<1> DEFINE m == Len(c)
           g == [k \in 1..(m - 1) + 1 |-> f[k + 1]]
<1>2. /\ m \in Nat \ {0} /\ Len(Tail(c)) = m - 1
      /\ \A k \in 1..m - 1 : k + 1 \in 1..m /\ Tail(c)[k] = c[k + 1]
  BY TailIs
<1>3. /\ f \in [1..m + 1 -> 0..3] /\ f[1] = d /\ f[m + 1] = 0
      /\ \A k \in 1..m : f[k + 1] = f[k] + Change(c[k].op) /\ Stands(c[k].op, f[k])
  BY <1>1 DEF SectionDepth
<1> HIDE DEF m
<1>4. 1 \in 1..m /\ 1 \in 1..m + 1 /\ 2 \in 1..m + 1 /\ 1 + 1 = 2
  BY <1>2
<1>5. f[2] = d + Change(c[1].op) /\ Stands(c[1].op, d) /\ d \in 0..3 /\ f[2] \in 0..3
  BY <1>3, <1>4
<1>6. g \in [1..(m - 1) + 1 -> 0..3] /\ g[1] = f[2] /\ g[(m - 1) + 1] = 0
  BY <1>2, <1>3
<1>7. ASSUME NEW k \in 1..m - 1
      PROVE  g[k + 1] = g[k] + Change(Tail(c)[k].op) /\ Stands(Tail(c)[k].op, g[k])
  <2>1. k + 1 \in 1..m /\ Tail(c)[k] = c[k + 1]
    BY <1>2
  <2>2. f[(k + 1) + 1] = f[k + 1] + Change(c[k + 1].op) /\ Stands(c[k + 1].op, f[k + 1])
    BY <1>3, <2>1
  <2>3. g[k] = f[k + 1] /\ g[k + 1] = f[(k + 1) + 1]
    BY <1>2
  <2> QED  BY <2>1, <2>2, <2>3
<1> HIDE DEF g
<1>8. SectionDepth(Tail(c), f[2], 0, g)
  BY <1>2, <1>6, <1>7 DEF SectionDepth
<1> QED  BY <1>5, <1>8 DEF Nests

LEMMA ConcatIs ==
  ASSUME NEW a \in Seq(Op), NEW b \in Seq(Op)
  PROVE  /\ a \o b \in Seq(Op) /\ Len(a) \in Nat /\ Len(b) \in Nat /\ Len(a \o b) = Len(a) + Len(b)
         /\ \A k \in 1..Len(a) : k \in 1..Len(a \o b) /\ (a \o b)[k] = a[k]
         /\ \A k \in 1..Len(b) : Len(a) + k \in 1..Len(a \o b) /\ (a \o b)[Len(a) + k] = b[k]
         /\ \A k \in 1..Len(a \o b) : k \in 1..Len(a) \/ \E j \in 1..Len(b) : k = Len(a) + j
<1>1. a \o b \in Seq(Op) /\ Len(a \o b) = Len(a) + Len(b) /\ Len(a) \in Nat /\ Len(b) \in Nat
  BY ConcatProperties
<1>2. \A k \in 1..Len(a) + Len(b) : (a \o b)[k] = IF k <= Len(a) THEN a[k] ELSE b[k - Len(a)]
  BY ConcatProperties
<1>3. ASSUME NEW k \in 1..Len(b) PROVE (a \o b)[Len(a) + k] = b[k] /\ Len(a) + k \in 1..Len(a) + Len(b)
  <2>1. Len(a) + k \in 1..Len(a) + Len(b) /\ ~(Len(a) + k <= Len(a)) /\ (Len(a) + k) - Len(a) = k
    BY <1>1
  <2> QED  BY <1>2, <2>1
<1>4. ASSUME NEW k \in 1..Len(a) + Len(b), k \notin 1..Len(a) PROVE \E j \in 1..Len(b) : k = Len(a) + j
  <2>1. k - Len(a) \in 1..Len(b) /\ k = Len(a) + (k - Len(a))
    BY <1>1, <1>4
  <2> QED  BY <2>1
<1>5. \A k \in 1..Len(a) : k \in 1..Len(a) + Len(b) /\ k <= Len(a)
  BY <1>1
<1> QED  BY <1>1, <1>2, <1>3, <1>4, <1>5

LEMMA NestsConcat ==
  ASSUME NEW a \in Seq(Op), NEW b \in Seq(Op), NEW d, NEW e, NEW i, Nests(a, d, e), Nests(b, e, i)
  PROVE  Nests(a \o b, d, i)
<1> DEFINE m == Len(a)
           n == Len(b)
           c == a \o b
<1>1. PICK f : SectionDepth(a, d, e, f)
  BY DEF Nests
<1>2. PICK g : SectionDepth(b, e, i, g)
  BY DEF Nests
<1> DEFINE h == [k \in 1..(m + n) + 1 |-> IF k <= m + 1 THEN f[k] ELSE g[k - m]]
<1>3. /\ m \in Nat /\ n \in Nat /\ Len(c) = m + n /\ \A k \in 1..m : c[k] = a[k] /\ \A j \in 1..n : c[m + j] = b[j]
  BY ConcatIs
<1>31. \A j \in 1..n : c[m + j] = b[j]
  BY ConcatIs
<1>4. /\ f \in [1..m + 1 -> 0..3] /\ f[1] = d /\ f[m + 1] = e
      /\ \A k \in 1..m : f[k + 1] = f[k] + Change(a[k].op) /\ Stands(a[k].op, f[k])
  BY <1>1 DEF SectionDepth
<1>5. /\ g \in [1..n + 1 -> 0..3] /\ g[1] = e /\ g[n + 1] = i
      /\ \A k \in 1..n : g[k + 1] = g[k] + Change(b[k].op) /\ Stands(b[k].op, g[k])
  BY <1>2 DEF SectionDepth
<1> HIDE DEF m, n, c
<1>6. \A k \in 1..m + 1 : h[k] = f[k]
  BY <1>3
<1>7. ASSUME NEW k \in 1..n + 1 PROVE h[m + k] = g[k]
  <2>1. CASE k = 1
    <3>1. h[m + k] = f[m + 1]
      BY <1>3, <2>1
    <3> QED  BY <1>4, <1>5, <2>1, <3>1
  <2>2. CASE k # 1
    <3>1. m + k \in 1..(m + n) + 1 /\ ~(m + k <= m + 1) /\ (m + k) - m = k
      BY <1>3, <2>2
    <3> QED  BY <3>1
  <2> QED  BY <2>1, <2>2
<1>8. h \in [1..(m + n) + 1 -> 0..3]
  <2>1. ASSUME NEW k \in 1..(m + n) + 1 PROVE (IF k <= m + 1 THEN f[k] ELSE g[k - m]) \in 0..3
    <3>1. CASE k <= m + 1
      <4>1. k \in 1..m + 1
        BY <1>3, <3>1
      <4> QED  BY <1>4, <3>1, <4>1
    <3>2. CASE ~(k <= m + 1)
      <4>1. k - m \in 1..n + 1
        BY <1>3, <3>2
      <4> QED  BY <1>5, <3>2, <4>1
    <3> QED  BY <3>1, <3>2
  <2> QED  BY <2>1
<1>9. h[1] = d /\ h[(m + n) + 1] = i
  <2>1. 1 \in 1..m + 1 /\ n + 1 \in 1..n + 1 /\ m + (n + 1) = (m + n) + 1
    BY <1>3
  <2>2. h[1] = f[1] /\ h[m + (n + 1)] = g[n + 1]
    BY <1>6, <1>7, <2>1
  <2> QED  BY <1>4, <1>5, <2>1, <2>2
<1> HIDE DEF h
<1>10. ASSUME NEW k \in 1..m + n PROVE h[k + 1] = h[k] + Change(c[k].op) /\ Stands(c[k].op, h[k])
  <2>1. CASE k <= m
    <3>1. k \in 1..m /\ k \in 1..m + 1 /\ k + 1 \in 1..m + 1
      BY <1>3, <2>1
    <3>2. h[k] = f[k] /\ h[k + 1] = f[k + 1] /\ c[k] = a[k]
      BY <1>3, <1>6, <3>1
    <3> QED  BY <1>4, <3>1, <3>2
  <2>2. CASE ~(k <= m)
    <3> DEFINE j == k - m
    <3>1. j \in 1..n /\ j \in 1..n + 1 /\ j + 1 \in 1..n + 1 /\ m + j = k /\ m + (j + 1) = k + 1
      BY <1>3, <2>2
    <3> HIDE DEF j
    <3>2. h[m + j] = g[j] /\ h[m + (j + 1)] = g[j + 1] /\ c[m + j] = b[j]
      BY <1>31, <1>7, <3>1
    <3> QED  BY <1>5, <3>1, <3>2
  <2> QED  BY <2>1, <2>2
<1>11. SectionDepth(c, d, i, h)
  BY <1>3, <1>8, <1>9, <1>10 DEF SectionDepth
<1> QED  BY <1>11 DEF Nests, c
LEMMA ChainConcat ==
  ASSUME NEW a \in Seq(Op), NEW b \in Seq(Op), Chain(a), Chain(b)
  PROVE  Chain(a \o b)
<1> DEFINE m == Len(a)
           n == Len(b)
           c == a \o b
<1>1. m \in Nat /\ n \in Nat /\ Len(c) = m + n
  BY ConcatIs
<1>2. \A k \in 1..m : c[k] = a[k]
  BY ConcatIs
<1>3. \A j \in 1..n : c[m + j] = b[j]
  BY ConcatIs
<1> HIDE DEF c
<1>4. ASSUME NEW k \in 1..m PROVE Follows(c, k)
  <2>1. Follows(a, k) /\ c[k] = a[k]
    BY <1>2 DEF Chain
  <2>2. k + 1 <= m => c[k + 1] = a[k + 1]
    BY <1>1, <1>2
  <2>3. k + 2 <= m => c[k + 2] = a[k + 2] /\ k + 1 <= m
    BY <1>1, <1>2
  <2>4. (k + 1 <= m => k + 1 <= Len(c)) /\ (k + 2 <= m => k + 2 <= Len(c))
    BY <1>1
  <2> QED  BY <2>1, <2>2, <2>3, <2>4 DEF Follows
<1>5. ASSUME NEW j \in 1..n PROVE Follows(c, m + j)
  <2>1. Follows(b, j) /\ c[m + j] = b[j]
    BY <1>3 DEF Chain
  <2>2. j + 1 <= n => c[(m + j) + 1] = b[j + 1] /\ (m + j) + 1 <= Len(c)
    <3>1. m + (j + 1) = (m + j) + 1 /\ (j + 1 <= n => j + 1 \in 1..n) /\ Len(c) = m + n
      BY <1>1
    <3> QED  BY <1>1, <1>3, <3>1
  <2>3. j + 2 <= n => c[(m + j) + 2] = b[j + 2] /\ (m + j) + 2 <= Len(c) /\ j + 1 <= n
    <3>1. m + (j + 2) = (m + j) + 2 /\ (j + 2 <= n => j + 2 \in 1..n) /\ Len(c) = m + n
      BY <1>1
    <3> QED  BY <1>1, <1>3, <3>1
  <2> QED  BY <2>1, <2>2, <2>3 DEF Follows
<1>6. ASSUME NEW k \in 1..Len(c) PROVE k \in 1..m \/ \E j \in 1..n : k = m + j
  BY ConcatIs DEF c
<1>7. \A k \in 1..Len(c) : Follows(c, k)
  BY <1>4, <1>5, <1>6
<1> QED  BY <1>7 DEF Chain, c

LEMMA ChainTail ==
  ASSUME NEW c \in Seq(Op), c # <<>>, Chain(c)
  PROVE  Chain(Tail(c)) /\ Follows(c, 1)
<1>1. /\ Len(c) \in Nat \ {0} /\ Len(Tail(c)) = Len(c) - 1
      /\ \A k \in 1..Len(c) - 1 : k + 1 \in 1..Len(c) /\ Tail(c)[k] = c[k + 1]
  BY TailIs
<1>2. ASSUME NEW k \in 1..Len(Tail(c)) PROVE Follows(Tail(c), k)
  <2>1. k \in 1..Len(c) - 1 /\ k + 1 \in 1..Len(c) /\ Tail(c)[k] = c[k + 1] /\ Follows(c, k + 1)
    BY <1>1 DEF Chain
  <2>2. (k + 1) + 1 <= Len(c) => k + 1 <= Len(Tail(c)) /\ Tail(c)[k + 1] = c[(k + 1) + 1]
    BY <1>1, <2>1
  <2>3. (k + 1) + 2 <= Len(c) => k + 2 <= Len(Tail(c)) /\ Tail(c)[k + 2] = c[(k + 1) + 2] /\ (k + 1) + 1 <= Len(c)
    <3>1. (k + 1) + 2 <= Len(c) => k + 2 \in 1..Len(c) - 1 /\ (k + 2) + 1 = (k + 1) + 2
      BY <1>1, <2>1
    <3> QED  BY <1>1, <2>1, <3>1
  <2> QED  BY <2>1, <2>2, <2>3 DEF Follows
<1>3. 1 \in 1..Len(c)
  BY <1>1
<1> QED  BY <1>2, <1>3 DEF Chain

(* The pieces of code that the start and main are made of.                 *)
PieceOps == {"disable_all", "enable_all", "handler", "context", "active", "write_ienable", "sysclk_init",
             "start", "quiet", "alarm_start", "dev_reg", "trap"}

CodePiece(c) ==
  c \in Seq(Op) /\ Chain(c) /\ Introduced(c) /\ Nests(c, 0, 0) /\ Nests(c, 1, 1) /\ \A k \in 1..Len(c) : c[k].op \in PieceOps

Plain(c) == \A k \in 1..Len(c) : c[k].op \notin {"handler", "active"}

LEMMA IntroducedConcat ==
  ASSUME NEW a \in Seq(Op), NEW b \in Seq(Op), Introduced(a), Introduced(b)
  PROVE  Introduced(a \o b)
<1> DEFINE m == Len(a)
           n == Len(b)
           c == a \o b
<1>1. /\ m \in Nat /\ n \in Nat /\ Len(c) = m + n
      /\ \A k \in 1..m : c[k] = a[k]
      /\ \A k \in 1..n : c[m + k] = b[k]
      /\ \A k \in 1..Len(c) : k \in 1..m \/ \E j \in 1..n : k = m + j
  BY ConcatIs
<1> HIDE DEF c
<1>2. ASSUME NEW k \in 1..m, c[k].op = "context" PROVE k - 1 \in 1..Len(c) /\ c[k - 1].op = "handler"
  <2>1. c[k] = a[k]
    BY <1>1
  <2>2. k - 1 \in 1..m /\ a[k - 1].op = "handler"
    BY <1>2, <2>1 DEF Introduced
  <2>3. c[k - 1] = a[k - 1]
    BY <1>1, <2>2
  <2>4. k - 1 \in 1..Len(c)
    BY <1>1, <2>2
  <2> QED  BY <2>2, <2>3, <2>4
<1>3. ASSUME NEW j \in 1..n, c[m + j].op = "context"
      PROVE  (m + j) - 1 \in 1..Len(c) /\ c[(m + j) - 1].op = "handler"
  <2>1. c[m + j] = b[j]
    BY <1>1
  <2>2. j - 1 \in 1..n /\ b[j - 1].op = "handler"
    BY <1>3, <2>1 DEF Introduced
  <2>3. c[m + (j - 1)] = b[j - 1]
    BY <1>1, <2>2
  <2>4. m \in Nat /\ n \in Nat /\ Len(c) = m + n
    BY <1>1
  <2> HIDE DEF m, n
  <2>5. m + (j - 1) = (m + j) - 1 /\ (m + j) - 1 \in 1..Len(c)
    BY <2>2, <2>4
  <2> QED  BY <2>2, <2>3, <2>5
<1>4. \A k \in 1..Len(c) : c[k].op = "context" => k - 1 \in 1..Len(c) /\ c[k - 1].op = "handler"
  BY <1>1, <1>2, <1>3
<1> QED  BY <1>4 DEF Introduced, c

LEMMA IntroducedNone ==
  ASSUME NEW c \in Seq(Op), \A k \in 1..Len(c) : c[k].op # "context"
  PROVE  Introduced(c)
BY DEF Introduced

LEMMA IntroducedLed ==
  ASSUME NEW c \in Seq(Op), Introduced(c)
  PROVE  Led(c)
BY DEF Introduced, Led

LEMMA PieceConcat ==
  ASSUME NEW a, NEW b, CodePiece(a), CodePiece(b)
  PROVE  CodePiece(a \o b)
<1>1. a \in Seq(Op) /\ b \in Seq(Op)
  BY DEF CodePiece
<1>2. Chain(a \o b) /\ Introduced(a \o b) /\ Nests(a \o b, 0, 0) /\ Nests(a \o b, 1, 1)
  BY <1>1, ChainConcat, IntroducedConcat, NestsConcat DEF CodePiece
<1>3. /\ a \o b \in Seq(Op)
      /\ \A k \in 1..Len(a) : (a \o b)[k] = a[k]
      /\ \A k \in 1..Len(b) : (a \o b)[Len(a) + k] = b[k]
      /\ \A k \in 1..Len(a \o b) : k \in 1..Len(a) \/ \E j \in 1..Len(b) : k = Len(a) + j
  BY <1>1, ConcatIs
<1> QED  BY <1>2, <1>3 DEF CodePiece

LEMMA PreparedConcat ==
  ASSUME NEW a \in Seq(Op), NEW b \in Seq(Op), NEW S, Prepared(a, S), Prepared(b, S),
         (NoNull(a) /\ NoNull(b)) \/ Plain(a) \/ Plain(b)
  PROVE  Prepared(a \o b, S)
<1> DEFINE m == Len(a)
           n == Len(b)
           c == a \o b
<1>1. m \in Nat /\ n \in Nat /\ Len(c) = m + n
  BY ConcatIs
<1>2. \A k \in 1..m : c[k] = a[k]
  BY ConcatIs
<1>3. \A j \in 1..n : c[m + j] = b[j]
  BY ConcatIs
<1>4. \A k \in 1..Len(c) : k \in 1..m \/ \E j \in 1..n : k = m + j
  BY ConcatIs
<1> HIDE DEF c
<1>5. ASSUME NEW k \in 1..Len(c), c[k].op = "active", c[k].arg = 1
      PROVE  c[k].irq \in S \/ \E j \in 1..k - 1 : c[j] = DoTo("handler", c[k].irq, c[k].irq)
  <2>1. CASE k \in 1..m
    <3>1. c[k] = a[k]
      BY <1>2, <2>1
    <3>2. a[k].irq \in S \/ \E j \in 1..k - 1 : a[j] = DoTo("handler", a[k].irq, a[k].irq)
      BY <1>5, <2>1, <3>1 DEF Prepared
    <3>3. \A j \in 1..k - 1 : c[j] = a[j]
      BY <1>1, <1>2, <2>1
    <3> QED  BY <3>1, <3>2, <3>3
  <2>2. ASSUME NEW i \in 1..n, k = m + i
        PROVE  c[k].irq \in S \/ \E j \in 1..k - 1 : c[j] = DoTo("handler", c[k].irq, c[k].irq)
    <3>1. c[k] = b[i]
      BY <1>3, <2>2
    <3>2. b[i].irq \in S \/ \E j \in 1..i - 1 : b[j] = DoTo("handler", b[i].irq, b[i].irq)
      BY <1>5, <3>1 DEF Prepared
    <3>3. \A j \in 1..i - 1 : m + j \in 1..k - 1 /\ j \in 1..n
      BY <1>1, <2>2
    <3> QED  BY <1>3, <3>1, <3>2, <3>3
  <2> QED  BY <1>4, <2>1, <2>2
<1>6. ASSUME NEW i \in 1..Len(c), NEW k \in 1..Len(c), c[i].op = "handler", c[i].arg = NULL, c[k].op = "active",
             c[k].irq = c[i].irq
      PROVE  c[k].arg = 0
  <2>1. CASE i \in 1..m /\ k \in 1..m
    BY <1>2, <1>6, <2>1 DEF Prepared
  <2>2. ASSUME NEW j \in 1..n, k = m + j, i \in 1..m PROVE FALSE
    <3>1. c[k] = b[j] /\ c[i] = a[i]
      BY <1>2, <1>3, <2>2
    <3> QED  BY <1>6, <2>2, <3>1 DEF NoNull, Plain
  <2>3. ASSUME NEW j \in 1..n, i = m + j, k \in 1..m PROVE FALSE
    <3>1. c[i] = b[j] /\ c[k] = a[k]
      BY <1>2, <1>3, <2>3
    <3> QED  BY <1>6, <2>3, <3>1 DEF NoNull, Plain
  <2>4. ASSUME NEW j \in 1..n, NEW h \in 1..n, i = m + j, k = m + h PROVE c[k].arg = 0
    <3>1. c[i] = b[j] /\ c[k] = b[h]
      BY <1>3, <2>4
    <3> QED  BY <1>6, <3>1 DEF Prepared
  <2> QED  BY <1>4, <2>1, <2>2, <2>3, <2>4
<1> QED  BY <1>5, <1>6 DEF Prepared, c
LEMMA NestsOne ==
  ASSUME NEW x \in Op, NEW d \in 0..3, d + Change(x.op) \in 0..3, Stands(x.op, d)
  PROVE  Nests(<<x>>, d, d + Change(x.op))
<1> DEFINE e == d + Change(x.op)
           f == [k \in 1..2 |-> IF k = 1 THEN d ELSE e]
<1>1. Len(<<x>>) = 1 /\ <<x>>[1] = x
  OBVIOUS
<1>2. e \in 0..3
  OBVIOUS
<1>3. f[1] = d /\ f[2] = d + Change(x.op)
  OBVIOUS
<1> HIDE DEF e
<1>4. f \in [1..2 -> 0..3] /\ f[1] = d /\ f[2] = e
  BY <1>2
<1> HIDE DEF f
<1>5. \A k \in 1..1 : f[k + 1] = f[k] + Change(<<x>>[k].op) /\ Stands(<<x>>[k].op, f[k])
  <2> TAKE k \in 1..1
  <2>1. k = 1 /\ k + 1 = 2
    OBVIOUS
  <2> QED  BY <1>1, <1>3, <2>1
<1>6. SectionDepth(<<x>>, d, e, f)
  BY <1>1, <1>4, <1>5 DEF SectionDepth
<1> QED  BY <1>6 DEF Nests, e

(* The code of alt_irq_enable and alt_irq_disable.                         *)
Masking(i, b) == <<Do("disable_all"), DoTo("active", i, b), Do("write_ienable"), Do("enable_all")>>

LEMMA MaskingIs ==
  ASSUME NEW i \in Irqs, NEW b \in {0, 1}
  PROVE  /\ Masking(i, b) \in Seq(Op) /\ Len(Masking(i, b)) = 4
         /\ Masking(i, b)[1] = Do("disable_all") /\ Masking(i, b)[2] = DoTo("active", i, b)
         /\ Masking(i, b)[3] = Do("write_ienable") /\ Masking(i, b)[4] = Do("enable_all")
<1>0. NULL \in Int /\ i \in Int /\ b \in Int
  BY LinesAre
<1>1. Do("disable_all") \in Op /\ DoTo("active", i, b) \in Op /\ Do("write_ienable") \in Op /\ Do("enable_all") \in Op
  BY <1>0, NamesAre, DoType
<1> HIDE DEF Do, DoTo
<1> QED  BY <1>1 DEF Masking

LEMMA MaskingNests ==
  ASSUME NEW i \in Irqs, NEW b \in {0, 1}, NEW d \in 0..2
  PROVE  Nests(Masking(i, b), d, d)
<1> DEFINE f == [k \in 1..5 |-> IF k \in {1, 5} THEN d ELSE d + 1]
           c == Masking(i, b)
<1>1. /\ Len(c) = 4 /\ c[1].op = "disable_all" /\ c[2].op = "active" /\ c[3].op = "write_ienable"
      /\ c[4].op = "enable_all"
  <2>1. /\ Len(c) = 4 /\ c[1] = Do("disable_all") /\ c[2] = DoTo("active", i, b)
        /\ c[3] = Do("write_ienable") /\ c[4] = Do("enable_all")
    BY MaskingIs
  <2> HIDE DEF c
  <2> QED  BY <2>1 DEF Do, DoTo
<1>2. f \in [1..5 -> 0..3] /\ f[1] = d /\ f[2] = d + 1 /\ f[3] = d + 1 /\ f[4] = d + 1 /\ f[5] = d
  OBVIOUS
<1> HIDE DEF f, c
<1>3. ASSUME NEW k \in 1..4 PROVE f[k + 1] = f[k] + Change(c[k].op) /\ Stands(c[k].op, f[k])
  <2>1. CASE k = 1
    BY <1>1, <1>2, <2>1 DEF Change, Stands, Inside, Outside
  <2>2. CASE k = 2
    BY <1>1, <1>2, <2>2 DEF Change, Stands, Inside, Outside
  <2>3. CASE k = 3
    BY <1>1, <1>2, <2>3 DEF Change, Stands, Inside, Outside
  <2>4. CASE k = 4
    BY <1>1, <1>2, <2>4 DEF Change, Stands, Inside, Outside
  <2> QED  BY <2>1, <2>2, <2>3, <2>4
<1>4. SectionDepth(c, d, d, f)
  BY <1>1, <1>2, <1>3 DEF SectionDepth
<1> QED  BY <1>4 DEF Nests, c

LEMMA MaskingPiece ==
  ASSUME NEW i \in Irqs, NEW b \in {0, 1}
  PROVE  /\ CodePiece(Masking(i, b))
         /\ \A S : b = 0 \/ i \in S => Prepared(Masking(i, b), S)
<1> DEFINE c == Masking(i, b)
<1>1. c \in Seq(Op) /\ Len(c) = 4 /\ c[1] = Do("disable_all") /\ c[2] = DoTo("active", i, b)
      /\ c[3] = Do("write_ienable") /\ c[4] = Do("enable_all")
  BY MaskingIs
<1>2. Nests(c, 0, 0) /\ Nests(c, 1, 1)
  BY MaskingNests
<1> HIDE DEF c
<1>3. ASSUME NEW k \in 1..Len(c) PROVE k = 1 \/ k = 2 \/ k = 3 \/ k = 4
  BY <1>1
<1>4. ASSUME NEW k \in 1..Len(c) PROVE c[k].op \in PieceOps
  BY <1>1, <1>3 DEF Do, DoTo, PieceOps
<1>5. ASSUME NEW k \in 1..Len(c) PROVE Follows(c, k)
  <2>1. CASE k = 2
    BY <1>1, <2>1 DEF Follows, Do, DoTo
  <2>2. CASE k # 2
    BY <1>1, <1>3, <2>2 DEF Follows, Do, DoTo
  <2> QED  BY <2>1, <2>2
<1>6. ASSUME NEW k \in 1..Len(c)
      PROVE  c[k].op # "handler" /\ (c[k].op = "active" => c[k].irq = i /\ c[k].arg = b)
  BY <1>1, <1>3 DEF Do, DoTo
<1>7. ASSUME NEW S, b = 0 \/ i \in S PROVE Prepared(c, S)
  <2>1. \A k \in 1..Len(c) : c[k].op = "active" /\ c[k].arg = 1 => c[k].irq \in S
    BY <1>6, <1>7
  <2>2. \A j \in 1..Len(c) : c[j].op # "handler"
    BY <1>6
  <2> QED  BY <2>1, <2>2 DEF Prepared
<1>8. Introduced(c)
  <2>1. \A k \in 1..Len(c) : c[k].op # "context"
    BY <1>1, <1>3 DEF Do, DoTo
  <2> QED  BY <1>1, <2>1, IntroducedNone
<1> QED  BY <1>1, <1>2, <1>4, <1>5, <1>7, <1>8 DEF CodePiece, Chain, c

LEMMA RegisterIs ==
  ASSUME NEW i \in Irqs, NEW a \in {i, NULL}, NEW c, c = alt_iic_isr_register(i, a)
  PROVE  /\ c = (<<Do("disable_all"), DoTo("handler", i, a), DoTo("context", i, a)>>
                   \o Masking(i, IF a # NULL THEN 1 ELSE 0)) \o <<Do("enable_all")>>
         /\ c \in Seq(Op) /\ Len(c) = 8
         /\ c[1] = Do("disable_all") /\ c[2] = DoTo("handler", i, a) /\ c[3] = DoTo("context", i, a)
         /\ c[4] = Do("disable_all") /\ c[5] = DoTo("active", i, IF a # NULL THEN 1 ELSE 0)
         /\ c[6] = Do("write_ienable") /\ c[7] = Do("enable_all") /\ c[8] = Do("enable_all")
<1> DEFINE b == IF a # NULL THEN 1 ELSE 0
           p == <<Do("disable_all"), DoTo("handler", i, a), DoTo("context", i, a)>>
           q == Masking(i, b)
           r == <<Do("enable_all")>>
<1>1. b \in {0, 1} /\ a \in Int /\ i \in Int /\ NULL \in Int
  BY LinesAre
<1>2. c = (p \o q) \o r
  BY DEF alt_iic_isr_register, alt_irq_enable, alt_irq_disable, Masking
<1>3. /\ Do("disable_all") \in Op /\ DoTo("handler", i, a) \in Op /\ DoTo("context", i, a) \in Op
      /\ Do("enable_all") \in Op
  BY <1>1, NamesAre, DoType
<1>4. p \in Seq(Op) /\ Len(p) = 3 /\ p[1] = Do("disable_all") /\ p[2] = DoTo("handler", i, a)
      /\ p[3] = DoTo("context", i, a)
  BY <1>3
<1>5. r \in Seq(Op) /\ Len(r) = 1 /\ r[1] = Do("enable_all")
  BY <1>3
<1>6. q \in Seq(Op) /\ Len(q) = 4 /\ q[1] = Do("disable_all") /\ q[2] = DoTo("active", i, b)
      /\ q[3] = Do("write_ienable") /\ q[4] = Do("enable_all")
  BY <1>1, MaskingIs
<1> HIDE DEF p, q, r
<1> DEFINE pq == p \o q
<1>7. /\ pq \in Seq(Op) /\ Len(pq) = 7
      /\ \A k \in 1..3 : pq[k] = p[k]
      /\ \A k \in 1..4 : pq[3 + k] = q[k]
  <2>1. /\ pq \in Seq(Op) /\ Len(pq) = Len(p) + Len(q)
        /\ \A k \in 1..Len(p) : pq[k] = p[k]
        /\ \A k \in 1..Len(q) : pq[Len(p) + k] = q[k]
    BY <1>4, <1>6, ConcatIs
  <2> HIDE DEF pq
  <2> QED  BY <1>4, <1>6, <2>1
<1>8. /\ pq[1] = p[1] /\ pq[2] = p[2] /\ pq[3] = p[3] /\ pq[4] = q[1] /\ pq[5] = q[2] /\ pq[6] = q[3] /\ pq[7] = q[4]
  <2>1. pq[3 + 1] = q[1] /\ pq[3 + 2] = q[2] /\ pq[3 + 3] = q[3] /\ pq[3 + 4] = q[4]
    BY <1>7
  <2> QED  BY <1>7, <2>1
<1> HIDE DEF pq
<1>9. /\ c \in Seq(Op) /\ Len(c) = 8
      /\ \A k \in 1..7 : c[k] = pq[k]
      /\ \A k \in 1..1 : c[7 + k] = r[k]
  <2>1. c = pq \o r
    BY <1>2 DEF pq
  <2>2. /\ c \in Seq(Op) /\ Len(c) = Len(pq) + Len(r)
        /\ \A k \in 1..Len(pq) : c[k] = pq[k]
        /\ \A k \in 1..Len(r) : c[Len(pq) + k] = r[k]
    <3>1. pq \in Seq(Op) /\ r \in Seq(Op)
      BY <1>5, <1>7
    <3> HIDE DEF r, pq
    <3> QED  BY <2>1, <3>1, ConcatIs
  <2> QED  BY <1>5, <1>7, <2>2
<1>10. c[8] = r[1]
  <2>1. c[7 + 1] = r[1]
    BY <1>9
  <2> QED  BY <2>1
<1> QED  BY <1>2, <1>4, <1>5, <1>6, <1>8, <1>9, <1>10 DEF p, q, r
LEMMA RegisterNests ==
  ASSUME NEW i \in Irqs, NEW a \in {i, NULL}, NEW d \in 0..1
  PROVE  Nests(alt_iic_isr_register(i, a), d, d)
<1> DEFINE c == alt_iic_isr_register(i, a)
           f == [k \in 1..9 |-> IF k \in {1, 9} THEN d ELSE IF k \in {5, 6, 7} THEN d + 2 ELSE d + 1]
<1>1. /\ Len(c) = 8 /\ c[1] = Do("disable_all") /\ c[2] = DoTo("handler", i, a) /\ c[3] = DoTo("context", i, a)
      /\ c[4] = Do("disable_all") /\ c[5] = DoTo("active", i, IF a # NULL THEN 1 ELSE 0)
      /\ c[6] = Do("write_ienable") /\ c[7] = Do("enable_all") /\ c[8] = Do("enable_all")
  BY RegisterIs
<1> HIDE DEF c
<1>2. /\ c[1].op = "disable_all" /\ c[2].op = "handler" /\ c[3].op = "context" /\ c[4].op = "disable_all"
      /\ c[5].op = "active" /\ c[6].op = "write_ienable" /\ c[7].op = "enable_all" /\ c[8].op = "enable_all"
  BY <1>1 DEF Do, DoTo
<1>3. /\ f \in [1..9 -> 0..3] /\ f[1] = d /\ f[2] = d + 1 /\ f[3] = d + 1 /\ f[4] = d + 1 /\ f[5] = d + 2
      /\ f[6] = d + 2 /\ f[7] = d + 2 /\ f[8] = d + 1 /\ f[9] = d
  OBVIOUS
<1> HIDE DEF f
<1>4. ASSUME NEW k \in 1..8 PROVE f[k + 1] = f[k] + Change(c[k].op) /\ Stands(c[k].op, f[k])
  <2>1. CASE k = 1
    BY <1>2, <1>3, <2>1 DEF Change, Stands, Inside, Outside
  <2>2. CASE k = 2
    BY <1>2, <1>3, <2>2 DEF Change, Stands, Inside, Outside
  <2>3. CASE k = 3
    BY <1>2, <1>3, <2>3 DEF Change, Stands, Inside, Outside
  <2>4. CASE k = 4
    BY <1>2, <1>3, <2>4 DEF Change, Stands, Inside, Outside
  <2>5. CASE k = 5
    BY <1>2, <1>3, <2>5 DEF Change, Stands, Inside, Outside
  <2>6. CASE k = 6
    BY <1>2, <1>3, <2>6 DEF Change, Stands, Inside, Outside
  <2>7. CASE k = 7
    BY <1>2, <1>3, <2>7 DEF Change, Stands, Inside, Outside
  <2>8. CASE k = 8
    BY <1>2, <1>3, <2>8 DEF Change, Stands, Inside, Outside
  <2> QED  BY <2>1, <2>2, <2>3, <2>4, <2>5, <2>6, <2>7, <2>8
<1>5. Len(c) + 1 = 9
  BY <1>1
<1>6. SectionDepth(c, d, d, f)
  BY <1>1, <1>3, <1>4, <1>5 DEF SectionDepth
<1> QED  BY <1>6 DEF Nests, c

LEMMA RegisterPiece ==
  ASSUME NEW i \in Irqs, NEW a \in {i, NULL}
  PROVE  /\ CodePiece(alt_iic_isr_register(i, a))
         /\ \A S : Prepared(alt_iic_isr_register(i, a), S)
         /\ a = i => NoNull(alt_iic_isr_register(i, a))
                     /\ Has(alt_iic_isr_register(i, a), DoTo("context", i, i))
                     /\ Has(alt_iic_isr_register(i, a), DoTo("active", i, 1))
<1> DEFINE c == alt_iic_isr_register(i, a)
           b == IF a # NULL THEN 1 ELSE 0
<1>1. /\ c \in Seq(Op) /\ Len(c) = 8 /\ c[1] = Do("disable_all") /\ c[2] = DoTo("handler", i, a)
      /\ c[3] = DoTo("context", i, a) /\ c[4] = Do("disable_all") /\ c[5] = DoTo("active", i, b)
      /\ c[6] = Do("write_ienable") /\ c[7] = Do("enable_all") /\ c[8] = Do("enable_all")
  BY RegisterIs
<1>2. Nests(c, 0, 0) /\ Nests(c, 1, 1)
  BY RegisterNests
<1> HIDE DEF c
<1>3. /\ b \in {0, 1} /\ i # NULL /\ (a = i => b = 1) /\ (a = NULL => b = 0) /\ 0 # 1
  BY LinesAre
<1>31. b = IF a # NULL THEN 1 ELSE 0
  OBVIOUS
<1> HIDE DEF b
<1>4. /\ c[1].op = "disable_all" /\ c[2].op = "handler" /\ c[3].op = "context" /\ c[4].op = "disable_all"
      /\ c[5].op = "active" /\ c[6].op = "write_ienable" /\ c[7].op = "enable_all" /\ c[8].op = "enable_all"
  BY <1>1 DEF Do, DoTo
<1>41. c[2].irq = i /\ c[2].arg = a /\ c[3].irq = i /\ c[3].arg = a /\ c[5].irq = i /\ c[5].arg = b
  BY <1>1 DEF DoTo
<1>5. ASSUME NEW k \in 1..Len(c)
      PROVE  k = 1 \/ k = 2 \/ k = 3 \/ k = 4 \/ k = 5 \/ k = 6 \/ k = 7 \/ k = 8
  BY <1>1
<1>6. ASSUME NEW k \in 1..Len(c) PROVE c[k].op \in PieceOps
  BY <1>4, <1>5 DEF PieceOps
<1>7. ASSUME NEW k \in 1..Len(c) PROVE Follows(c, k)
  <2>1. CASE k = 2
    BY <1>1, <1>4, <1>41, <2>1 DEF Follows
  <2>2. CASE k = 3
    BY <1>1, <1>31, <1>4, <1>41, <2>2 DEF Follows
  <2>3. CASE k = 5
    BY <1>1, <1>3, <1>4, <1>41, <2>3 DEF Follows
  <2>4. CASE k \notin {2, 3, 5}
    <3>1. c[k].op \in {"disable_all", "write_ienable", "enable_all"}
      BY <1>4, <1>5, <2>4
    <3> QED  BY <3>1 DEF Follows
  <2> QED  BY <2>1, <2>2, <2>3, <2>4
<1>8. ASSUME NEW k \in 1..Len(c)
      PROVE  (c[k].op = "active" => k = 5) /\ (c[k].op = "handler" => k = 2) /\ (c[k].op = "context" => k = 3)
  BY <1>4, <1>5
<1>9. ASSUME NEW S PROVE Prepared(c, S)
  <2>1. ASSUME NEW k \in 1..Len(c), c[k].op = "active", c[k].arg = 1
        PROVE  \E j \in 1..k - 1 : c[j] = DoTo("handler", c[k].irq, c[k].irq)
    <3>1. k = 5 /\ c[k].irq = i /\ b = 1
      BY <1>8, <1>41, <2>1
    <3>2. a = i /\ 2 \in 1..k - 1
      BY <1>3, <3>1
    <3>3. c[2] = DoTo("handler", c[k].irq, c[k].irq)
      BY <1>1, <3>1, <3>2
    <3> QED  BY <3>2, <3>3
  <2>2. ASSUME NEW j \in 1..Len(c), NEW k \in 1..Len(c), c[j].op = "handler", c[j].arg = NULL, c[k].op = "active"
        PROVE  c[k].arg = 0
    <3>1. j = 2 /\ k = 5
      BY <1>8, <2>2
    <3> QED  BY <1>3, <1>41, <2>2, <3>1
  <2> QED  BY <2>1, <2>2 DEF Prepared
<1>10. ASSUME a = i
       PROVE  NoNull(c) /\ Has(c, DoTo("context", i, i)) /\ Has(c, DoTo("active", i, 1))
  <2>1. NoNull(c)
    <3>1. a # NULL /\ b = 1
      BY <1>3, <1>10
    <3>2. ASSUME NEW k \in 1..Len(c), c[k].op = "active" PROVE c[k].arg = 1
      BY <1>8, <1>41, <3>1, <3>2
    <3>3. ASSUME NEW k \in 1..Len(c), c[k].op \in {"handler", "context"} PROVE c[k].arg # NULL
      <4>1. k = 2 \/ k = 3
        BY <1>8, <3>3
      <4> QED  BY <1>41, <3>1, <4>1
    <3> QED  BY <3>2, <3>3 DEF NoNull
  <2>2. 3 \in 1..Len(c) /\ 5 \in 1..Len(c)
    BY <1>1
  <2>3. c[3] = DoTo("context", i, i) /\ c[5] = DoTo("active", i, 1)
    BY <1>1, <1>3, <1>10
  <2> QED  BY <2>1, <2>2, <2>3 DEF Has
<1>11. Introduced(c)
  <2>1. ASSUME NEW k \in 1..Len(c), c[k].op = "context" PROVE k - 1 \in 1..Len(c) /\ c[k - 1].op = "handler"
    <3>1. k = 3
      BY <1>8, <2>1
    <3>2. k - 1 = 2 /\ 2 \in 1..Len(c)
      BY <1>1, <3>1
    <3> QED  BY <1>4, <3>2
  <2> QED  BY <2>1 DEF Introduced
<1> QED  BY <1>1, <1>2, <1>6, <1>7, <1>9, <1>10, <1>11 DEF CodePiece, Chain, c

(* A piece of one step.                                                    *)
LEMMA OneIs ==
  ASSUME NEW x \in Op, x.op \in {"sysclk_init", "start", "quiet", "alarm_start", "dev_reg", "trap"},
         x.op \in {"start", "quiet"} => x.irq \in Irqs
  PROVE  /\ CodePiece(<<x>>) /\ Plain(<<x>>) /\ NoNull(<<x>>) /\ Has(<<x>>, x) /\ \A S : Prepared(<<x>>, S)
<1> DEFINE c == <<x>>
<1>1. c \in Seq(Op) /\ Len(c) = 1 /\ c[1] = x /\ \A k \in 1..Len(c) : k = 1
  OBVIOUS
<1>2. Change(x.op) = 0 /\ Stands(x.op, 0) /\ Stands(x.op, 1)
  BY DEF Change, Stands, Inside, Outside
<1>3. Nests(c, 0, 0) /\ Nests(c, 1, 1)
  <2>1. 0 + Change(x.op) = 0 /\ 1 + Change(x.op) = 1 /\ 0 \in 0..3 /\ 1 \in 0..3
    BY <1>2
  <2>2. Nests(c, 0, 0 + Change(x.op))
    BY <1>2, <2>1, NestsOne
  <2>3. Nests(c, 1, 1 + Change(x.op))
    BY <1>2, <2>1, NestsOne
  <2> QED  BY <2>1, <2>2, <2>3
<1> HIDE DEF c
<1>4. \A k \in 1..Len(c) : c[k] = x
  BY <1>1
<1>5. Chain(c)
  BY <1>4 DEF Chain, Follows
<1>6. \A k \in 1..Len(c) : c[k].op \in PieceOps
  BY <1>4 DEF PieceOps
<1>7. Plain(c) /\ NoNull(c) /\ \A S : Prepared(c, S)
  <2>1. \A k \in 1..Len(c) : c[k].op \notin {"handler", "context", "active"}
    BY <1>4
  <2> QED  BY <2>1 DEF Plain, NoNull, Prepared
<1>8. Has(c, x)
  <2>1. 1 \in 1..Len(c)
    BY <1>1
  <2> QED  BY <1>1, <2>1 DEF Has
<1>9. Introduced(c)
  <2>1. \A k \in 1..Len(c) : c[k].op # "context"
    BY <1>4
  <2> QED  BY <1>1, <2>1, IntroducedNone
<1> QED  BY <1>1, <1>3, <1>5, <1>6, <1>7, <1>8, <1>9 DEF CodePiece, c
LEMMA HasConcat ==
  ASSUME NEW a \in Seq(Op), NEW b \in Seq(Op), NEW x, Has(a, x) \/ Has(b, x)
  PROVE  Has(a \o b, x)
<1>1. CASE Has(a, x)
  BY <1>1, ConcatIs DEF Has
<1>2. CASE Has(b, x)
  <2>1. PICK k \in 1..Len(b) : b[k] = x
    BY <1>2 DEF Has
  <2>2. Len(a) + k \in 1..Len(a \o b) /\ (a \o b)[Len(a) + k] = b[k]
    BY ConcatIs
  <2> QED  BY <2>1, <2>2 DEF Has
<1> QED  BY <1>1, <1>2

Fresh(c) == CodePiece(c) /\ NoNull(c) /\ Prepared(c, {})

LEMMA FreshConcat ==
  ASSUME NEW a, NEW b, Fresh(a), Fresh(b)
  PROVE  Fresh(a \o b) /\ a \in Seq(Op) /\ b \in Seq(Op) /\ a \o b \in Seq(Op)
<1>1. a \in Seq(Op) /\ b \in Seq(Op) /\ NoNull(a) /\ NoNull(b) /\ Prepared(a, {}) /\ Prepared(b, {})
  BY DEF Fresh, CodePiece
<1>2. CodePiece(a \o b) /\ a \o b \in Seq(Op)
  BY PieceConcat DEF Fresh, CodePiece
<1>3. Prepared(a \o b, {})
  BY <1>1, PreparedConcat
<1>4. NoNull(a \o b)
  <2>1. /\ \A k \in 1..Len(a) : (a \o b)[k] = a[k]
        /\ \A k \in 1..Len(b) : (a \o b)[Len(a) + k] = b[k]
        /\ \A k \in 1..Len(a \o b) : k \in 1..Len(a) \/ \E j \in 1..Len(b) : k = Len(a) + j
    BY <1>1, ConcatIs
  <2>2. \A k \in 1..Len(a) : (a[k].op = "active" => a[k].arg = 1)
                             /\ (a[k].op \in {"handler", "context"} => a[k].arg # NULL)
    BY <1>1 DEF NoNull
  <2>3. \A k \in 1..Len(b) : (b[k].op = "active" => b[k].arg = 1)
                             /\ (b[k].op \in {"handler", "context"} => b[k].arg # NULL)
    BY <1>1 DEF NoNull
  <2>4. ASSUME NEW k \in 1..Len(a \o b)
        PROVE  /\ (a \o b)[k].op = "active" => (a \o b)[k].arg = 1
               /\ (a \o b)[k].op \in {"handler", "context"} => (a \o b)[k].arg # NULL
    <3>1. CASE k \in 1..Len(a)
      <4>1. (a \o b)[k] = a[k]
        BY <2>1, <3>1
      <4> QED  BY <2>2, <3>1, <4>1
    <3>2. ASSUME NEW j \in 1..Len(b), k = Len(a) + j
          PROVE  /\ (a \o b)[k].op = "active" => (a \o b)[k].arg = 1
                 /\ (a \o b)[k].op \in {"handler", "context"} => (a \o b)[k].arg # NULL
      <4>1. (a \o b)[k] = b[j]
        BY <2>1, <3>2
      <4> QED  BY <2>3, <4>1
    <3> QED  BY <2>1, <3>1, <3>2
  <2> QED  BY <2>4 DEF NoNull
<1> QED  BY <1>1, <1>2, <1>3, <1>4 DEF Fresh

LEMMA PairIs ==
  ASSUME NEW x \in Op, NEW y \in Op
  PROVE  <<x, y>> = <<x>> \o <<y>> /\ <<x, y>> \in Seq(Op)
<1> DEFINE p == <<x, y>>
           a == <<x>>
           b == <<y>>
           q == a \o b
<1>1. p \in Seq(Op) /\ Len(p) = 2 /\ p[1] = x /\ p[2] = y
  OBVIOUS
<1>2. a \in Seq(Op) /\ b \in Seq(Op) /\ Len(a) = 1 /\ Len(b) = 1 /\ a[1] = x /\ b[1] = y
  OBVIOUS
<1> HIDE DEF p, a, b
<1>3. /\ q \in Seq(Op) /\ Len(q) = Len(a) + Len(b)
      /\ \A k \in 1..Len(a) : q[k] = a[k]
      /\ \A k \in 1..Len(b) : q[Len(a) + k] = b[k]
  BY <1>2, ConcatIs
<1> HIDE DEF q
<1>4. Len(q) = 2 /\ q[1] = x
  BY <1>2, <1>3
<1>5. q[1 + 1] = y
  BY <1>2, <1>3
<1>6. \A k \in 1..Len(p) : p[k] = q[k]
  <2> TAKE k \in 1..Len(p)
  <2>1. (k = 1 \/ k = 2) /\ 1 + 1 = 2
    BY <1>1
  <2> QED  BY <1>1, <1>4, <1>5, <2>1
<1>7. p = q
  BY <1>1, <1>3, <1>4, <1>6, SeqEqual
<1> QED  BY <1>1, <1>7 DEF p, q, a, b

(* What comes before what in a code.                                       *)
LEMMA NeedsConcat ==
  ASSUME NEW a \in Seq(Op), NEW b \in Seq(Op), NEW x, NEW y, NEW m, NEW S, Needs(a, x, y, m, S),
         Needs(b, x, y, m, S) \/ \E j \in 1..Len(a) : a[j].op = x
  PROVE  Needs(a \o b, x, y, m, S)
<1> DEFINE c == a \o b
<1>1. /\ Len(a) \in Nat /\ Len(b) \in Nat
      /\ \A k \in 1..Len(a) : c[k] = a[k]
      /\ \A k \in 1..Len(b) : c[Len(a) + k] = b[k]
      /\ \A k \in 1..Len(c) : k \in 1..Len(a) \/ \E j \in 1..Len(b) : k = Len(a) + j
  BY ConcatIs
<1> HIDE DEF c
<1>2. ASSUME NEW k \in 1..Len(c), c[k].op = y, m \notin S PROVE \E j \in 1..k - 1 : c[j].op = x
  <2>1. CASE k \in 1..Len(a)
    <3>1. \E j \in 1..k - 1 : a[j].op = x
      BY <1>1, <1>2, <2>1 DEF Needs
    <3>2. \A j \in 1..k - 1 : c[j] = a[j]
      BY <1>1, <2>1
    <3> QED  BY <3>1, <3>2
  <2>2. ASSUME NEW i \in 1..Len(b), k = Len(a) + i PROVE \E j \in 1..k - 1 : c[j].op = x
    <3>1. CASE \E j \in 1..Len(a) : a[j].op = x
      <4>1. PICK j \in 1..Len(a) : a[j].op = x
        BY <3>1
      <4>2. j \in 1..k - 1 /\ c[j] = a[j]
        BY <1>1, <2>2
      <4> QED  BY <4>1, <4>2
    <3>2. CASE Needs(b, x, y, m, S)
      <4>1. c[k] = b[i]
        BY <1>1, <2>2
      <4>2. PICK j \in 1..i - 1 : b[j].op = x
        BY <1>2, <3>2, <4>1 DEF Needs
      <4>3. Len(a) + j \in 1..k - 1 /\ j \in 1..Len(b)
        BY <1>1, <2>2
      <4>4. c[Len(a) + j] = b[j]
        BY <1>1, <4>3
      <4> QED  BY <4>2, <4>3, <4>4
    <3> QED  BY <3>1, <3>2
  <2> QED  BY <1>1, <2>1, <2>2
<1> QED  BY <1>2 DEF Needs, c

(* The devices' part of the start.                                         *)
LEMMA TimerFresh ==
  /\ Fresh(alt_avalon_timer_sc_init) /\ Has(alt_avalon_timer_sc_init, Do("sysclk_init"))
  /\ Has(alt_avalon_timer_sc_init, DoTo("context", TIMER_0_IRQ, TIMER_0_IRQ))
  /\ Has(alt_avalon_timer_sc_init, DoTo("active", TIMER_0_IRQ, 1))
<1> DEFINE x == Do("sysclk_init")
           y == DoTo("start", TIMER_0_IRQ, NULL)
           r == alt_iic_isr_register(TIMER_0_IRQ, TIMER_0_IRQ)
<1>1. x \in Op /\ y \in Op
  BY LinesAre, NamesAre, DoType
<1>2. x.op = "sysclk_init" /\ y.op = "start" /\ y.irq \in Irqs
  BY LinesAre DEF Do, DoTo
<1>3. /\ Fresh(r) /\ Has(r, DoTo("context", TIMER_0_IRQ, TIMER_0_IRQ)) /\ Has(r, DoTo("active", TIMER_0_IRQ, 1))
      /\ r \in Seq(Op)
  BY LinesAre, RegisterPiece DEF Fresh, CodePiece
<1>4. alt_avalon_timer_sc_init = <<x, y>> \o r
  BY DEF alt_avalon_timer_sc_init
<1> HIDE DEF x, y, r
<1>5. <<x, y>> = <<x>> \o <<y>>
  BY <1>1, PairIs
<1>6. Fresh(<<x>>) /\ Fresh(<<y>>) /\ Has(<<x>>, x) /\ <<x>> \in Seq(Op) /\ <<y>> \in Seq(Op)
  BY <1>1, <1>2, OneIs DEF Fresh
<1>7. Fresh(<<x, y>>) /\ Has(<<x, y>>, x) /\ <<x, y>> \in Seq(Op)
  BY <1>5, <1>6, FreshConcat, HasConcat
<1>8. Fresh(<<x, y>> \o r) /\ Has(<<x, y>> \o r, x)
  BY <1>3, <1>7, FreshConcat, HasConcat
<1>9. Has(<<x, y>> \o r, DoTo("context", TIMER_0_IRQ, TIMER_0_IRQ)) /\ Has(<<x, y>> \o r, DoTo("active", TIMER_0_IRQ, 1))
  BY <1>3, <1>7, HasConcat
<1> QED  BY <1>4, <1>8, <1>9 DEF x

LEMMA I2cFresh ==
  /\ Fresh(alt_avalon_i2c_init)
  /\ Has(alt_avalon_i2c_init, DoTo("context", I2C_0_IRQ, I2C_0_IRQ))
  /\ Has(alt_avalon_i2c_init, DoTo("active", I2C_0_IRQ, 1))
<1> DEFINE y == DoTo("quiet", I2C_0_IRQ, NULL)
           r == alt_iic_isr_register(I2C_0_IRQ, I2C_0_IRQ)
<1>1. y \in Op
  BY LinesAre, NamesAre, DoType
<1>2. y.op = "quiet" /\ y.irq \in Irqs
  BY LinesAre DEF DoTo
<1>3. /\ Fresh(r) /\ Has(r, DoTo("context", I2C_0_IRQ, I2C_0_IRQ)) /\ Has(r, DoTo("active", I2C_0_IRQ, 1))
      /\ r \in Seq(Op)
  BY LinesAre, RegisterPiece DEF Fresh, CodePiece
<1>4. alt_avalon_i2c_init = <<y>> \o r
  BY DEF alt_avalon_i2c_init
<1> HIDE DEF y, r
<1>5. Fresh(<<y>>) /\ <<y>> \in Seq(Op)
  BY <1>1, <1>2, OneIs DEF Fresh
<1>6. Fresh(<<y>> \o r)
  BY <1>3, <1>5, FreshConcat
<1>7. Has(<<y>> \o r, DoTo("context", I2C_0_IRQ, I2C_0_IRQ)) /\ Has(<<y>> \o r, DoTo("active", I2C_0_IRQ, 1))
  BY <1>3, <1>5, HasConcat
<1> QED  BY <1>4, <1>6, <1>7

LEMMA JtagFresh ==
  /\ Fresh(altera_avalon_jtag_uart_init) /\ Has(altera_avalon_jtag_uart_init, Do("alarm_start"))
  /\ Has(altera_avalon_jtag_uart_init, DoTo("context", JTAG_UART_0_IRQ, JTAG_UART_0_IRQ))
  /\ Has(altera_avalon_jtag_uart_init, DoTo("active", JTAG_UART_0_IRQ, 1))
<1> DEFINE y == DoTo("start", JTAG_UART_0_IRQ, NULL)
           x == Do("alarm_start")
           r == alt_iic_isr_register(JTAG_UART_0_IRQ, JTAG_UART_0_IRQ)
<1>1. x \in Op /\ y \in Op
  BY LinesAre, NamesAre, DoType
<1>2. x.op = "alarm_start" /\ y.op = "start" /\ y.irq \in Irqs
  BY LinesAre DEF Do, DoTo
<1>3. /\ Fresh(r) /\ Has(r, DoTo("context", JTAG_UART_0_IRQ, JTAG_UART_0_IRQ))
      /\ Has(r, DoTo("active", JTAG_UART_0_IRQ, 1)) /\ r \in Seq(Op)
  BY LinesAre, RegisterPiece DEF Fresh, CodePiece
<1>4. altera_avalon_jtag_uart_init = (<<y>> \o r) \o <<x>>
  BY DEF altera_avalon_jtag_uart_init
<1> HIDE DEF x, y, r
<1>5. Fresh(<<y>>) /\ <<y>> \in Seq(Op) /\ Fresh(<<x>>) /\ Has(<<x>>, x) /\ <<x>> \in Seq(Op)
  BY <1>1, <1>2, OneIs DEF Fresh
<1>6. Fresh(<<y>> \o r) /\ <<y>> \o r \in Seq(Op)
  BY <1>3, <1>5, FreshConcat
<1>7. Has(<<y>> \o r, DoTo("context", JTAG_UART_0_IRQ, JTAG_UART_0_IRQ))
      /\ Has(<<y>> \o r, DoTo("active", JTAG_UART_0_IRQ, 1))
  BY <1>3, <1>5, HasConcat
<1>8. Fresh((<<y>> \o r) \o <<x>>) /\ Has((<<y>> \o r) \o <<x>>, x)
  BY <1>5, <1>6, FreshConcat, HasConcat
<1>9. Has((<<y>> \o r) \o <<x>>, DoTo("context", JTAG_UART_0_IRQ, JTAG_UART_0_IRQ))
      /\ Has((<<y>> \o r) \o <<x>>, DoTo("active", JTAG_UART_0_IRQ, 1))
  BY <1>5, <1>6, <1>7, HasConcat
<1> QED  BY <1>4, <1>8, <1>9 DEF x

LEMMA NeedsAfter ==
  ASSUME NEW a \in Seq(Op), NEW b \in Seq(Op), NEW x, NEW y, NEW m, NEW S, Needs(a, x, y, m, S), Has(a, Do(x))
  PROVE  Needs(a \o b, x, y, m, S)
<1>1. \E j \in 1..Len(a) : a[j].op = x
  BY DEF Has, Do
<1> QED  BY <1>1, NeedsConcat

LEMMA MainConcat ==
  ASSUME NEW a \in Seq(Op), NEW b \in Seq(Op), \A k \in 1..Len(a) : a[k].op # "main", MainLast(b)
  PROVE  MainLast(a \o b)
<1> DEFINE c == a \o b
           m == Len(a)
<1>1. /\ m \in Nat /\ Len(b) \in Nat /\ Len(c) = m + Len(b)
      /\ \A k \in 1..m : c[k] = a[k]
      /\ \A k \in 1..Len(b) : c[m + k] = b[k]
      /\ \A k \in 1..Len(c) : k \in 1..m \/ \E j \in 1..Len(b) : k = m + j
  BY ConcatIs
<1> HIDE DEF c, m
<1>2. ASSUME NEW k \in 1..Len(c), c[k].op = "main" PROVE Len(c) = k + 1 /\ c[k + 1] = Do("spin")
  <2>1. k \notin 1..m
    <3>1. SUFFICES ASSUME k \in 1..m PROVE FALSE
      OBVIOUS
    <3>2. c[k] = a[k] /\ a[k].op # "main"
      BY <1>1, <3>1 DEF m
    <3> QED  BY <1>2, <3>2
  <2>2. PICK j \in 1..Len(b) : k = m + j
    BY <1>1, <2>1
  <2>3. b[j].op = "main"
    BY <1>1, <1>2, <2>2
  <2>4. Len(b) = j + 1 /\ b[j + 1] = Do("spin")
    BY <2>3 DEF MainLast
  <2>5. j + 1 \in 1..Len(b) /\ m + (j + 1) = k + 1 /\ Len(c) = k + 1
    BY <1>1, <2>2, <2>4
  <2>6. c[m + (j + 1)] = b[j + 1]
    BY <1>1, <2>5
  <2> QED  BY <2>4, <2>5, <2>6
<1> QED  BY <1>2 DEF MainLast, c

LEMMA OpsConcat ==
  ASSUME NEW a \in Seq(Op), NEW b \in Seq(Op), NEW S,
         \A k \in 1..Len(a) : a[k].op \in S, \A k \in 1..Len(b) : b[k].op \in S
  PROVE  \A k \in 1..Len(a \o b) : (a \o b)[k].op \in S
<1>1. /\ \A k \in 1..Len(a) : (a \o b)[k] = a[k]
      /\ \A k \in 1..Len(b) : (a \o b)[Len(a) + k] = b[k]
      /\ \A k \in 1..Len(a \o b) : k \in 1..Len(a) \/ \E j \in 1..Len(b) : k = Len(a) + j
  BY ConcatIs
<1> QED  BY <1>1

(* A code without an operation needs nothing before it.                    *)
LEMMA NeedsNone ==
  ASSUME NEW a \in Seq(Op), NEW x, NEW y, NEW m, NEW S, \A k \in 1..Len(a) : a[k].op # y
  PROVE  Needs(a, x, y, m, S)
BY DEF Needs

(* The devices' part of alt_main.                                          *)
LEMMA SysFresh ==
  /\ Fresh(alt_sys_init) /\ alt_sys_init \in Seq(Op)
  /\ Has(alt_sys_init, Do("sysclk_init")) /\ Has(alt_sys_init, Do("alarm_start")) /\ Has(alt_sys_init, Do("dev_reg"))
  /\ \A i \in Irqs : Has(alt_sys_init, DoTo("context", i, i)) /\ Has(alt_sys_init, DoTo("active", i, 1))
  /\ \A S : Needs(alt_sys_init, "sysclk_init", "alarm_start", "clock", S)
<1> DEFINE T == alt_avalon_timer_sc_init
           I == alt_avalon_i2c_init
           J == altera_avalon_jtag_uart_init
           x == Do("dev_reg")
           X == <<x>>
<1>1. alt_sys_init = ((T \o I) \o J) \o X
  BY DEF alt_sys_init
<1>2. /\ Fresh(T) /\ Has(T, Do("sysclk_init"))
      /\ Has(T, DoTo("context", TIMER_0_IRQ, TIMER_0_IRQ)) /\ Has(T, DoTo("active", TIMER_0_IRQ, 1))
  BY TimerFresh
<1>3. Fresh(I) /\ Has(I, DoTo("context", I2C_0_IRQ, I2C_0_IRQ)) /\ Has(I, DoTo("active", I2C_0_IRQ, 1))
  BY I2cFresh
<1>4. /\ Fresh(J) /\ Has(J, Do("alarm_start"))
      /\ Has(J, DoTo("context", JTAG_UART_0_IRQ, JTAG_UART_0_IRQ)) /\ Has(J, DoTo("active", JTAG_UART_0_IRQ, 1))
  BY JtagFresh
<1>5. Fresh(X) /\ Has(X, x)
  <2>1. x \in Op
    BY LinesAre, NamesAre, DoType
  <2>2. x.op = "dev_reg"
    BY DEF Do
  <2> HIDE DEF x
  <2> QED  BY <2>1, <2>2, OneIs DEF Fresh
<1>6. Needs(T, "sysclk_init", "alarm_start", "clock", {})
  <2> DEFINE u == Do("sysclk_init")
             v == DoTo("start", TIMER_0_IRQ, NULL)
             r == alt_iic_isr_register(TIMER_0_IRQ, TIMER_0_IRQ)
  <2>1. u \in Op /\ v \in Op
    BY LinesAre, NamesAre, DoType
  <2>2. u.op = "sysclk_init" /\ v.op = "start"
    BY DEF Do, DoTo
  <2>3. r \in Seq(Op)
    BY LinesAre, RegisterPiece DEF CodePiece
  <2>4. T = <<u, v>> \o r
    BY DEF alt_avalon_timer_sc_init
  <2> HIDE DEF u, v, r, T
  <2>5. Needs(<<u, v>>, "sysclk_init", "alarm_start", "clock", {})
    <3>1. \A k \in 1..Len(<<u, v>>) : <<u, v>>[k].op # "alarm_start"
      BY <2>2
    <3> QED  BY <2>1, <3>1, NeedsNone, PairIs
  <2>6. Has(<<u, v>>, u)
    <3>1. 1 \in 1..Len(<<u, v>>) /\ <<u, v>>[1] = u
      OBVIOUS
    <3> QED  BY <3>1 DEF Has
  <2>7. <<u, v>> \in Seq(Op) /\ u = Do("sysclk_init")
    BY <2>1, PairIs DEF u
  <2> HIDE DEF u
  <2> QED  BY <2>3, <2>4, <2>5, <2>6, <2>7, NeedsAfter
<1> HIDE DEF T, I, J, X, x
<1> DEFINE TI == T \o I
           TIJ == TI \o J
<1>7. T \in Seq(Op) /\ I \in Seq(Op) /\ Fresh(TI) /\ TI \in Seq(Op)
  BY <1>2, <1>3, FreshConcat
<1>8. /\ Has(TI, Do("sysclk_init"))
      /\ Has(TI, DoTo("context", TIMER_0_IRQ, TIMER_0_IRQ)) /\ Has(TI, DoTo("active", TIMER_0_IRQ, 1))
      /\ Has(TI, DoTo("context", I2C_0_IRQ, I2C_0_IRQ)) /\ Has(TI, DoTo("active", I2C_0_IRQ, 1))
  BY <1>2, <1>3, <1>7, HasConcat
<1>9. Needs(TI, "sysclk_init", "alarm_start", "clock", {})
  BY <1>2, <1>6, <1>7, NeedsAfter
<1> HIDE DEF TI
<1>10. J \in Seq(Op) /\ Fresh(TIJ) /\ TIJ \in Seq(Op)
  BY <1>4, <1>7, FreshConcat
<1>11. /\ Has(TIJ, Do("sysclk_init")) /\ Has(TIJ, Do("alarm_start"))
       /\ Has(TIJ, DoTo("context", TIMER_0_IRQ, TIMER_0_IRQ)) /\ Has(TIJ, DoTo("active", TIMER_0_IRQ, 1))
       /\ Has(TIJ, DoTo("context", I2C_0_IRQ, I2C_0_IRQ)) /\ Has(TIJ, DoTo("active", I2C_0_IRQ, 1))
       /\ Has(TIJ, DoTo("context", JTAG_UART_0_IRQ, JTAG_UART_0_IRQ)) /\ Has(TIJ, DoTo("active", JTAG_UART_0_IRQ, 1))
  BY <1>4, <1>7, <1>8, <1>10, HasConcat
<1>12. Needs(TIJ, "sysclk_init", "alarm_start", "clock", {})
  BY <1>7, <1>8, <1>9, <1>10, NeedsAfter
<1> HIDE DEF TIJ
<1> DEFINE c == TIJ \o X
<1>13. X \in Seq(Op) /\ Fresh(c) /\ c \in Seq(Op)
  BY <1>5, <1>10, FreshConcat
<1>14. /\ Has(c, Do("sysclk_init")) /\ Has(c, Do("alarm_start")) /\ Has(c, x)
       /\ Has(c, DoTo("context", TIMER_0_IRQ, TIMER_0_IRQ)) /\ Has(c, DoTo("active", TIMER_0_IRQ, 1))
       /\ Has(c, DoTo("context", I2C_0_IRQ, I2C_0_IRQ)) /\ Has(c, DoTo("active", I2C_0_IRQ, 1))
       /\ Has(c, DoTo("context", JTAG_UART_0_IRQ, JTAG_UART_0_IRQ)) /\ Has(c, DoTo("active", JTAG_UART_0_IRQ, 1))
  BY <1>5, <1>10, <1>11, <1>13, HasConcat
<1>15. Needs(c, "sysclk_init", "alarm_start", "clock", {})
  BY <1>10, <1>11, <1>12, <1>13, NeedsAfter
<1>16. alt_sys_init = c
  BY <1>1 DEF TIJ, TI
<1> HIDE DEF c
<1>17. \A i \in Irqs : Has(c, DoTo("context", i, i)) /\ Has(c, DoTo("active", i, 1))
  BY <1>14 DEF Irqs
<1>18. \A S : Needs(c, "sysclk_init", "alarm_start", "clock", S)
  BY <1>15 DEF Needs
<1> QED  BY <1>13, <1>14, <1>16, <1>17, <1>18 DEF x

(* Steps that change no depth.                                             *)
LEMMA NestsFlat ==
  ASSUME NEW x \in Op, NEW y \in Op, x.op \notin {"disable_all", "enable_all"}, y.op \notin {"disable_all", "enable_all"},
         NEW d \in 0..3, Stands(x.op, d), Stands(y.op, d)
  PROVE  Nests(<<x, y>>, d, d) /\ Nests(<<x>>, d, d)
<1>1. Change(x.op) = 0 /\ Change(y.op) = 0 /\ d + 0 = d
  BY DEF Change
<1>2. Nests(<<x>>, d, d + Change(x.op)) /\ Nests(<<y>>, d, d + Change(y.op))
  BY <1>1, NestsOne
<1>3. <<x>> \in Seq(Op) /\ <<y>> \in Seq(Op)
  OBVIOUS
<1>4. Nests(<<x>>, d, d) /\ Nests(<<y>>, d, d)
  BY <1>1, <1>2
<1>5. Nests(<<x>> \o <<y>>, d, d)
  BY <1>3, <1>4, NestsConcat
<1> QED  BY <1>4, <1>5, PairIs

LastCalls == <<Do("main"), Do("spin")>>

LEMMA FinishIs ==
  /\ LastCalls \in Seq(Op) /\ Len(LastCalls) = 2 /\ LastCalls[1] = Do("main") /\ LastCalls[2] = Do("spin")
  /\ Nests(LastCalls, 0, 0) /\ Chain(LastCalls) /\ MainLast(LastCalls)
  /\ \A k \in 1..Len(LastCalls) : LastCalls[k].op \in {"main", "spin"}
<1> DEFINE x == Do("main")
           y == Do("spin")
<1>1. x \in Op /\ y \in Op
  BY LinesAre, NamesAre, DoType
<1>2. x.op = "main" /\ y.op = "spin"
  BY DEF Do
<1> HIDE DEF x, y
<1>3. Nests(<<x, y>>, 0, 0)
  <2>1. Stands(x.op, 0) /\ Stands(y.op, 0)
    BY <1>2 DEF Stands, Inside, Outside
  <2>2. x.op \notin {"disable_all", "enable_all"} /\ y.op \notin {"disable_all", "enable_all"} /\ 0 \in 0..3
    BY <1>2
  <2> QED  BY <1>1, <2>1, <2>2, NestsFlat
<1> DEFINE c == <<x, y>>
<1>4. c \in Seq(Op) /\ Len(c) = 2 /\ c[1] = x /\ c[2] = y
  BY <1>1
<1> HIDE DEF c
<1>5. ASSUME NEW k \in 1..Len(c) PROVE k = 1 \/ k = 2
  BY <1>4
<1>6. \A k \in 1..Len(c) : c[k].op \in {"main", "spin"}
  BY <1>2, <1>4, <1>5
<1>7. Chain(c)
  BY <1>6 DEF Chain, Follows
<1>8. MainLast(c)
  <2>1. ASSUME NEW k \in 1..Len(c), c[k].op = "main" PROVE Len(c) = k + 1 /\ c[k + 1] = y
    <3>1. k = 1
      BY <1>2, <1>4, <1>5, <2>1
    <3> QED  BY <1>4, <3>1
  <2> QED  BY <2>1 DEF MainLast, y
<1>9. Nests(c, 0, 0)
  BY <1>3 DEF c
<1>10. c = LastCalls
  BY DEF c, x, y, LastCalls
<1> QED  BY <1>4, <1>6, <1>7, <1>8, <1>9, <1>10 DEF x, y

LEMMA InitIs ==
  /\ alt_irq_init \in Seq(Op) /\ Len(alt_irq_init) = 2
  /\ alt_irq_init[1] = Do("clear_ienable") /\ alt_irq_init[2] = Do("cpu_enable_interrupts")
  /\ Nests(alt_irq_init, 0, 0) /\ Chain(alt_irq_init)
  /\ \A k \in 1..Len(alt_irq_init) : alt_irq_init[k].op \in {"clear_ienable", "cpu_enable_interrupts"}
<1> DEFINE x == Do("clear_ienable")
           y == Do("cpu_enable_interrupts")
<1>1. x \in Op /\ y \in Op
  BY LinesAre, NamesAre, DoType
<1>2. x.op = "clear_ienable" /\ y.op = "cpu_enable_interrupts"
  BY DEF Do
<1> HIDE DEF x, y
<1>3. Nests(<<x, y>>, 0, 0)
  <2>1. Stands(x.op, 0) /\ Stands(y.op, 0)
    BY <1>2 DEF Stands, Inside, Outside
  <2>2. x.op \notin {"disable_all", "enable_all"} /\ y.op \notin {"disable_all", "enable_all"} /\ 0 \in 0..3
    BY <1>2
  <2> QED  BY <1>1, <2>1, <2>2, NestsFlat
<1> DEFINE c == <<x, y>>
<1>4. c \in Seq(Op) /\ Len(c) = 2 /\ c[1] = x /\ c[2] = y
  BY <1>1
<1> HIDE DEF c
<1>5. ASSUME NEW k \in 1..Len(c) PROVE k = 1 \/ k = 2
  BY <1>4
<1>6. \A k \in 1..Len(c) : c[k].op \in {"clear_ienable", "cpu_enable_interrupts"}
  BY <1>2, <1>4, <1>5
<1>7. Chain(c)
  <2>1. ASSUME NEW k \in 1..Len(c) PROVE Follows(c, k)
    <3>1. CASE k = 1
      <4>1. k + 1 <= Len(c) /\ c[k + 1] = y /\ c[k].op = "clear_ienable"
        BY <1>2, <1>4, <3>1
      <4> QED  BY <4>1 DEF Follows, y
    <3>2. CASE k = 2
      <4>1. c[k].op = "cpu_enable_interrupts"
        BY <1>2, <1>4, <3>2
      <4> QED  BY <4>1 DEF Follows
    <3> QED  BY <1>5, <3>1, <3>2
  <2> QED  BY <2>1 DEF Chain
<1>8. Nests(c, 0, 0)
  BY <1>3 DEF c
<1>9. c = alt_irq_init
  BY DEF c, x, y, alt_irq_init
<1> QED  BY <1>4, <1>6, <1>7, <1>8, <1>9 DEF x, y

LEMMA PlainPrepared ==
  ASSUME NEW c \in Seq(Op), NEW S, \A k \in 1..Len(c) : c[k].op \notin {"handler", "context", "active"}
  PROVE  Plain(c) /\ NoNull(c) /\ Prepared(c, S)
BY DEF Plain, NoNull, Prepared

(* The whole of alt_main.                                                  *)
LEMMA AltMainIs ==
  /\ alt_main \in Seq(Op) /\ Nests(alt_main, 0, 0) /\ Len(alt_main) >= 2
  /\ alt_main[1] = Do("clear_ienable") /\ alt_main[2] = Do("cpu_enable_interrupts")
  /\ Program(alt_main, {}) /\ Prepared(alt_main, {}) /\ NoNull(alt_main)
  /\ \A t : t \in Tables => StillAhead(alt_main, t, {}, {})
  /\ Needs(alt_main, "sysclk_init", "alarm_start", "clock", {})
  /\ Needs(alt_main, "dev_reg", "io_redirect", "console", {})
<1> DEFINE x == Do("io_redirect")
           X == alt_irq_init
           Y == alt_sys_init
           Z == <<x>> \o LastCalls
           c == (X \o Y) \o Z
<1>1. alt_main = c
  <2>1. Do("main") \in Op /\ Do("spin") \in Op /\ x \in Op
    BY LinesAre, NamesAre, DoType
  <2> DEFINE u == Do("main")
             v == Do("spin")
             p == <<x, u, v>>
             a == <<x>>
             b == <<u, v>>
  <2>2. p \in Seq(Op) /\ Len(p) = 3 /\ p[1] = x /\ p[2] = u /\ p[3] = v
    BY <2>1
  <2>3. a \in Seq(Op) /\ b \in Seq(Op) /\ Len(a) = 1 /\ Len(b) = 2 /\ a[1] = x /\ b[1] = u /\ b[2] = v
    BY <2>1
  <2>4. alt_main = (X \o Y) \o p /\ b = LastCalls
    BY DEF alt_main, LastCalls
  <2> DEFINE q == a \o b
  <2> HIDE DEF a, b, p, u, v
  <2>5. /\ q \in Seq(Op) /\ Len(q) = Len(a) + Len(b)
        /\ \A k \in 1..Len(a) : q[k] = a[k]
        /\ \A k \in 1..Len(b) : q[Len(a) + k] = b[k]
    BY <2>3, ConcatIs
  <2> HIDE DEF q
  <2>6. Len(q) = 3 /\ q[1] = x /\ q[1 + 1] = u /\ q[1 + 2] = v
    BY <2>3, <2>5
  <2>7. \A k \in 1..Len(p) : p[k] = q[k]
    <3> TAKE k \in 1..Len(p)
    <3>1. (k = 1 \/ k = 2 \/ k = 3) /\ 1 + 1 = 2 /\ 1 + 2 = 3
      BY <2>2
    <3> QED  BY <2>2, <2>6, <3>1
  <2>8. p = q
    BY <2>2, <2>5, <2>6, <2>7, SeqEqual
  <2> QED  BY <2>4, <2>8 DEF a, q
<1>2. x \in Op /\ x.op = "io_redirect"
  <2>1. x \in Op
    BY LinesAre, NamesAre, DoType
  <2> QED  BY <2>1 DEF Do
<1>3. /\ X \in Seq(Op) /\ Len(X) = 2 /\ X[1] = Do("clear_ienable") /\ X[2] = Do("cpu_enable_interrupts")
      /\ Nests(X, 0, 0) /\ Chain(X) /\ \A k \in 1..Len(X) : X[k].op \in {"clear_ienable", "cpu_enable_interrupts"}
  BY InitIs
<1>4. /\ Fresh(Y) /\ Y \in Seq(Op)
      /\ Has(Y, Do("sysclk_init")) /\ Has(Y, Do("alarm_start")) /\ Has(Y, Do("dev_reg"))
      /\ \A i \in Irqs : Has(Y, DoTo("context", i, i)) /\ Has(Y, DoTo("active", i, 1))
      /\ Needs(Y, "sysclk_init", "alarm_start", "clock", {})
  BY SysFresh
<1>5. /\ Z \in Seq(Op) /\ Nests(Z, 0, 0) /\ Chain(Z) /\ MainLast(Z) /\ Has(Z, x)
      /\ \A k \in 1..Len(Z) : Z[k].op \in {"io_redirect", "main", "spin"}
  <2> HIDE DEF x
  <2>1. <<x>> \in Seq(Op) /\ Nests(<<x>>, 0, 0)
    <3>1. Stands(x.op, 0)
      BY <1>2 DEF Stands, Inside, Outside
    <3>2. x.op \notin {"disable_all", "enable_all"} /\ 0 \in 0..3
      BY <1>2
    <3>3. <<x>> \in Seq(Op)
      BY <1>2
    <3> QED  BY <1>2, <3>1, <3>2, <3>3, NestsFlat
  <2> DEFINE a == <<x>>
  <2>2. a \in Seq(Op) /\ Len(a) = 1 /\ a[1] = x
    BY <1>2
  <2> HIDE DEF a
  <2>3. \A k \in 1..Len(a) : a[k] = x
    BY <2>2
  <2>4. \A k \in 1..Len(a) : a[k].op \in {"io_redirect"}
    BY <1>2, <2>3
  <2>5. Chain(a)
    BY <2>4 DEF Chain, Follows
  <2>6. Nests(a, 0, 0)
    BY <2>1 DEF a
  <2>7. Has(a, x)
    <3>1. 1 \in 1..Len(a)
      BY <2>2
    <3> QED  BY <2>2, <3>1 DEF Has
  <2>8. /\ a \o LastCalls \in Seq(Op) /\ Nests(a \o LastCalls, 0, 0) /\ Chain(a \o LastCalls) /\ Has(a \o LastCalls, x)
    BY <2>2, <2>5, <2>6, <2>7, FinishIs, NestsConcat, ChainConcat, HasConcat, ConcatIs
  <2>9. MainLast(a \o LastCalls)
    BY <2>2, <2>4, FinishIs, MainConcat
  <2>10. \A k \in 1..Len(a \o LastCalls) : (a \o LastCalls)[k].op \in {"io_redirect", "main", "spin"}
    BY <2>2, <2>4, FinishIs, OpsConcat
  <2> QED  BY <2>8, <2>9, <2>10 DEF a
<1> DEFINE XY == X \o Y
<1> HIDE DEF X, Y, Z, x
<1>6. \A k \in 1..Len(Y) : Y[k].op \in PieceOps
  BY <1>4 DEF Fresh, CodePiece
<1>7. Nests(Y, 0, 0) /\ Chain(Y) /\ NoNull(Y) /\ Prepared(Y, {})
  BY <1>4 DEF Fresh, CodePiece
<1>8. XY \in Seq(Op) /\ Nests(XY, 0, 0) /\ Chain(XY)
  BY <1>3, <1>4, <1>7, NestsConcat, ChainConcat, ConcatIs
<1>9. c = XY \o Z
  OBVIOUS
<1>10. c \in Seq(Op) /\ Nests(c, 0, 0) /\ Chain(c)
  BY <1>5, <1>8, NestsConcat, ChainConcat, ConcatIs
<1>11. /\ Len(XY) = 2 + Len(Y) /\ Len(Y) \in Nat
       /\ \A k \in 1..2 : XY[k] = X[k]
       /\ \A k \in 1..Len(Y) : XY[2 + k] = Y[k]
       /\ \A k \in 1..Len(XY) : k \in 1..2 \/ \E j \in 1..Len(Y) : k = 2 + j
  <2>1. /\ Len(XY) = Len(X) + Len(Y) /\ Len(Y) \in Nat
        /\ \A k \in 1..Len(X) : XY[k] = X[k]
        /\ \A k \in 1..Len(Y) : XY[Len(X) + k] = Y[k]
        /\ \A k \in 1..Len(XY) : k \in 1..Len(X) \/ \E j \in 1..Len(Y) : k = Len(X) + j
    BY <1>3, <1>4, ConcatIs
  <2> HIDE DEF XY
  <2> QED  BY <1>3, <2>1
<1>12. ASSUME NEW k \in 1..Len(XY)
       PROVE  XY[k].op \in PieceOps \cup {"clear_ienable", "cpu_enable_interrupts"}
              /\ (XY[k].op = "cpu_enable_interrupts" => k = 2)
  <2>1. CASE k \in 1..2
    <3>1. XY[k] = X[k] /\ X[k].op \in {"clear_ienable", "cpu_enable_interrupts"} /\ (k = 1 \/ k = 2)
      BY <1>3, <1>11, <2>1
    <3>2. X[1].op = "clear_ienable"
      BY <1>3 DEF Do
    <3> QED  BY <3>1, <3>2
  <2>2. ASSUME NEW j \in 1..Len(Y), k = 2 + j
        PROVE  XY[k].op \in PieceOps /\ XY[k].op # "cpu_enable_interrupts"
    <3>1. XY[k] = Y[j] /\ Y[j].op \in PieceOps
      BY <1>6, <1>11, <2>2
    <3> QED  BY <3>1 DEF PieceOps
  <2> QED  BY <1>11, <2>1, <2>2
<1>13. /\ Len(c) = Len(XY) + Len(Z) /\ Len(XY) \in Nat /\ Len(Z) \in Nat
       /\ \A k \in 1..Len(XY) : c[k] = XY[k]
       /\ \A k \in 1..Len(Z) : c[Len(XY) + k] = Z[k]
       /\ \A k \in 1..Len(c) : k \in 1..Len(XY) \/ \E j \in 1..Len(Z) : k = Len(XY) + j
  BY <1>5, <1>8, ConcatIs
<1>14. Prepared(XY, {}) /\ NoNull(XY)
  <2>1. \A k \in 1..Len(X) : X[k].op \notin {"handler", "context", "active"}
    BY <1>3
  <2>2. Plain(X) /\ NoNull(X) /\ Prepared(X, {})
    BY <1>3, <2>1, PlainPrepared
  <2>3. Prepared(X \o Y, {})
    BY <1>3, <1>4, <1>7, <2>2, PreparedConcat
  <2>4. ASSUME NEW k \in 1..Len(XY) PROVE (XY[k].op = "active" => XY[k].arg = 1)
                                  /\ (XY[k].op \in {"handler", "context"} => XY[k].arg # NULL)
    <3>1. CASE k \in 1..2
      <4>1. XY[k] = X[k] /\ k \in 1..Len(X)
        BY <1>3, <1>11, <3>1
      <4> QED  BY <2>1, <4>1
    <3>2. ASSUME NEW j \in 1..Len(Y), k = 2 + j
          PROVE  (XY[k].op = "active" => XY[k].arg = 1) /\ (XY[k].op \in {"handler", "context"} => XY[k].arg # NULL)
      <4>1. XY[k] = Y[j]
        BY <1>11, <3>2
      <4> QED  BY <1>7, <4>1 DEF NoNull
    <3> QED  BY <1>11, <3>1, <3>2
  <2> QED  BY <2>3, <2>4 DEF NoNull
<1>15. Needs(XY, "sysclk_init", "alarm_start", "clock", {}) /\ Needs(XY, "dev_reg", "io_redirect", "console", {})
  <2>1. \A k \in 1..Len(X) : X[k].op # "alarm_start"
    BY <1>3
  <2>2. \A k \in 1..Len(XY) : XY[k].op # "io_redirect"
    BY <1>12 DEF PieceOps
  <2>3. Needs(X, "sysclk_init", "alarm_start", "clock", {})
    BY <1>3, <2>1, NeedsNone
  <2>4. Needs(X \o Y, "sysclk_init", "alarm_start", "clock", {})
    BY <1>3, <1>4, <2>3, NeedsConcat
  <2>5. Needs(XY, "dev_reg", "io_redirect", "console", {})
    BY <1>8, <2>2, NeedsNone
  <2> QED  BY <2>4, <2>5
<1>16. /\ Has(XY, Do("sysclk_init")) /\ Has(XY, Do("alarm_start")) /\ Has(XY, Do("dev_reg"))
       /\ \A i \in Irqs : Has(XY, DoTo("context", i, i)) /\ Has(XY, DoTo("active", i, 1))
  BY <1>3, <1>4, HasConcat
<1> HIDE DEF XY
<1>17. /\ Has(c, Do("sysclk_init")) /\ Has(c, Do("alarm_start")) /\ Has(c, Do("dev_reg")) /\ Has(c, Do("io_redirect"))
       /\ \A i \in Irqs : Has(c, DoTo("context", i, i)) /\ Has(c, DoTo("active", i, 1))
  <2>1. Has(Z, Do("io_redirect"))
    BY <1>5 DEF x
  <2> QED  BY <1>5, <1>8, <1>9, <1>16, <2>1, HasConcat
<1>18. Needs(c, "sysclk_init", "alarm_start", "clock", {}) /\ Needs(c, "dev_reg", "io_redirect", "console", {})
  BY <1>5, <1>8, <1>9, <1>15, <1>16, NeedsAfter
<1>19. \A k \in 1..Len(Z) : Z[k].op \notin {"handler", "context", "active"}
  BY <1>5
<1>20. Plain(Z) /\ NoNull(Z) /\ Prepared(Z, {})
  BY <1>5, <1>19, PlainPrepared
<1>21. Prepared(c, {})
  BY <1>5, <1>8, <1>9, <1>14, <1>20, PreparedConcat
<1>22. \A k \in 1..Len(XY) : XY[k].op # "main"
  BY <1>12 DEF PieceOps
<1>23. MainLast(c)
  BY <1>5, <1>8, <1>9, <1>22, MainConcat
<1>24. \A k \in 1..Len(c) : c[k].op \in ProgramOps
  <2>1. \A k \in 1..Len(XY) : XY[k].op \in ProgramOps
    BY <1>12 DEF PieceOps, ProgramOps
  <2>2. \A k \in 1..Len(Z) : Z[k].op \in ProgramOps
    BY <1>5 DEF ProgramOps
  <2> QED  BY <1>5, <1>8, <1>9, <2>1, <2>2, OpsConcat
<1> HIDE DEF c
<1>25. NoNull(c)
  <2>1. ASSUME NEW k \in 1..Len(c) PROVE (c[k].op = "active" => c[k].arg = 1)
                                  /\ (c[k].op \in {"handler", "context"} => c[k].arg # NULL)
    <3>1. CASE k \in 1..Len(XY)
      <4>1. c[k] = XY[k]
        BY <1>13, <3>1
      <4> QED  BY <1>14, <3>1, <4>1 DEF NoNull
    <3>2. ASSUME NEW j \in 1..Len(Z), k = Len(XY) + j
          PROVE  (c[k].op = "active" => c[k].arg = 1) /\ (c[k].op \in {"handler", "context"} => c[k].arg # NULL)
      <4>1. c[k] = Z[j]
        BY <1>13, <3>2
      <4> QED  BY <1>19, <4>1
    <3> QED  BY <1>13, <3>1, <3>2
  <2> QED  BY <2>1 DEF NoNull
<1>26. c[1] = Do("clear_ienable") /\ c[2] = Do("cpu_enable_interrupts") /\ Len(c) >= 2
  <2>1. 1 \in 1..Len(XY) /\ 2 \in 1..Len(XY) /\ 1 \in 1..2 /\ 2 \in 1..2 /\ Len(c) >= 2
    BY <1>11, <1>13
  <2>2. c[1] = XY[1] /\ c[2] = XY[2] /\ XY[1] = X[1] /\ XY[2] = X[2]
    BY <1>11, <1>13, <2>1
  <2> QED  BY <1>3, <2>1, <2>2
<1>27. ASSUME NEW k \in 1..Len(c), c[k].op = "cpu_enable_interrupts"
       PROVE  k = 2 /\ c[1].op = "clear_ienable"
  <2>1. k \in 1..Len(XY)
    <3>1. SUFFICES ASSUME NEW j \in 1..Len(Z), k = Len(XY) + j PROVE FALSE
      BY <1>13
    <3>2. c[k] = Z[j] /\ Z[j].op # "cpu_enable_interrupts"
      BY <1>5, <1>13, <3>1
    <3> QED  BY <1>27, <3>2
  <2>2. c[k] = XY[k]
    BY <1>13, <2>1
  <2>3. k = 2
    BY <1>12, <1>27, <2>1, <2>2
  <2> QED  BY <1>26, <2>3 DEF Do
<1>31. Led(c)
  <2>1. Introduced(X) /\ Introduced(Z)
    <3>1. /\ \A k \in 1..Len(X) : X[k].op # "context"
          /\ \A k \in 1..Len(Z) : Z[k].op # "context"
      BY <1>3, <1>5
    <3> QED  BY <1>3, <1>5, <3>1, IntroducedNone
  <2>2. Introduced(Y)
    BY <1>4 DEF Fresh, CodePiece
  <2>3. Introduced(XY) /\ XY \in Seq(Op)
    BY <1>3, <1>4, <1>8, <2>1, <2>2, IntroducedConcat DEF XY
  <2>4. Introduced(XY \o Z)
    BY <1>5, <2>1, <2>3, IntroducedConcat
  <2>5. Introduced(c)
    BY <1>9, <2>4
  <2> QED  BY <1>10, <2>5, IntroducedLed
<1>28. Program(c, {})
  BY <1>10, <1>23, <1>24, <1>27, <1>31 DEF Program
<1>29. \A t : t \in Tables => StillAhead(c, t, {}, {})
  BY <1>17 DEF StillAhead
<1> QED  BY <1>1, <1>10, <1>18, <1>21, <1>25, <1>26, <1>28, <1>29

LEMMA IrqInitInv ==
  ASSUME InterruptsAssumption, IrqInit
  PROVE  IrqInv
<1> DEFINE f == Frame("program", alt_main)
<1>1. frames = <<f>> /\ pie = FALSE /\ calls = 0 /\ traps = 0 /\ board = {} /\ alt_irq_active = {}
      /\ alt_instruction_exception_handler = FALSE
  BY DEF IrqInit
<1>2. ienable \subseteq Irqs /\ lines \subseteq Irqs /\ started = lines
  BY DEF IrqInit
<1>3. requests \in [Irqs -> 0..MaxRequests] /\ calls \in 0..MaxCalls /\ traps \in 0..MaxTraps
  <2>1. MaxRequests \in Nat /\ MaxCalls \in Nat /\ MaxTraps \in Nat
    BY DEF InterruptsAssumption
  <2>2. requests = [i \in Irqs |-> 0]
    BY DEF IrqInit
  <2> QED  BY <1>1, <2>1, <2>2
<1>4. \A i \in Irqs : alt_irq[i] = Entry(NULL, NULL)
  BY DEF IrqInit, Entry
<1>5. alt_irq \in Tables
  BY DEF IrqInit, Tables
<1>6. /\ alt_main \in Seq(Op) /\ Nests(alt_main, 0, 0) /\ Len(alt_main) >= 2
      /\ alt_main[1] = Do("clear_ienable") /\ alt_main[2] = Do("cpu_enable_interrupts")
      /\ Program(alt_main, {}) /\ Prepared(alt_main, {}) /\ NoNull(alt_main)
      /\ StillAhead(alt_main, alt_irq, {}, {})
      /\ Needs(alt_main, "sysclk_init", "alarm_start", "clock", {})
      /\ Needs(alt_main, "dev_reg", "io_redirect", "console", {})
  BY <1>5, AltMainIs
<1>7. alt_main[1].op = "clear_ienable" /\ alt_main[2].op = "cpu_enable_interrupts" /\ alt_main # <<>>
  BY <1>6 DEF Do
<1> DEFINE c == alt_main
<1> HIDE DEF c
<1>8. /\ f \in Frames /\ f.code = c /\ f.saved = <<>> /\ f.kind = "program"
  <2>1. f = [kind |-> "program", code |-> c, saved |-> <<>>, estatus |-> FALSE, skip |-> FALSE, pending |-> {}]
    BY <1>1 DEF Frame, c
  <2>2. c \in Seq(Op) /\ <<>> \in Seq(BOOLEAN) /\ {} \in SUBSET Irqs /\ FALSE \in BOOLEAN
    BY <1>6 DEF c
  <2>3. "program" \in {"program", "entry", "interrupt", "exception"}
    OBVIOUS
  <2> HIDE DEF f
  <2> QED  BY <2>1, <2>2, <2>3 DEF Frames
<1> HIDE DEF f
<1>9. Len(frames) = 1 /\ frames[1] = f /\ frames \in Seq(Frames)
  BY <1>1, <1>8
<1>10. Len(f.saved) = 0
  BY <1>8
<1>11. Base(f)
  <2>1. Whole(f)
    BY <1>6, <1>8, <1>10 DEF Whole, c
  <2> QED  BY <1>8, <1>10, <2>1 DEF Base
<1>12. ~Level(f)
  <2>1. 2 \in 1..Len(c)
    BY <1>6 DEF c
  <2> QED  BY <1>7, <1>8, <2>1 DEF Level, SwitchedOn, c
<1>13. Stack(frames, pie, ienable, ipending # {})
  BY <1>1, <1>9, <1>11, <1>12 DEF Stack, Alone, Says
<1>14. Handled(c, alt_irq)
  BY <1>4, <1>5, <1>7 DEF Handled, SetsContext, c
<1>15. Masked(c, <<>>, alt_irq, ienable, {})
  BY <1>2, <1>7 DEF Masked, c
<1>16. Registered(alt_irq) = {}
  BY <1>4, LinesAre DEF Registered, Entry
<1>17. StartOrder(c, alt_irq, {}, {}, 0)
  BY <1>6 DEF StartOrder, c
<1>18. CodeOrder(c, <<>>, alt_irq, ienable, {}, {}, 0)
  BY <1>6, <1>14, <1>15, <1>16, <1>17 DEF CodeOrder, c
<1>19. Others
  BY <1>1, <1>2, <1>3 DEF Others
<1> QED  BY <1>1, <1>8, <1>9, <1>13, <1>18, <1>19 DEF IrqInv

(* What stays of each part when the program takes a step.                  *)
LEMMA ProgramTail ==
  ASSUME NEW c \in Seq(Op), c # <<>>, NEW b, Program(c, b)
  PROVE  /\ Program(Tail(c), b) /\ Follows(c, 1)
         /\ c[1].op \notin {"clear_ienable", "cpu_enable_interrupts"} =>
              SwitchedOn(c) /\ SwitchedOn(Tail(c)) /\ \A d : Program(Tail(c), d)
         /\ c[1].op = "clear_ienable" => ~SwitchedOn(c) /\ ~SwitchedOn(Tail(c))
         /\ c[1].op = "cpu_enable_interrupts" => ~SwitchedOn(c) /\ SwitchedOn(Tail(c))
<1>1. /\ Tail(c) \in Seq(Op) /\ Len(c) \in Nat \ {0} /\ Len(Tail(c)) = Len(c) - 1
      /\ \A k \in 1..Len(c) - 1 : k + 1 \in 1..Len(c) /\ Tail(c)[k] = c[k + 1]
  BY TailIs
<1>2. Chain(Tail(c)) /\ Follows(c, 1)
  BY ChainTail DEF Program
<1> DEFINE m == Len(c)
           t == Tail(c)
<1> HIDE DEF m, t
<1>3. /\ m \in Nat \ {0} /\ Len(t) = m - 1
      /\ \A k \in 1..m - 1 : k + 1 \in 1..m /\ t[k] = c[k + 1]
  BY <1>1 DEF m, t
<1>31. /\ \A k \in 1..m : c[k].op \in ProgramOps
       /\ \A k \in 1..m : c[k].op = "context" => k = 1 \/ (k - 1 \in 1..m /\ c[k - 1].op = "handler")
       /\ \A k \in 1..m : c[k].op = "main" => m = k + 1 /\ c[k + 1] = Do("spin")
       /\ \A k \in 1..m : c[k].op = "cpu_enable_interrupts" =>
            "clock" \notin b /\ (k = 1 \/ (k = 2 /\ c[1].op = "clear_ienable"))
  BY DEF Program, m, Led, MainLast
<1>4. Led(t)
  <2>1. ASSUME NEW k \in 1..Len(t), t[k].op = "context", k # 1
        PROVE  k - 1 \in 1..Len(t) /\ t[k - 1].op = "handler"
    <3>1. k \in 1..m - 1 /\ k - 1 \in 1..m - 1 /\ k + 1 # 1
      BY <1>3, <2>1
    <3>2. k + 1 \in 1..m /\ t[k] = c[k + 1] /\ t[k - 1] = c[(k - 1) + 1] /\ (k - 1) + 1 = k /\ (k + 1) - 1 = k
      BY <1>3, <3>1
    <3>3. c[(k + 1) - 1].op = "handler"
      BY <1>31, <2>1, <3>1, <3>2
    <3> QED  BY <1>3, <3>1, <3>2, <3>3
  <2> QED  BY <2>1 DEF Led
<1>5. MainLast(t)
  <2>1. ASSUME NEW k \in 1..Len(t), t[k].op = "main" PROVE Len(t) = k + 1 /\ t[k + 1] = Do("spin")
    <3>1. k \in 1..m - 1 /\ k + 1 \in 1..m /\ t[k] = c[k + 1]
      BY <1>3
    <3>2. m = (k + 1) + 1 /\ c[(k + 1) + 1] = Do("spin")
      BY <1>31, <2>1, <3>1
    <3>3. k + 1 \in 1..m - 1
      BY <1>3, <3>1, <3>2
    <3>4. t[k + 1] = c[(k + 1) + 1]
      BY <1>3, <3>3
    <3> QED  BY <1>3, <3>2, <3>4
  <2> QED  BY <2>1 DEF MainLast
<1>6. \A k \in 1..Len(t) : t[k].op \in ProgramOps
  BY <1>3, <1>31
<1>7. ASSUME NEW k \in 1..Len(t), t[k].op = "cpu_enable_interrupts"
      PROVE  k = 1 /\ c[1].op = "clear_ienable" /\ "clock" \notin b
  <2>1. k \in 1..m - 1 /\ k + 1 \in 1..m /\ t[k] = c[k + 1] /\ k + 1 # 1
    BY <1>3
  <2>2. k + 1 = 2 /\ c[1].op = "clear_ienable" /\ "clock" \notin b
    BY <1>31, <1>7, <2>1
  <2> QED  BY <2>1, <2>2
<1>8. Program(t, b)
  BY <1>2, <1>4, <1>5, <1>6, <1>7 DEF Program, t
<1>9. ASSUME c[1].op \notin {"clear_ienable", "cpu_enable_interrupts"}
      PROVE  SwitchedOn(c) /\ SwitchedOn(t) /\ \A d : Program(t, d)
  <2>1. \A k \in 1..Len(t) : t[k].op # "cpu_enable_interrupts"
    BY <1>7, <1>9
  <2>2. \A k \in 1..m : c[k].op # "cpu_enable_interrupts"
    BY <1>31, <1>9
  <2>3. SwitchedOn(c) /\ SwitchedOn(t)
    BY <2>1, <2>2 DEF SwitchedOn, m
  <2>4. ASSUME NEW d PROVE Program(t, d)
    BY <1>2, <1>4, <1>5, <1>6, <2>1 DEF Program, t
  <2> QED  BY <2>3, <2>4
<1>10. ASSUME c[1].op = "clear_ienable" PROVE ~SwitchedOn(c) /\ ~SwitchedOn(t)
  <2>1. 1 + 1 <= m /\ c[1 + 1] = Do("cpu_enable_interrupts")
    BY <1>2, <1>10 DEF Follows, m
  <2>2. 2 \in 1..m /\ 1 \in 1..Len(t) /\ t[1] = c[1 + 1] /\ 1 + 1 = 2
    BY <1>3, <2>1
  <2>3. c[2].op = "cpu_enable_interrupts" /\ t[1].op = "cpu_enable_interrupts"
    BY <2>1, <2>2 DEF Do
  <2> QED  BY <2>2, <2>3 DEF SwitchedOn, m
<1>11. ASSUME c[1].op = "cpu_enable_interrupts" PROVE ~SwitchedOn(c) /\ SwitchedOn(t)
  <2>1. 1 \in 1..m
    BY <1>3
  <2>2. \A k \in 1..Len(t) : t[k].op # "cpu_enable_interrupts"
    BY <1>7, <1>11
  <2> QED  BY <1>11, <2>1, <2>2 DEF SwitchedOn, m
<1> QED  BY <1>2, <1>8, <1>9, <1>10, <1>11 DEF t

LEMMA NeedsTail ==
  ASSUME NEW c \in Seq(Op), c # <<>>, NEW x, NEW y, NEW m, NEW S, NEW T, Needs(c, x, y, m, S), S \subseteq T,
         c[1].op = x => m \in T
  PROVE  Needs(Tail(c), x, y, m, T)
<1> DEFINE t == Tail(c)
<1>1. /\ Len(c) \in Nat \ {0} /\ Len(t) = Len(c) - 1
      /\ \A k \in 1..Len(c) - 1 : k + 1 \in 1..Len(c) /\ t[k] = c[k + 1]
  BY TailIs
<1> HIDE DEF t
<1>2. ASSUME NEW k \in 1..Len(t), t[k].op = y, m \notin T PROVE \E j \in 1..k - 1 : t[j].op = x
  <2>1. k \in 1..Len(c) - 1 /\ k + 1 \in 1..Len(c) /\ t[k] = c[k + 1] /\ m \notin S
    BY <1>1, <1>2
  <2>2. PICK j \in 1..(k + 1) - 1 : c[j].op = x
    BY <1>2, <2>1 DEF Needs
  <2>3. j # 1
    BY <1>2, <2>2
  <2>4. j - 1 \in 1..k - 1 /\ j - 1 \in 1..Len(c) - 1 /\ (j - 1) + 1 = j
    BY <2>1, <2>2, <2>3
  <2>5. t[j - 1] = c[(j - 1) + 1]
    BY <1>1, <2>4
  <2> QED  BY <2>2, <2>4, <2>5
<1> QED  BY <1>2 DEF Needs, t

LEMMA HasTail ==
  ASSUME NEW c \in Seq(Op), c # <<>>, NEW x, Has(c, x), c[1] # x
  PROVE  Has(Tail(c), x)
<1>1. /\ Len(c) \in Nat \ {0} /\ Len(Tail(c)) = Len(c) - 1
      /\ \A k \in 1..Len(c) - 1 : k + 1 \in 1..Len(c) /\ Tail(c)[k] = c[k + 1]
  BY TailIs
<1>2. PICK k \in 1..Len(c) : c[k] = x
  BY DEF Has
<1>3. k # 1
  BY <1>2
<1>4. k - 1 \in 1..Len(c) - 1 /\ (k - 1) + 1 = k /\ k - 1 \in 1..Len(Tail(c))
  BY <1>1, <1>3
<1>5. Tail(c)[k - 1] = c[(k - 1) + 1]
  BY <1>1, <1>4
<1> QED  BY <1>2, <1>4, <1>5 DEF Has

LEMMA NoNullTail ==
  ASSUME NEW c \in Seq(Op), c # <<>>, NoNull(c)
  PROVE  NoNull(Tail(c)) /\ (c[1].op = "active" => c[1].arg = 1) /\ (c[1].op \in {"handler", "context"} => c[1].arg # NULL)
<1>1. /\ Len(c) \in Nat \ {0} /\ Len(Tail(c)) = Len(c) - 1
      /\ \A k \in 1..Len(c) - 1 : k + 1 \in 1..Len(c) /\ Tail(c)[k] = c[k + 1]
  BY TailIs
<1>2. ASSUME NEW k \in 1..Len(Tail(c))
      PROVE  /\ Tail(c)[k].op = "active" => Tail(c)[k].arg = 1
             /\ Tail(c)[k].op \in {"handler", "context"} => Tail(c)[k].arg # NULL
  <2>1. k + 1 \in 1..Len(c) /\ Tail(c)[k] = c[k + 1]
    BY <1>1
  <2> QED  BY <2>1 DEF NoNull
<1>3. 1 \in 1..Len(c)
  BY <1>1
<1> QED  BY <1>2, <1>3 DEF NoNull

LEMMA PreparedTail ==
  ASSUME NEW c \in Seq(Op), c # <<>>, NEW S, NEW T, Prepared(c, S),
         \A i \in S : i \in T \/ (c[1].op = "handler" /\ c[1].arg = NULL /\ c[1].irq = i),
         \A i : c[1] = DoTo("handler", i, i) => i \in T
  PROVE  Prepared(Tail(c), T)
<1> DEFINE t == Tail(c)
<1>1. /\ Len(c) \in Nat \ {0} /\ Len(t) = Len(c) - 1
      /\ \A k \in 1..Len(c) - 1 : k + 1 \in 1..Len(c) /\ t[k] = c[k + 1]
  BY TailIs
<1> HIDE DEF t
<1>2. 1 \in 1..Len(c)
  BY <1>1
<1>3. ASSUME NEW k \in 1..Len(t), t[k].op = "active", t[k].arg = 1, t[k].irq \notin T
      PROVE  \E j \in 1..k - 1 : t[j] = DoTo("handler", t[k].irq, t[k].irq)
  <2>1. k \in 1..Len(c) - 1 /\ k + 1 \in 1..Len(c) /\ t[k] = c[k + 1]
    BY <1>1
  <2>2. c[k + 1].irq \notin S
    <3>1. SUFFICES ASSUME c[k + 1].irq \in S PROVE FALSE
      OBVIOUS
    <3>2. c[1].op = "handler" /\ c[1].arg = NULL /\ c[1].irq = c[k + 1].irq
      BY <1>3, <2>1, <3>1
    <3>3. c[k + 1].arg = 0
      BY <1>2, <1>3, <2>1, <3>2 DEF Prepared
    <3> QED  BY <1>3, <2>1, <3>3
  <2>3. PICK j \in 1..(k + 1) - 1 : c[j] = DoTo("handler", c[k + 1].irq, c[k + 1].irq)
    BY <1>3, <2>1, <2>2 DEF Prepared
  <2>4. j # 1
    BY <1>3, <2>1, <2>3
  <2>5. j - 1 \in 1..k - 1 /\ j - 1 \in 1..Len(c) - 1 /\ (j - 1) + 1 = j
    BY <2>1, <2>3, <2>4
  <2>6. t[j - 1] = c[(j - 1) + 1]
    BY <1>1, <2>5
  <2> QED  BY <2>1, <2>3, <2>5, <2>6
<1>4. ASSUME NEW j \in 1..Len(t), NEW k \in 1..Len(t), t[j].op = "handler", t[j].arg = NULL, t[k].op = "active",
             t[k].irq = t[j].irq
      PROVE  t[k].arg = 0
  <2>1. k + 1 \in 1..Len(c) /\ t[k] = c[k + 1] /\ j + 1 \in 1..Len(c) /\ t[j] = c[j + 1]
    BY <1>1
  <2> QED  BY <1>4, <2>1 DEF Prepared
<1> QED  BY <1>3, <1>4 DEF Prepared, t

LEMMA NotEmpty ==
  ASSUME NEW c \in Seq(Op), c # <<>>
  PROVE  1 \in 1..Len(c)
<1>1. Len(c) \in Nat \ {0}
  BY EmptySeq
<1> DEFINE m == Len(c)
<1>2. m \in Nat \ {0}
  BY <1>1
<1> HIDE DEF m
<1>3. 1 \in 1..m
  BY <1>2
<1> QED  BY <1>3 DEF m

LEMMA TailHead ==
  ASSUME NEW c \in Seq(Op), c # <<>>, NEW b, Program(c, b)
  PROVE  /\ Len(c) >= 2 => Tail(c) # <<>> /\ Tail(c)[1] = c[2]
         /\ Tail(c) # <<>> => /\ Len(c) >= 2 /\ Tail(c)[1] = c[2] /\ c[2].op # "clear_ienable"
                              /\ c[2].op = "context" => c[1].op = "handler"
<1>1. /\ Tail(c) \in Seq(Op) /\ Len(c) \in Nat \ {0} /\ Len(Tail(c)) = Len(c) - 1
      /\ \A k \in 1..Len(c) - 1 : k + 1 \in 1..Len(c) /\ Tail(c)[k] = c[k + 1]
  BY TailIs
<1>2. ASSUME Len(c) >= 2 PROVE Tail(c) # <<>> /\ Tail(c)[1] = c[2]
  <2>1. 1 \in 1..Len(c) - 1 /\ 1 + 1 = 2 /\ Len(Tail(c)) # 0
    BY <1>1, <1>2
  <2>2. Tail(c)[1] = c[1 + 1]
    BY <1>1, <2>1
  <2>3. Len(<<>>) = 0
    OBVIOUS
  <2> QED  BY <2>1, <2>2, <2>3
<1>3. ASSUME Tail(c) # <<>> PROVE Len(c) >= 2
  <2>1. Len(Tail(c)) \in Nat \ {0}
    BY <1>1, <1>3, EmptySeq
  <2> QED  BY <1>1, <2>1
<1>4. ASSUME Len(c) >= 2 PROVE c[2].op # "clear_ienable" /\ (c[2].op = "context" => c[1].op = "handler")
  <2>1. 2 \in 1..Len(c) /\ 2 # 1 /\ 2 - 1 = 1
    BY <1>1, <1>4
  <2>2. c[2].op = "context" => c[1].op = "handler"
    BY <2>1 DEF Program, Led
  <2>3. SUFFICES ASSUME c[2].op = "clear_ienable" PROVE FALSE
    BY <2>2
  <2>4. 2 + 1 <= Len(c) /\ c[2 + 1] = Do("cpu_enable_interrupts")
    BY <2>1, <2>3 DEF Program, Chain, Follows
  <2>5. 2 + 1 \in 1..Len(c) /\ 2 + 1 # 1 /\ 2 + 1 # 2
    BY <1>1, <2>4
  <2>6. c[2 + 1].op = "cpu_enable_interrupts"
    BY <2>4 DEF Do
  <2> QED  BY <2>5, <2>6 DEF Program
<1> QED  BY <1>2, <1>3, <1>4

(* StillAhead, when the head of the code is done.                               *)
LEMMA AheadTail ==
  ASSUME NEW c \in Seq(Op), c # <<>>, NEW t, NEW a, NEW b, StillAhead(c, t, a, b), NEW T, NEW A, NEW B,
         \A i \in Irqs : t[i] = Entry(i, i) => T[i] = Entry(i, i) \/ Has(Tail(c), DoTo("context", i, i)),
         \A i \in Irqs : c[1] = DoTo("context", i, i) => T[i] = Entry(i, i),
         \A i \in Irqs : i \in a => i \in A, \A i \in Irqs : c[1] = DoTo("active", i, 1) => i \in A,
         b \subseteq B, c[1].op = "sysclk_init" => "clock" \in B, c[1].op = "alarm_start" => "alarm" \in B,
         c[1].op = "dev_reg" => "console" \in B, c[1].op = "io_redirect" => "stdio" \in B
  PROVE  StillAhead(Tail(c), T, A, B)
<1>1. \A x : Has(c, x) => c[1] = x \/ Has(Tail(c), x)
  BY HasTail
<1>2. \A i \in Irqs : T[i] = Entry(i, i) \/ Has(Tail(c), DoTo("context", i, i))
  BY <1>1 DEF StillAhead
<1>3. \A i \in Irqs : i \in A \/ Has(Tail(c), DoTo("active", i, 1))
  BY <1>1 DEF StillAhead
<1>4. /\ "clock" \in b \/ c[1] = Do("sysclk_init") \/ Has(Tail(c), Do("sysclk_init"))
      /\ "alarm" \in b \/ c[1] = Do("alarm_start") \/ Has(Tail(c), Do("alarm_start"))
      /\ "console" \in b \/ c[1] = Do("dev_reg") \/ Has(Tail(c), Do("dev_reg"))
      /\ "stdio" \in b \/ c[1] = Do("io_redirect") \/ Has(Tail(c), Do("io_redirect"))
  BY <1>1 DEF StillAhead
<1>5. \A x : c[1] = Do(x) => c[1].op = x
  BY DEF Do
<1>6. /\ "clock" \in B \/ Has(Tail(c), Do("sysclk_init"))
      /\ "alarm" \in B \/ Has(Tail(c), Do("alarm_start"))
      /\ "console" \in B \/ Has(Tail(c), Do("dev_reg"))
      /\ "stdio" \in B \/ Has(Tail(c), Do("io_redirect"))
  BY <1>4, <1>5
<1> QED  BY <1>2, <1>3, <1>6 DEF StillAhead

LEMMA StartingTail ==
  ASSUME NEW c \in Seq(Op), c # <<>>, NEW t, NEW a, NEW b, NEW n, StartOrder(c, t, a, b, n), NEW T, NEW A, NEW B,
         n = 0 /\ StillAhead(c, t, a, b) /\ NoNull(c) => StillAhead(Tail(c), T, A, B),
         b \subseteq B, c[1].op = "sysclk_init" => "clock" \in B, c[1].op = "dev_reg" => "console" \in B
  PROVE  StartOrder(Tail(c), T, A, B, n)
<1>1. /\ Needs(c, "sysclk_init", "alarm_start", "clock", b) /\ Needs(c, "dev_reg", "io_redirect", "console", b)
      /\ n = 0 => NoNull(c) /\ StillAhead(c, t, a, b)
  BY DEF StartOrder
<1>2. Needs(Tail(c), "sysclk_init", "alarm_start", "clock", B) /\ Needs(Tail(c), "dev_reg", "io_redirect", "console", B)
  BY <1>1, NeedsTail
<1>3. n = 0 => NoNull(Tail(c)) /\ StillAhead(Tail(c), T, A, B)
  BY <1>1, NoNullTail
<1> QED  BY <1>2, <1>3 DEF StartOrder

(* A step that stores neither to the table nor to what masks the lines.    *)
LEMMA CorePlain ==
  ASSUME NEW c \in Seq(Op), c # <<>>, NEW s, NEW t, NEW e, NEW a, NEW b, NEW n, CodeOrder(c, s, t, e, a, b, n),
         NEW S, NEW B, b \subseteq B,
         c[1].op \notin {"handler", "context", "active", "write_ienable", "clear_ienable"},
         c[1].op = "cpu_enable_interrupts" => B = b,
         c[1].op = "sysclk_init" => "clock" \in B, c[1].op = "alarm_start" => "alarm" \in B,
         c[1].op = "dev_reg" => "console" \in B, c[1].op = "io_redirect" => "stdio" \in B
  PROVE  CodeOrder(Tail(c), S, t, e, a, B, n)
<1>1. Handled(c, t) /\ Masked(c, s, t, e, a) /\ Prepared(c, Registered(t)) /\ Program(c, b) /\ StartOrder(c, t, a, b, n)
  BY DEF CodeOrder
<1>2. \A i : c[1] # DoTo("handler", i, i) /\ c[1] # DoTo("context", i, i) /\ c[1] # DoTo("context", i, NULL)
             /\ c[1] # DoTo("active", i, 0) /\ c[1] # DoTo("active", i, 1)
  BY DEF DoTo
<1>3. /\ Len(c) >= 2 => Tail(c) # <<>> /\ Tail(c)[1] = c[2]
      /\ Tail(c) # <<>> => /\ Len(c) >= 2 /\ Tail(c)[1] = c[2] /\ c[2].op # "clear_ienable"
                           /\ c[2].op = "context" => c[1].op = "handler"
  BY <1>1, TailHead
<1>4. Handled(Tail(c), t)
  <2>1. \A i : ~SetsContext(c, i) /\ ~SetsContext(Tail(c), i)
    BY <1>3 DEF SetsContext
  <2> QED  BY <1>1, <2>1 DEF Handled
<1>5. Masked(Tail(c), S, t, e, a)
  <2>1. ASSUME NEW i \in a, t[i].handler # i PROVE Leaving(Tail(c), S, i)
    <3>1. Leaving(c, s, i)
      BY <1>1, <2>1 DEF Masked
    <3>2. Len(c) >= 2 /\ c[2] = DoTo("active", i, 0)
      BY <1>2, <3>1 DEF Leaving
    <3> QED  BY <1>3, <3>2 DEF Leaving
  <2>2. e = a /\ e \subseteq Irqs
    BY <1>1 DEF Masked
  <2> QED  BY <1>3, <2>1, <2>2 DEF Masked
<1>6. Prepared(Tail(c), Registered(t))
  BY <1>1, <1>2, PreparedTail
<1>7. Program(Tail(c), B)
  BY <1>1, ProgramTail
<1>8. StartOrder(Tail(c), t, a, B, n)
  <2>1. StillAhead(c, t, a, b) => StillAhead(Tail(c), t, a, B)
    BY <1>2, AheadTail
  <2> QED  BY <1>1, <2>1, StartingTail
<1> QED  BY <1>4, <1>5, <1>6, <1>7, <1>8 DEF CodeOrder

LEMMA CoreHandler ==
  ASSUME NEW c \in Seq(Op), c # <<>>, NEW s, NEW t, NEW e, NEW a, NEW b, NEW n, CodeOrder(c, s, t, e, a, b, n),
         c[1].op = "handler"
  PROVE  CodeOrder(Tail(c), s, [t EXCEPT ![c[1].irq].handler = c[1].arg], e, a, b, n)
<1> DEFINE j == c[1].irq
           x == c[1].arg
           T == [t EXCEPT ![j].handler = x]
<1>1. Handled(c, t) /\ Masked(c, s, t, e, a) /\ Prepared(c, Registered(t)) /\ Program(c, b) /\ StartOrder(c, t, a, b, n)
  BY DEF CodeOrder
<1>2. Follows(c, 1)
  BY <1>1, ProgramTail
<1>3. Len(c) >= 2 /\ c[2] = DoTo("context", j, x)
  <2>1. 1 + 1 <= Len(c) /\ c[1 + 1] = DoTo("context", j, x) /\ 1 + 1 = 2
    BY <1>2 DEF Follows
  <2> QED  BY <2>1
<1>4. c[2].op = "context" /\ c[2].irq = j /\ c[2].arg = x
  BY <1>3 DEF DoTo
<1>5. j \in Irqs /\ x \in {j, NULL}
  <2>1. Len(c) \in Nat /\ 2 \in 1..Len(c)
    BY <1>3, TailIs
  <2>2. Follows(c, 2)
    BY <1>1, <2>1 DEF Program, Chain
  <2> QED  BY <1>4, <2>2 DEF Follows
<1>6. Tail(c) # <<>> /\ Tail(c)[1] = c[2] /\ Tail(c) \in Seq(Op)
  BY <1>1, <1>3, TailHead, TailIs
<1>7. /\ t \in Tables /\ T \in Tables /\ T[j].handler = x
      /\ \A i \in Irqs : i # j => T[i] = t[i]
  <2>1. t \in Tables
    BY <1>1 DEF Handled
  <2> HIDE DEF x, j
  <2>2. T \in Tables /\ T[j].handler = x
    BY <1>5, <2>1 DEF Tables
  <2>3. \A i \in Irqs : i # j => T[i] = t[i]
    BY <1>5, <2>1 DEF Tables
  <2> QED  BY <2>1, <2>2, <2>3
<1> HIDE DEF T, j, x
<1>8. Handled(Tail(c), T)
  <2>1. SetsContext(Tail(c), j) /\ \A i \in Irqs : i # j => ~SetsContext(Tail(c), i) /\ ~SetsContext(c, i)
    BY <1>4, <1>6 DEF SetsContext
  <2>2. \A i \in Irqs : i # j => T[i] = Entry(i, i) \/ T[i] = Entry(NULL, NULL)
    BY <1>1, <1>7, <2>1 DEF Handled
  <2>3. Tail(c)[1].arg = x
    BY <1>4, <1>6
  <2> QED  BY <1>7, <2>1, <2>2, <2>3 DEF Handled
<1>9. Masked(Tail(c), s, T, e, a)
  <2>1. ASSUME NEW i \in a PROVE T[i].handler = i \/ Leaving(Tail(c), s, i)
    <3>1. i \in Irqs
      BY <1>1 DEF Masked
    <3>2. CASE i = j
      <4>1. x = NULL => Leaving(Tail(c), s, i)
        BY <1>3, <1>6, <3>2 DEF Leaving
      <4> QED  BY <1>5, <1>7, <3>2, <4>1
    <3>3. CASE i # j
      <4>1. ~Leaving(c, s, i)
        BY DEF Leaving, Do, DoTo
      <4>2. t[i].handler = i
        BY <1>1, <4>1 DEF Masked
      <4> QED  BY <1>7, <3>1, <3>3, <4>2
    <3> QED  BY <3>2, <3>3
  <2>2. e = a /\ e \subseteq Irqs
    BY <1>1 DEF Masked
  <2> QED  BY <1>4, <1>6, <2>1, <2>2 DEF Masked
<1>10. Prepared(Tail(c), Registered(T))
  <2>1. \A i \in Registered(t) : i \in Registered(T) \/ (c[1].op = "handler" /\ c[1].arg = NULL /\ c[1].irq = i)
    <3>1. ASSUME NEW i \in Irqs, t[i].handler = i PROVE T[i].handler = i \/ (x = NULL /\ j = i)
      BY <1>5, <1>7, <3>1
    <3> QED  BY <3>1 DEF Registered, j, x
  <2>2. ASSUME NEW i, c[1] = DoTo("handler", i, i) PROVE i \in Registered(T)
    <3>1. i = j /\ i = x
      BY <2>2 DEF DoTo, j, x
    <3> QED  BY <1>5, <1>7, <3>1 DEF Registered
  <2> QED  BY <1>1, <2>1, <2>2, PreparedTail
<1>11. Program(Tail(c), b)
  BY <1>1, ProgramTail
<1>12. StartOrder(Tail(c), T, a, b, n)
  <2>1. ASSUME StillAhead(c, t, a, b), NoNull(c) PROVE StillAhead(Tail(c), T, a, b)
    <3>1. x = j
      BY <1>5, <2>1, NoNullTail DEF x
    <3>2. Has(Tail(c), DoTo("context", j, j))
      <4>2. 1 \in 1..Len(Tail(c))
        BY <1>6, NotEmpty
      <4> QED  BY <1>3, <1>6, <3>1, <4>2 DEF Has
    <3>3. \A i \in Irqs : t[i] = Entry(i, i) => T[i] = Entry(i, i) \/ Has(Tail(c), DoTo("context", i, i))
      BY <1>7, <3>2
    <3>4. \A i : c[1] # DoTo("context", i, i) /\ c[1] # DoTo("active", i, 1)
      BY DEF DoTo
    <3> QED  BY <2>1, <3>3, <3>4, AheadTail
  <2> QED  BY <1>1, <2>1, StartingTail
<1>13. CodeOrder(Tail(c), s, T, e, a, b, n)
  BY <1>8, <1>9, <1>10, <1>11, <1>12 DEF CodeOrder
<1> QED  BY <1>13 DEF T, j, x

LEMMA CoreContext ==
  ASSUME NEW c \in Seq(Op), c # <<>>, NEW s, s # <<>>, NEW t, NEW e, NEW a, NEW b, NEW n, CodeOrder(c, s, t, e, a, b, n),
         c[1].op = "context"
  PROVE  CodeOrder(Tail(c), s, [t EXCEPT ![c[1].irq].context = c[1].arg], e, a, b, n)
<1> DEFINE j == c[1].irq
           x == c[1].arg
           T == [t EXCEPT ![j].context = x]
<1>1. Handled(c, t) /\ Masked(c, s, t, e, a) /\ Prepared(c, Registered(t)) /\ Program(c, b) /\ StartOrder(c, t, a, b, n)
  BY DEF CodeOrder
<1>2. Follows(c, 1)
  BY <1>1, ProgramTail
<1>3. /\ Len(c) >= 3 /\ c[2] = Do("disable_all") /\ c[3] = DoTo("active", j, IF x # NULL THEN 1 ELSE 0)
      /\ j \in Irqs /\ x \in {j, NULL}
  <2>1. /\ 1 + 2 <= Len(c) /\ c[1 + 1] = Do("disable_all")
        /\ c[1 + 2] = DoTo("active", j, IF x # NULL THEN 1 ELSE 0)
        /\ j \in Irqs /\ x \in {j, NULL}
    BY <1>2 DEF Follows
  <2>2. 1 + 1 = 2 /\ 1 + 2 = 3
    OBVIOUS
  <2> QED  BY <2>1, <2>2
<1>4. /\ Tail(c) \in Seq(Op) /\ Len(c) \in Nat \ {0} /\ Len(Tail(c)) = Len(c) - 1
      /\ \A k \in 1..Len(c) - 1 : Tail(c)[k] = c[k + 1]
  BY TailIs
<1> DEFINE u == Tail(c)
           m == Len(c)
<1> HIDE DEF u, m
<1>5. m \in Nat /\ m >= 3 /\ Len(u) = m - 1 /\ \A k \in 1..m - 1 : u[k] = c[k + 1]
  BY <1>3, <1>4 DEF u, m
<1>6. u # <<>> /\ Len(u) >= 2 /\ u[1] = c[2] /\ u[2] = c[3]
  <2>1. 1 \in 1..m - 1 /\ 2 \in 1..m - 1 /\ 1 + 1 = 2 /\ 2 + 1 = 3 /\ Len(u) >= 2 /\ Len(<<>>) = 0
    BY <1>5
  <2>2. u[1] = c[1 + 1] /\ u[2] = c[2 + 1]
    BY <1>5, <2>1
  <2>3. u # <<>>
    BY <2>1
  <2> QED  BY <2>1, <2>2, <2>3
<1>7. u[1].op = "disable_all"
  BY <1>3, <1>6 DEF Do
<1>8. /\ t \in Tables /\ T \in Tables /\ T[j].handler = t[j].handler /\ T[j].context = x
      /\ \A i \in Irqs : i # j => T[i] = t[i]
  <2>1. t \in Tables
    BY <1>1 DEF Handled
  <2>2. j \in Irqs /\ x \in Irqs \cup {NULL}
    BY <1>3
  <2> HIDE DEF x, j
  <2>3. T \in Tables /\ T[j].handler = t[j].handler /\ T[j].context = x
    BY <2>1, <2>2 DEF Tables
  <2>4. \A i \in Irqs : i # j => T[i] = t[i]
    BY <2>1, <2>2 DEF Tables
  <2> QED  BY <2>1, <2>3, <2>4
<1>9. t[j].handler = x
  <2>1. SetsContext(c, j)
    BY DEF SetsContext
  <2> QED  BY <1>1, <1>3, <2>1 DEF Handled
<1> HIDE DEF T, x
<1>10. T[j] = Entry(x, x)
  <2>1. T[j] \in [handler : Irqs \cup {NULL}, context : Irqs \cup {NULL}]
    BY <1>3, <1>8 DEF Tables
  <2> QED  BY <1>8, <1>9, <2>1 DEF Entry
<1>11. Handled(u, T)
  <2>1. \A i \in Irqs : ~SetsContext(u, i)
    BY <1>7 DEF SetsContext
  <2>2. ASSUME NEW i \in Irqs, i # j PROVE T[i] = Entry(i, i) \/ T[i] = Entry(NULL, NULL)
    <3>1. ~SetsContext(c, i)
      BY <2>2 DEF SetsContext
    <3> QED  BY <1>1, <1>8, <2>2, <3>1 DEF Handled
  <2>3. T[j] = Entry(j, j) \/ T[j] = Entry(NULL, NULL)
    BY <1>3, <1>10 DEF x
  <2> QED  BY <1>8, <2>1, <2>2, <2>3 DEF Handled
<1>12. \A i \in Irqs : T[i].handler = t[i].handler
  BY <1>8
<1>13. Masked(u, s, T, e, a)
  <2>1. ASSUME NEW i \in a, T[i].handler # i PROVE Leaving(u, s, i)
    <3>1. i \in Irqs
      BY <1>1 DEF Masked
    <3>2. t[i].handler # i
      BY <1>12, <2>1, <3>1
    <3>3. Leaving(c, s, i)
      BY <1>1, <3>2 DEF Masked
    <3>4. c[1] = DoTo("context", i, NULL)
      BY <3>3 DEF Leaving, Do, DoTo
    <3>5. i = j /\ x = NULL
      BY <3>4 DEF DoTo, x
    <3> QED  BY <1>3, <1>6, <3>5 DEF Leaving, x
  <2>2. e = a /\ e \subseteq Irqs
    BY <1>1 DEF Masked
  <2> QED  BY <1>7, <2>1, <2>2 DEF Masked
<1>14. Prepared(u, Registered(T))
  <2>1. Registered(T) = Registered(t)
    BY <1>12 DEF Registered
  <2>2. \A i : c[1] # DoTo("handler", i, i)
    BY DEF DoTo
  <2> QED  BY <1>1, <2>1, <2>2, PreparedTail DEF u
<1>15. Program(u, b)
  BY <1>1, ProgramTail DEF u
<1>16. StartOrder(u, T, a, b, n)
  <2>1. ASSUME StillAhead(c, t, a, b), NoNull(c) PROVE StillAhead(Tail(c), T, a, b)
    <3>1. x = j
      BY <1>3, <2>1, NoNullTail DEF x
    <3>2. \A i \in Irqs : t[i] = Entry(i, i) => T[i] = Entry(i, i)
      BY <1>8, <1>10, <3>1
    <3>3. \A i \in Irqs : c[1] = DoTo("context", i, i) => T[i] = Entry(i, i)
      <4>1. \A i \in Irqs : c[1] = DoTo("context", i, i) => i = j
        BY DEF DoTo
      <4> QED  BY <1>10, <3>1, <4>1
    <3>4. \A i : c[1] # DoTo("active", i, 1)
      BY DEF DoTo
    <3> QED  BY <2>1, <3>2, <3>3, <3>4, AheadTail
  <2> QED  BY <1>1, <2>1, StartingTail DEF u
<1>17. CodeOrder(u, s, T, e, a, b, n)
  BY <1>11, <1>13, <1>14, <1>15, <1>16 DEF CodeOrder
<1> QED  BY <1>17 DEF T, x, u

LEMMA CoreActive ==
  ASSUME NEW c \in Seq(Op), c # <<>>, NEW s, NEW t, NEW e, NEW a, NEW b, NEW n, CodeOrder(c, s, t, e, a, b, n),
         c[1].op = "active"
  PROVE  CodeOrder(Tail(c), s, t, e, IF c[1].arg = 1 THEN a \cup {c[1].irq} ELSE a \ {c[1].irq}, b, n)
<1> DEFINE j == c[1].irq
           x == c[1].arg
           A == IF x = 1 THEN a \cup {j} ELSE a \ {j}
<1>1. Handled(c, t) /\ Masked(c, s, t, e, a) /\ Prepared(c, Registered(t)) /\ Program(c, b) /\ StartOrder(c, t, a, b, n)
  BY DEF CodeOrder
<1>2. Follows(c, 1)
  BY <1>1, ProgramTail
<1>3. Len(c) >= 2 /\ c[2] = Do("write_ienable") /\ j \in Irqs /\ x \in {0, 1}
  <2>1. 1 + 1 <= Len(c) /\ c[1 + 1] = Do("write_ienable") /\ 1 + 1 = 2 /\ j \in Irqs /\ x \in {0, 1}
    BY <1>2 DEF Follows
  <2> QED  BY <2>1
<1>4. Tail(c) # <<>> /\ Tail(c)[1] = c[2] /\ Tail(c)[1].op = "write_ienable"
  <2>1. Tail(c) # <<>> /\ Tail(c)[1] = c[2]
    BY <1>1, <1>3, TailHead
  <2> QED  BY <1>3, <2>1 DEF Do
<1>5. x = 1 => t[j].handler = j
  <2>1. SUFFICES ASSUME x = 1 PROVE j \in Registered(t)
    BY DEF Registered
  <2>2. 1 \in 1..Len(c) /\ ~(\E k \in 1..1 - 1 : TRUE)
    BY NotEmpty
  <2> QED  BY <1>1, <2>1, <2>2 DEF Prepared
<1> HIDE DEF j, x
<1>6. Handled(Tail(c), t)
  <2>1. \A i : ~SetsContext(c, i) /\ ~SetsContext(Tail(c), i)
    BY <1>4 DEF SetsContext
  <2> QED  BY <1>1, <2>1 DEF Handled
<1>7. Masked(Tail(c), s, t, e, A)
  <2>1. ASSUME NEW i \in A PROVE t[i].handler = i
    <3>1. CASE i = j /\ x = 1
      BY <1>5, <3>1
    <3>2. CASE ~(i = j /\ x = 1)
      <4>1. i \in a /\ i # j
        BY <1>3, <2>1, <3>2
      <4>2. ~Leaving(c, s, i)
        BY <4>1 DEF Leaving, Do, DoTo, j
      <4> QED  BY <1>1, <4>1, <4>2 DEF Masked
    <3> QED  BY <3>1, <3>2
  <2>2. e \subseteq Irqs /\ A \subseteq Irqs
    BY <1>1, <1>3 DEF Masked
  <2> HIDE DEF A
  <2> QED  BY <1>4, <2>1, <2>2 DEF Masked
<1>8. Prepared(Tail(c), Registered(t))
  <2>1. \A i : c[1] # DoTo("handler", i, i)
    BY DEF DoTo
  <2> QED  BY <1>1, <2>1, PreparedTail
<1>9. Program(Tail(c), b)
  BY <1>1, ProgramTail
<1>10. StartOrder(Tail(c), t, A, b, n)
  <2>1. ASSUME StillAhead(c, t, a, b), NoNull(c) PROVE StillAhead(Tail(c), t, A, b)
    <3>1. x = 1
      BY <2>1, NoNullTail DEF x
    <3>2. \A i \in Irqs : i \in a => i \in A
      BY <3>1
    <3>3. \A i \in Irqs : c[1] = DoTo("active", i, 1) => i \in A
      <4>1. \A i \in Irqs : c[1] = DoTo("active", i, 1) => i = j
        BY DEF DoTo, j
      <4> QED  BY <3>1, <4>1
    <3>4. \A i : c[1] # DoTo("context", i, i)
      BY DEF DoTo
    <3> HIDE DEF A
    <3> QED  BY <2>1, <3>2, <3>3, <3>4, AheadTail
  <2> HIDE DEF A
  <2> QED  BY <1>1, <2>1, StartingTail
<1> HIDE DEF A
<1>11. CodeOrder(Tail(c), s, t, e, A, b, n)
  BY <1>6, <1>7, <1>8, <1>9, <1>10 DEF CodeOrder
<1> QED  BY <1>11 DEF A, j, x

LEMMA CoreWrite ==
  ASSUME NEW c \in Seq(Op), c # <<>>, NEW s, NEW t, NEW e, NEW a, NEW b, NEW n, CodeOrder(c, s, t, e, a, b, n),
         NEW E, (c[1].op = "write_ienable" /\ E = a) \/ (c[1].op = "clear_ienable" /\ E = {})
  PROVE  CodeOrder(Tail(c), s, t, E, a, b, n)
<1>1. Handled(c, t) /\ Masked(c, s, t, e, a) /\ Prepared(c, Registered(t)) /\ Program(c, b) /\ StartOrder(c, t, a, b, n)
  BY DEF CodeOrder
<1>2. E = a /\ a \subseteq Irqs
  BY <1>1 DEF Masked
<1>3. \A i : c[1] # DoTo("handler", i, i) /\ c[1] # DoTo("context", i, i) /\ c[1] # DoTo("active", i, 1)
             /\ ~Leaving(c, s, i)
  BY DEF Leaving, Do, DoTo
<1>4. Tail(c) # <<>> => Tail(c)[1].op # "clear_ienable" /\ Tail(c)[1].op # "context"
  BY <1>1, TailHead
<1>5. Handled(Tail(c), t)
  <2>1. \A i : ~SetsContext(c, i) /\ ~SetsContext(Tail(c), i)
    BY <1>4 DEF SetsContext
  <2> QED  BY <1>1, <2>1 DEF Handled
<1>6. Masked(Tail(c), s, t, E, a)
  <2>1. \A i \in a : t[i].handler = i
    BY <1>1, <1>3 DEF Masked
  <2> QED  BY <1>2, <1>4, <2>1 DEF Masked
<1>7. Prepared(Tail(c), Registered(t))
  BY <1>1, <1>3, PreparedTail
<1>8. Program(Tail(c), b)
  BY <1>1, ProgramTail
<1>9. StartOrder(Tail(c), t, a, b, n)
  <2>1. StillAhead(c, t, a, b) => StillAhead(Tail(c), t, a, b)
    BY <1>3, AheadTail
  <2> QED  BY <1>1, <2>1, StartingTail
<1> QED  BY <1>5, <1>6, <1>7, <1>8, <1>9 DEF CodeOrder

(* A call of main's, before the rest of its code.                          *)
CallOps == {"disable_all", "enable_all", "handler", "context", "active", "write_ienable", "trap"}

Callable(d, S) ==
  /\ d \in Seq(Op) /\ Chain(d) /\ Introduced(d) /\ Nests(d, 0, 0) /\ Prepared(d, S)
  /\ \A k \in 1..Len(d) : d[k].op \in CallOps

LEMMA AtMainIs ==
  ASSUME NEW c \in Seq(Op), c # <<>>, NEW b, Program(c, b), c[1].op = "main"
  PROVE  Len(c) = 2 /\ \A k \in 1..Len(c) : c[k].op \in {"main", "spin"}
<1>1. 1 \in 1..Len(c)
  BY NotEmpty
<1>2. \A k \in 1..Len(c) : c[k].op = "main" => Len(c) = k + 1 /\ c[k + 1] = Do("spin")
  BY DEF Program, MainLast
<1>7. Len(c) = 1 + 1 /\ c[1 + 1] = Do("spin")
  BY <1>1, <1>2, Zenon
<1>3. Len(c) = 1 + 1 /\ c[1 + 1] = Do("spin") /\ 1 + 1 = 2
  BY <1>7
<1>4. c[2].op = "spin"
  BY <1>3 DEF Do
<1>5. Len(c) = 2
  BY <1>3
<1>6. \A k \in 1..Len(c) : k = 1 \/ k = 2
  BY <1>5
<1> QED  BY <1>4, <1>5, <1>6

LEMMA CoreCall ==
  ASSUME NEW c \in Seq(Op), c # <<>>, NEW s, NEW t, NEW e, NEW a, NEW b, NEW n \in Nat, CodeOrder(c, s, t, e, a, b, n),
         c[1].op = "main", NEW d, Callable(d, Registered(t))
  PROVE  CodeOrder(d \o c, s, t, e, a, b, n + 1) /\ SwitchedOn(c) /\ SwitchedOn(d \o c)
<1> DEFINE p == d \o c
           Opers == CallOps \cup {"main", "spin"}
<1>1. Handled(c, t) /\ Masked(c, s, t, e, a) /\ Prepared(c, Registered(t)) /\ Program(c, b) /\ StartOrder(c, t, a, b, n)
  BY DEF CodeOrder
<1>2. \A k \in 1..Len(c) : c[k].op \in {"main", "spin"}
  BY <1>1, AtMainIs
<1>3. d \in Seq(Op) /\ Chain(d) /\ Introduced(d) /\ Prepared(d, Registered(t)) /\ \A k \in 1..Len(d) : d[k].op \in CallOps
  BY DEF Callable
<1>4. p \in Seq(Op) /\ Chain(p)
  BY <1>1, <1>3, ConcatIs, ChainConcat DEF Program
<1>5. Introduced(p)
  <2>1. Introduced(c)
    BY <1>2, IntroducedNone
  <2> QED  BY <1>3, <2>1, IntroducedConcat
<1>6. \A k \in 1..Len(p) : p[k].op \in Opers
  <2>1. (\A k \in 1..Len(d) : d[k].op \in Opers) /\ (\A k \in 1..Len(c) : c[k].op \in Opers)
    BY <1>2, <1>3
  <2> HIDE DEF Opers
  <2> QED  BY <1>3, <2>1, OpsConcat
<1>7. MainLast(p)
  <2>1. \A k \in 1..Len(d) : d[k].op # "main"
    BY <1>3 DEF CallOps
  <2> QED  BY <1>1, <1>3, <2>1, MainConcat DEF Program
<1>8. Prepared(p, Registered(t))
  <2>1. \A k \in 1..Len(c) : c[k].op \notin {"handler", "context", "active"}
    BY <1>2
  <2>2. Plain(c)
    BY <2>1, PlainPrepared
  <2> QED  BY <1>1, <1>3, <2>2, PreparedConcat
<1> HIDE DEF p
<1>9. \A k \in 1..Len(p) : /\ p[k].op \in ProgramOps /\ p[k].op # "cpu_enable_interrupts" /\ p[k].op # "clear_ienable"
                           /\ p[k].op # "alarm_start" /\ p[k].op # "io_redirect"
  BY <1>6 DEF CallOps, ProgramOps
<1>10. Program(p, b)
  <2>1. Led(p)
    BY <1>4, <1>5, IntroducedLed
  <2> QED  BY <1>4, <1>7, <1>9, <2>1 DEF Program
<1>11. p # <<>> => p[1].op # "clear_ienable" /\ p[1].op # "context"
  <2>1. SUFFICES ASSUME p # <<>> PROVE p[1].op # "clear_ienable" /\ p[1].op # "context"
    OBVIOUS
  <2>2. 1 \in 1..Len(p)
    BY <1>4, <2>1, NotEmpty
  <2>3. ~(1 - 1 \in 1..Len(p))
    OBVIOUS
  <2> QED  BY <1>5, <1>9, <2>2, <2>3 DEF Introduced
<1>12. Handled(p, t)
  <2>1. \A i : ~SetsContext(c, i) /\ ~SetsContext(p, i)
    BY <1>11 DEF SetsContext
  <2> QED  BY <1>1, <2>1 DEF Handled
<1>13. Masked(p, s, t, e, a)
  <2>1. \A i : ~Leaving(c, s, i)
    BY DEF Leaving, Do, DoTo
  <2>2. (\A i \in a : t[i].handler = i) /\ e = a /\ a \subseteq Irqs
    BY <1>1, <2>1 DEF Masked
  <2> QED  BY <1>11, <2>2 DEF Masked
<1>14. StartOrder(p, t, a, b, n + 1)
  <2>1. Needs(p, "sysclk_init", "alarm_start", "clock", b) /\ Needs(p, "dev_reg", "io_redirect", "console", b)
    BY <1>4, <1>9, NeedsNone
  <2>2. n + 1 # 0
    OBVIOUS
  <2> QED  BY <2>1, <2>2 DEF StartOrder
<1>15. SwitchedOn(p) /\ SwitchedOn(c)
  BY <1>2, <1>9 DEF SwitchedOn
<1>16. CodeOrder(p, s, t, e, a, b, n + 1)
  BY <1>8, <1>10, <1>12, <1>13, <1>14 DEF CodeOrder
<1> QED  BY <1>15, <1>16 DEF p

LEMMA CallablePieces ==
  ASSUME NEW i \in Irqs, NEW S
  PROVE  /\ \A x \in {i, NULL} : CodePiece(alt_iic_isr_register(i, x)) /\ Callable(alt_iic_isr_register(i, x), S)
         /\ CodePiece(alt_irq_disable(i)) /\ Callable(alt_irq_disable(i), S)
         /\ i \in S => CodePiece(alt_irq_enable(i)) /\ Callable(alt_irq_enable(i), S)
         /\ CodePiece(<<Do("trap")>>) /\ Callable(<<Do("trap")>>, S)
<1>1. ASSUME NEW x \in {i, NULL}
      PROVE  CodePiece(alt_iic_isr_register(i, x)) /\ Callable(alt_iic_isr_register(i, x), S)
  <2> DEFINE c == alt_iic_isr_register(i, x)
  <2>1. /\ c \in Seq(Op) /\ Len(c) = 8
        /\ c[1] = Do("disable_all") /\ c[2] = DoTo("handler", i, x) /\ c[3] = DoTo("context", i, x)
        /\ c[4] = Do("disable_all") /\ c[5] = DoTo("active", i, IF x # NULL THEN 1 ELSE 0)
        /\ c[6] = Do("write_ienable") /\ c[7] = Do("enable_all") /\ c[8] = Do("enable_all")
    BY RegisterIs
  <2>2. CodePiece(c) /\ Prepared(c, S)
    BY RegisterPiece
  <2> HIDE DEF c
  <2>3. /\ c[1].op = "disable_all" /\ c[2].op = "handler" /\ c[3].op = "context" /\ c[4].op = "disable_all"
        /\ c[5].op = "active" /\ c[6].op = "write_ienable" /\ c[7].op = "enable_all" /\ c[8].op = "enable_all"
    BY <2>1 DEF Do, DoTo
  <2>4. ASSUME NEW k \in 1..Len(c)
        PROVE  k = 1 \/ k = 2 \/ k = 3 \/ k = 4 \/ k = 5 \/ k = 6 \/ k = 7 \/ k = 8
    BY <2>1
  <2>5. \A k \in 1..Len(c) : c[k].op \in CallOps
    BY <2>3, <2>4 DEF CallOps
  <2>6. Callable(c, S)
    BY <2>2, <2>5 DEF CodePiece, Callable
  <2> QED  BY <2>2, <2>6 DEF c
<1>2. ASSUME NEW x \in {0, 1}, x = 0 \/ i \in S
      PROVE  CodePiece(Masking(i, x)) /\ Callable(Masking(i, x), S)
  <2> DEFINE c == Masking(i, x)
  <2>1. c \in Seq(Op) /\ Len(c) = 4 /\ c[1] = Do("disable_all") /\ c[2] = DoTo("active", i, x)
        /\ c[3] = Do("write_ienable") /\ c[4] = Do("enable_all")
    BY MaskingIs
  <2>2. CodePiece(c) /\ Prepared(c, S)
    BY <1>2, MaskingPiece
  <2> HIDE DEF c
  <2>3. c[1].op = "disable_all" /\ c[2].op = "active" /\ c[3].op = "write_ienable" /\ c[4].op = "enable_all"
    BY <2>1 DEF Do, DoTo
  <2>4. ASSUME NEW k \in 1..Len(c) PROVE k = 1 \/ k = 2 \/ k = 3 \/ k = 4
    BY <2>1
  <2>5. \A k \in 1..Len(c) : c[k].op \in CallOps
    BY <2>3, <2>4 DEF CallOps
  <2>6. Callable(c, S)
    BY <2>2, <2>5 DEF CodePiece, Callable
  <2> QED  BY <2>2, <2>6 DEF c
<1>3. Masking(i, 0) = alt_irq_disable(i) /\ Masking(i, 1) = alt_irq_enable(i)
  BY DEF Masking, alt_irq_disable, alt_irq_enable
<1>4. CodePiece(<<Do("trap")>>) /\ Callable(<<Do("trap")>>, S)
  <2> DEFINE x == Do("trap")
  <2>1. x \in Op /\ x.op = "trap"
    <3>1. x \in Op
      BY LinesAre, NamesAre, DoType
    <3> QED  BY <3>1 DEF Do
  <2> HIDE DEF x
  <2>2. CodePiece(<<x>>) /\ Prepared(<<x>>, S)
    BY <2>1, OneIs
  <2>3. \A k \in 1..Len(<<x>>) : <<x>>[k] = x
    OBVIOUS
  <2> DEFINE c == <<x>>
  <2> HIDE DEF c
  <2>4. \A k \in 1..Len(c) : c[k].op \in CallOps
    <3>1. \A k \in 1..Len(c) : c[k] = x
      BY <2>3 DEF c
    <3> QED  BY <2>1, <3>1 DEF CallOps
  <2>5. CodePiece(c) /\ Prepared(c, S)
    BY <2>2 DEF c
  <2>6. CodePiece(c) /\ Callable(c, S)
    BY <2>4, <2>5 DEF CodePiece, Callable
  <2> QED  BY <2>6 DEF c, x
<1> QED  BY <1>1, <1>2, <1>3, <1>4

LEMMA CallableSection ==
  ASSUME NEW d, NEW S, CodePiece(d), Callable(d, S)
  PROVE  Callable((<<Do("disable_all")>> \o d) \o <<Do("enable_all")>>, S)
<1> DEFINE x == Do("disable_all")
           y == Do("enable_all")
           X == <<x>>
           Y == <<y>>
<1>1. x \in Op /\ y \in Op /\ x.op = "disable_all" /\ y.op = "enable_all"
  <2>1. x \in Op /\ y \in Op
    BY LinesAre, NamesAre, DoType
  <2> QED  BY <2>1 DEF Do
<1> HIDE DEF x, y
<1>20. X \in Seq(Op) /\ Y \in Seq(Op) /\ Len(X) = 1 /\ Len(Y) = 1 /\ X[1] = x /\ Y[1] = y
  BY <1>1
<1>3. Nests(X, 0, 1) /\ Nests(Y, 1, 0)
  <2>1. Change(x.op) = 1 /\ Change(y.op) = -1 /\ Stands(x.op, 0) /\ Stands(y.op, 1)
    BY <1>1 DEF Change, Stands, Inside, Outside
  <2>2. 0 + Change(x.op) = 1 /\ 1 + Change(y.op) = 0 /\ 0 \in 0..3 /\ 1 \in 0..3
    BY <2>1
  <2>3. Nests(X, 0, 0 + Change(x.op)) /\ Nests(Y, 1, 1 + Change(y.op))
    BY <1>1, <2>1, <2>2, NestsOne
  <2> QED  BY <2>2, <2>3
<1> HIDE DEF X, Y
<1>2. X \in Seq(Op) /\ Y \in Seq(Op) /\ (\A k \in 1..Len(X) : X[k] = x) /\ (\A k \in 1..Len(Y) : Y[k] = y)
  BY <1>20
<1>4. (\A k \in 1..Len(X) : X[k].op \in {"disable_all"}) /\ (\A k \in 1..Len(Y) : Y[k].op \in {"enable_all"})
  BY <1>1, <1>2
<1>5. Chain(X) /\ Chain(Y)
  BY <1>4 DEF Chain, Follows
<1>6. (\A k \in 1..Len(X) : X[k].op # "context") /\ (\A k \in 1..Len(Y) : Y[k].op # "context")
  BY <1>4
<1>7. Introduced(X) /\ Introduced(Y)
  BY <1>2, <1>6, IntroducedNone
<1>8. /\ \A k \in 1..Len(X) : X[k].op \notin {"handler", "context", "active"}
      /\ \A k \in 1..Len(Y) : Y[k].op \notin {"handler", "context", "active"}
  BY <1>4
<1>9. Plain(X) /\ Plain(Y) /\ Prepared(X, S) /\ Prepared(Y, S)
  BY <1>2, <1>8, PlainPrepared
<1>10. (\A k \in 1..Len(X) : X[k].op \in CallOps) /\ (\A k \in 1..Len(Y) : Y[k].op \in CallOps)
  BY <1>4 DEF CallOps
<1>11. d \in Seq(Op) /\ Chain(d) /\ Introduced(d) /\ Nests(d, 1, 1) /\ Prepared(d, S)
       /\ \A k \in 1..Len(d) : d[k].op \in CallOps
  BY DEF CodePiece, Callable
<1> DEFINE p == X \o d
<1>12. p \in Seq(Op) /\ Chain(p) /\ Introduced(p) /\ Nests(p, 0, 1)
  BY <1>2, <1>3, <1>5, <1>7, <1>11, ConcatIs, ChainConcat, IntroducedConcat, NestsConcat
<1>13. Prepared(p, S)
  BY <1>2, <1>9, <1>11, PreparedConcat
<1>14. \A k \in 1..Len(p) : p[k].op \in CallOps
  BY <1>2, <1>10, <1>11, OpsConcat
<1> HIDE DEF p
<1> DEFINE q == p \o Y
<1>15. q \in Seq(Op) /\ Chain(q) /\ Introduced(q) /\ Nests(q, 0, 0)
  BY <1>2, <1>3, <1>5, <1>7, <1>12, ConcatIs, ChainConcat, IntroducedConcat, NestsConcat
<1>16. Prepared(q, S)
  BY <1>2, <1>9, <1>12, <1>13, PreparedConcat
<1>17. \A k \in 1..Len(q) : q[k].op \in CallOps
  BY <1>2, <1>10, <1>12, <1>14, OpsConcat
<1> HIDE DEF q
<1>18. Callable(q, S)
  BY <1>15, <1>16, <1>17 DEF Callable
<1> QED  BY <1>18 DEF q, p, X, Y, x, y

(* The frames.                                                             *)
LEMMA FrameIs ==
  ASSUME NEW f \in Frames
  PROVE  /\ f.code \in Seq(Op) /\ f.saved \in Seq(BOOLEAN) /\ f.estatus \in BOOLEAN /\ f.skip \in BOOLEAN
         /\ f.pending \subseteq Irqs /\ f.kind \in {"program", "entry", "interrupt", "exception"}
BY DEF Frames

LEMMA NestsHead ==
  ASSUME NEW c \in Seq(Op), c # <<>>, NEW d, Nests(c, d, 0), c[1].op \notin {"disable_all", "enable_all"}
  PROVE  Nests(Tail(c), d, 0) /\ d \in 0..3 /\ Stands(c[1].op, d)
<1>1. d \in 0..3 /\ Stands(c[1].op, d) /\ Nests(Tail(c), d + Change(c[1].op), 0)
  BY NestsTail
<1>2. d + Change(c[1].op) = d
  <2>1. Change(c[1].op) = 0
    BY DEF Change
  <2> QED  BY <1>1, <2>1
<1> QED  BY <1>1, <1>2

LEMMA BaseTail ==
  ASSUME NEW f, Base(f), f.code # <<>>, NEW b, Program(f.code, b), f.code[1].op \notin {"disable_all", "enable_all"},
         NEW g, g = [f EXCEPT !.code = Tail(f.code)]
  PROVE  /\ Base(g) /\ g.code = Tail(f.code) /\ g.saved = f.saved /\ Stands(f.code[1].op, Len(f.saved))
         /\ f.code[1].op \notin {"clear_ienable", "cpu_enable_interrupts"} => (Level(g) <=> Level(f))
         /\ f.code[1].op = "clear_ienable" => ~Level(f) /\ ~Level(g)
         /\ f.code[1].op = "cpu_enable_interrupts" => Level(g)
<1> DEFINE c == f.code
           s == f.saved
<1>1. f \in Frames /\ c \in Seq(Op) /\ s \in Seq(BOOLEAN) /\ Nests(c, Len(s), 0) /\ f.kind = "program"
      /\ \A k \in 1..Len(s) : Says(s[k], SwitchedOn(c) /\ k = 1)
  BY FrameIs DEF Base, Whole
<1>2. Tail(c) \in Seq(Op)
  BY <1>1, TailIs
<1>3. g \in Frames /\ g.code = Tail(c) /\ g.saved = s /\ g.kind = "program"
  <2> DEFINE u == Tail(c)
  <2>1. g = [f EXCEPT !.code = u] /\ u \in Seq(Op)
    BY <1>2
  <2> HIDE DEF u
  <2>2. g \in Frames /\ g.code = u /\ g.saved = f.saved /\ g.kind = f.kind
    <3>1. f \in Frames
      BY <1>1
    <3> QED  BY <2>1, <3>1 DEF Frames
  <2> QED  BY <1>1, <2>2 DEF u
<1>4. Nests(Tail(c), Len(s), 0) /\ Stands(c[1].op, Len(s))
  BY <1>1, NestsHead
<1>5. /\ c[1].op \notin {"clear_ienable", "cpu_enable_interrupts"} => SwitchedOn(c) /\ SwitchedOn(Tail(c))
      /\ c[1].op = "clear_ienable" => ~SwitchedOn(c) /\ ~SwitchedOn(Tail(c))
      /\ c[1].op = "cpu_enable_interrupts" => ~SwitchedOn(c) /\ SwitchedOn(Tail(c))
  BY <1>1, ProgramTail
<1>6. c[1].op = "cpu_enable_interrupts" => s = <<>> /\ Len(s) = 0
  <2>1. c[1].op = "cpu_enable_interrupts" => Len(s) = 0
    BY <1>4 DEF Stands, Outside
  <2>2. s # <<>> => Len(s) \in Nat \ {0}
    BY <1>1, EmptySeq
  <2> QED  BY <2>1, <2>2
<1> HIDE DEF c, s
<1>7. Base(g)
  <2>1. Whole(g)
    BY <1>3, <1>4 DEF Whole
  <2>2. ASSUME NEW k \in 1..Len(s) PROVE Says(s[k], SwitchedOn(Tail(c)) /\ k = 1)
    <3>1. CASE c[1].op = "cpu_enable_interrupts"
      BY <1>6, <3>1
    <3>2. CASE c[1].op # "cpu_enable_interrupts"
      <4>1. SwitchedOn(c) <=> SwitchedOn(Tail(c))
        BY <1>5, <3>2
      <4>2. Says(s[k], SwitchedOn(c) /\ k = 1)
        BY <1>1
      <4> QED  BY <4>1, <4>2 DEF Says
    <3> QED  BY <3>1, <3>2
  <2> QED  BY <1>3, <2>1, <2>2 DEF Base
<1>8. Level(g) <=> (SwitchedOn(Tail(c)) /\ s = <<>>)
  BY <1>3 DEF Level
<1>9. Level(f) <=> (SwitchedOn(c) /\ s = <<>>)
  BY DEF Level, c, s
<1> QED  BY <1>3, <1>4, <1>5, <1>6, <1>7, <1>8, <1>9 DEF c, s

LEMMA BaseDisable ==
  ASSUME NEW f, Base(f), f.code # <<>>, NEW b, Program(f.code, b), f.code[1].op = "disable_all",
         NEW p, Says(p, Level(f)), p \in BOOLEAN,
         NEW g, g = [f EXCEPT !.code = Tail(f.code), !.saved = Append(f.saved, p)]
  PROVE  Base(g) /\ g.code = Tail(f.code) /\ ~Level(g)
<1> DEFINE c == f.code
           s == f.saved
           m == Len(s)
           S == Append(s, p)
<1>1. f \in Frames /\ c \in Seq(Op) /\ s \in Seq(BOOLEAN) /\ Nests(c, m, 0) /\ f.kind = "program"
  BY FrameIs DEF Base, Whole
<1>2. \A k \in 1..m : Says(s[k], SwitchedOn(c) /\ k = 1)
  BY DEF Base
<1>3. Tail(c) \in Seq(Op)
  BY <1>1, TailIs
<1>4. S \in Seq(BOOLEAN) /\ S # <<>> /\ Len(S) = m + 1 /\ (\A k \in 1..m : S[k] = s[k]) /\ S[m + 1] = p /\ m \in Nat
      /\ (s = <<>> <=> m = 0)
  <2>1. s = <<>> <=> m = 0
    BY <1>1, EmptySeq
  <2> QED  BY <1>1, <2>1, AppendProperties, LenProperties
<1>5. g \in Frames /\ g.code = Tail(c) /\ g.saved = S /\ g.kind = "program"
  <2> DEFINE u == Tail(c)
  <2>1. g = [f EXCEPT !.code = u, !.saved = S] /\ u \in Seq(Op)
    BY <1>3
  <2> HIDE DEF u, S
  <2>2. g \in Frames /\ g.code = u /\ g.saved = S /\ g.kind = f.kind
    <3>1. f \in Frames /\ S \in Seq(BOOLEAN)
      BY <1>1, <1>4
    <3> QED  BY <2>1, <3>1 DEF Frames
  <2> QED  BY <1>1, <2>2 DEF u
<1>6. Nests(Tail(c), m + 1, 0)
  <2>1. Nests(Tail(c), m + Change(c[1].op), 0)
    BY <1>1, NestsTail
  <2>2. Change(c[1].op) = 1
    BY DEF Change
  <2> QED  BY <2>1, <2>2
<1>7. SwitchedOn(c) /\ SwitchedOn(Tail(c))
  BY <1>1, ProgramTail
<1>8. Level(f) <=> s = <<>>
  BY <1>7 DEF Level, c, s
<1> HIDE DEF c, s, m, S
<1>9. ASSUME NEW k \in 1..m + 1 PROVE Says(S[k], SwitchedOn(Tail(c)) /\ k = 1)
  <2>1. CASE k = m + 1
    <3>1. k = 1 <=> m = 0
      BY <1>4, <2>1
    <3> QED  BY <1>4, <1>7, <1>8, <2>1, <3>1 DEF Says
  <2>2. CASE k # m + 1
    <3>1. k \in 1..m
      BY <1>4, <2>2
    <3>2. Says(s[k], SwitchedOn(c) /\ k = 1)
      BY <1>2, <3>1
    <3> QED  BY <1>4, <1>7, <3>1, <3>2 DEF Says
  <2> QED  BY <2>1, <2>2
<1>10. Base(g)
  <2>1. Whole(g)
    BY <1>4, <1>5, <1>6 DEF Whole
  <2> QED  BY <1>4, <1>5, <1>9, <2>1 DEF Base
<1>11. ~Level(g)
  BY <1>4, <1>5 DEF Level
<1> QED  BY <1>5, <1>10, <1>11 DEF c

LEMMA Shorter ==
  ASSUME NEW s \in Seq(BOOLEAN), Len(s) > 0
  PROVE  /\ SubSeq(s, 1, Len(s) - 1) \in Seq(BOOLEAN) /\ Len(SubSeq(s, 1, Len(s) - 1)) = Len(s) - 1
         /\ \A k \in 1..Len(s) - 1 : SubSeq(s, 1, Len(s) - 1)[k] = s[k]
         /\ SubSeq(s, 1, Len(s) - 1) = <<>> <=> Len(s) = 1
         /\ Len(s) \in Nat \ {0} /\ s[Len(s)] \in BOOLEAN
<1> DEFINE m == Len(s)
           S == SubSeq(s, 1, m - 1)
<1>1. m \in Nat /\ m > 0
  BY LenProperties
<1>2. \A k \in 1..m : s[k] \in BOOLEAN
  BY ElementOfSeq
<1> HIDE DEF m
<1>3. \A k \in 1..m - 1 : s[k] \in BOOLEAN
  BY <1>1, <1>2
<1>4. 1 \in Int /\ m - 1 \in Int /\ ((m - 1) - 1) + 1 = m - 1
  BY <1>1
<1>5. /\ S \in Seq(BOOLEAN)
      /\ Len(S) = IF 1 <= m - 1 THEN ((m - 1) - 1) + 1 ELSE 0
      /\ \A k \in 1..((m - 1) - 1) + 1 : S[k] = s[(1 + k) - 1]
  BY <1>3, <1>4, SubSeqProperties
<1> HIDE DEF S
<1>6. Len(S) = m - 1
  BY <1>1, <1>5
<1>7. \A k \in 1..m - 1 : S[k] = s[k]
  <2> TAKE k \in 1..m - 1
  <2>1. k \in 1..((m - 1) - 1) + 1 /\ (1 + k) - 1 = k
    BY <1>1
  <2> QED  BY <1>5, <2>1
<1>8. S = <<>> <=> m = 1
  <2>1. S # <<>> => Len(S) \in Nat \ {0}
    BY <1>5, EmptySeq
  <2>2. S = <<>> => Len(S) = 0
    OBVIOUS
  <2> QED  BY <1>1, <1>6, <2>1, <2>2
<1>9. m \in 1..m
  BY <1>1
<1> QED  BY <1>1, <1>2, <1>5, <1>6, <1>7, <1>8, <1>9 DEF S, m

LEMMA BaseEnable ==
  ASSUME NEW f, Base(f), f.code # <<>>, NEW b, Program(f.code, b), f.code[1].op = "enable_all",
         NEW g, g = [f EXCEPT !.code = Tail(f.code), !.saved = SubSeq(f.saved, 1, Len(f.saved) - 1)]
  PROVE  /\ Base(g) /\ g.code = Tail(f.code) /\ f.saved # <<>>
         /\ f.saved[Len(f.saved)] \in BOOLEAN /\ Says(f.saved[Len(f.saved)], Level(g))
<1> DEFINE c == f.code
           s == f.saved
           m == Len(s)
           S == SubSeq(s, 1, m - 1)
<1>1. f \in Frames /\ c \in Seq(Op) /\ s \in Seq(BOOLEAN) /\ Nests(c, m, 0) /\ f.kind = "program"
  BY FrameIs DEF Base, Whole
<1>2. \A k \in 1..m : Says(s[k], SwitchedOn(c) /\ k = 1)
  BY DEF Base
<1>3. Tail(c) \in Seq(Op)
  BY <1>1, TailIs
<1>4. m \in 0..3 /\ Stands(c[1].op, m) /\ Nests(Tail(c), m + Change(c[1].op), 0)
  BY <1>1, NestsTail
<1>5. m > 0 /\ Nests(Tail(c), m - 1, 0)
  <2>1. m > 0
    BY <1>4 DEF Stands, Inside
  <2>2. m + Change(c[1].op) = m - 1
    BY <1>4 DEF Change
  <2> QED  BY <1>4, <2>1, <2>2
<1>6. /\ S \in Seq(BOOLEAN) /\ Len(S) = m - 1 /\ (\A k \in 1..m - 1 : S[k] = s[k]) /\ (S = <<>> <=> m = 1)
      /\ m \in Nat \ {0} /\ s[m] \in BOOLEAN
  BY <1>1, <1>5, Shorter
<1>7. g \in Frames /\ g.code = Tail(c) /\ g.saved = S /\ g.kind = "program"
  <2> DEFINE u == Tail(c)
  <2>1. g = [f EXCEPT !.code = u, !.saved = S] /\ u \in Seq(Op)
    BY <1>3
  <2> HIDE DEF u, S
  <2>2. g \in Frames /\ g.code = u /\ g.saved = S /\ g.kind = f.kind
    <3>1. f \in Frames /\ S \in Seq(BOOLEAN)
      BY <1>1, <1>6
    <3> QED  BY <2>1, <3>1 DEF Frames
  <2> QED  BY <1>1, <2>2 DEF u
<1>8. SwitchedOn(c) /\ SwitchedOn(Tail(c))
  BY <1>1, ProgramTail
<1>9. s # <<>>
  BY <1>5
<1> HIDE DEF c, s, m, S
<1>10. Base(g)
  <2>1. Whole(g)
    BY <1>5, <1>6, <1>7 DEF Whole
  <2>2. ASSUME NEW k \in 1..m - 1 PROVE Says(S[k], SwitchedOn(Tail(c)) /\ k = 1)
    <3>1. k \in 1..m
      BY <1>6
    <3>2. Says(s[k], SwitchedOn(c) /\ k = 1) /\ S[k] = s[k]
      BY <1>2, <1>6, <3>1
    <3> QED  BY <1>8, <3>2 DEF Says
  <2> QED  BY <1>6, <1>7, <2>1, <2>2 DEF Base
<1>11. Level(g) <=> m = 1
  BY <1>6, <1>7, <1>8 DEF Level
<1>12. Says(s[m], SwitchedOn(c) /\ m = 1)
  <2>1. m \in 1..m
    BY <1>6
  <2> QED  BY <1>2, <2>1
<1>13. Says(s[m], Level(g))
  BY <1>8, <1>11, <1>12 DEF Says
<1> QED  BY <1>6, <1>7, <1>9, <1>10, <1>13 DEF c, s, m

(* The frame of an interrupt, and what any step leaves of its code.        *)
LEMMA DispatchesTail ==
  ASSUME NEW f \in Frames, f.code # <<>>, NEW e, NEW q, Dispatches(f, e, q),
         NEW g, g.code = Tail(f.code), NEW E, NEW Q
  PROVE  Dispatches(g, E, Q)
<1> DEFINE c == f.code
           u == Tail(c)
<1>1. c \in Seq(Op)
  BY FrameIs
<1>2. /\ Len(c) \in Nat \ {0} /\ Len(u) = Len(c) - 1
      /\ \A k \in 1..Len(c) - 1 : k + 1 \in 1..Len(c) /\ u[k] = c[k + 1]
  BY <1>1, TailIs
<1>3. g.code = u
  OBVIOUS
<1>4. /\ \A k \in 1..Len(c) : c[k].op \in HandlerOps
      /\ \A k \in 1..Len(c) : c[k].op = "pending" => Len(c) = 1
      /\ \A k \in 1..Len(c) : c[k].op = "dispatch" => Len(c) = 1
  BY DEF Dispatches
<1> HIDE DEF c, u
<1>5. ASSUME NEW k \in 1..Len(u) PROVE u[k].op \in HandlerOps /\ u[k].op # "pending" /\ u[k].op # "dispatch"
  <2>1. k + 1 \in 1..Len(c) /\ u[k] = c[k + 1] /\ Len(c) # 1
    BY <1>2
  <2> QED  BY <1>4, <2>1
<1> QED  BY <1>3, <1>5 DEF Dispatches

LEMMA UpperTail ==
  ASSUME NEW f, NEW e, NEW q, Interrupted(f, e, q), f.code # <<>>, f.code[1].op \notin {"disable_all", "enable_all"},
         NEW g, g = [f EXCEPT !.code = Tail(f.code)], NEW E, NEW Q
  PROVE  Interrupted(g, E, Q)
<1> DEFINE c == f.code
           s == f.saved
<1>1. /\ f \in Frames /\ c \in Seq(Op) /\ s \in Seq(BOOLEAN) /\ Nests(c, Len(s), 0) /\ f.kind = "interrupt"
      /\ f.skip = FALSE /\ f.estatus = TRUE /\ (\A k \in 1..Len(s) : s[k] = FALSE)
  BY FrameIs DEF Interrupted, Whole
<1>2. Nests(Tail(c), Len(s), 0) /\ Tail(c) \in Seq(Op)
  BY <1>1, NestsHead, TailIs
<1>3. g \in Frames /\ g.code = Tail(c) /\ g.saved = s /\ g.kind = f.kind /\ g.skip = f.skip /\ g.estatus = f.estatus
  <2> DEFINE u == Tail(c)
  <2>1. g = [f EXCEPT !.code = u] /\ u \in Seq(Op)
    BY <1>2
  <2> HIDE DEF u
  <2>2. g \in Frames /\ g.code = u /\ g.saved = f.saved /\ g.kind = f.kind /\ g.skip = f.skip /\ g.estatus = f.estatus
    <3>1. f \in Frames
      BY <1>1
    <3> QED  BY <2>1, <3>1 DEF Frames
  <2> QED  BY <2>2 DEF u
<1>4. Dispatches(g, E, Q)
  BY <1>1, <1>3, DispatchesTail DEF Interrupted
<1>5. Whole(g)
  BY <1>2, <1>3 DEF Whole
<1> QED  BY <1>1, <1>3, <1>4, <1>5 DEF Interrupted

LEMMA UpperDisable ==
  ASSUME NEW f, NEW e, NEW q, Interrupted(f, e, q), f.code # <<>>, f.code[1].op = "disable_all",
         NEW p, p = FALSE, NEW g, g = [f EXCEPT !.code = Tail(f.code), !.saved = Append(f.saved, p)], NEW E, NEW Q
  PROVE  Interrupted(g, E, Q)
<1> DEFINE c == f.code
           s == f.saved
           m == Len(s)
           S == Append(s, p)
<1>1. /\ f \in Frames /\ c \in Seq(Op) /\ s \in Seq(BOOLEAN) /\ Nests(c, m, 0) /\ f.kind = "interrupt"
      /\ f.skip = FALSE /\ f.estatus = TRUE /\ (\A k \in 1..m : s[k] = FALSE)
  BY FrameIs DEF Interrupted, Whole
<1>2. Nests(Tail(c), m + 1, 0) /\ Tail(c) \in Seq(Op)
  <2>1. Nests(Tail(c), m + Change(c[1].op), 0) /\ Tail(c) \in Seq(Op)
    BY <1>1, NestsTail, TailIs
  <2>2. Change(c[1].op) = 1
    BY DEF Change
  <2> QED  BY <2>1, <2>2
<1>3. S \in Seq(BOOLEAN) /\ Len(S) = m + 1 /\ (\A k \in 1..m : S[k] = s[k]) /\ S[m + 1] = FALSE /\ m \in Nat
  <2>1. p \in BOOLEAN
    OBVIOUS
  <2>2. /\ S \in Seq(BOOLEAN) /\ Len(S) = m + 1 /\ (\A k \in 1..m : S[k] = s[k]) /\ S[m + 1] = p /\ m \in Nat
    BY <1>1, <2>1, AppendProperties, LenProperties
  <2> QED  BY <2>2
<1>4. g \in Frames /\ g.code = Tail(c) /\ g.saved = S /\ g.kind = f.kind /\ g.skip = f.skip /\ g.estatus = f.estatus
  <2> DEFINE u == Tail(c)
  <2>1. g = [f EXCEPT !.code = u, !.saved = S] /\ u \in Seq(Op)
    BY <1>2
  <2> HIDE DEF u, S
  <2>2. g \in Frames /\ g.code = u /\ g.saved = S /\ g.kind = f.kind /\ g.skip = f.skip /\ g.estatus = f.estatus
    <3>1. f \in Frames /\ S \in Seq(BOOLEAN)
      BY <1>1, <1>3
    <3> QED  BY <2>1, <3>1 DEF Frames
  <2> QED  BY <2>2 DEF u
<1>5. Dispatches(g, E, Q)
  BY <1>1, <1>4, DispatchesTail DEF Interrupted
<1> HIDE DEF c, s, m, S
<1>6. Whole(g)
  BY <1>2, <1>3, <1>4 DEF Whole
<1>7. \A k \in 1..Len(S) : S[k] = FALSE
  <2> TAKE k \in 1..Len(S)
  <2>1. k = m + 1 \/ k \in 1..m
    BY <1>3
  <2> QED  BY <1>1, <1>3, <2>1
<1> QED  BY <1>1, <1>4, <1>5, <1>6, <1>7 DEF Interrupted

LEMMA UpperEnable ==
  ASSUME NEW f, NEW e, NEW q, Interrupted(f, e, q), f.code # <<>>, f.code[1].op = "enable_all",
         NEW g, g = [f EXCEPT !.code = Tail(f.code), !.saved = SubSeq(f.saved, 1, Len(f.saved) - 1)], NEW E, NEW Q
  PROVE  Interrupted(g, E, Q) /\ f.saved[Len(f.saved)] = FALSE
<1> DEFINE c == f.code
           s == f.saved
           m == Len(s)
           S == SubSeq(s, 1, m - 1)
<1>1. /\ f \in Frames /\ c \in Seq(Op) /\ s \in Seq(BOOLEAN) /\ Nests(c, m, 0) /\ f.kind = "interrupt"
      /\ f.skip = FALSE /\ f.estatus = TRUE /\ (\A k \in 1..m : s[k] = FALSE)
  BY FrameIs DEF Interrupted, Whole
<1>2. Tail(c) \in Seq(Op) /\ m \in 0..3 /\ Stands(c[1].op, m) /\ Nests(Tail(c), m + Change(c[1].op), 0)
  BY <1>1, NestsTail, TailIs
<1>3. m > 0 /\ Nests(Tail(c), m - 1, 0)
  <2>1. m > 0
    BY <1>2 DEF Stands, Inside
  <2>2. m + Change(c[1].op) = m - 1
    BY <1>2 DEF Change
  <2> QED  BY <1>2, <2>1, <2>2
<1>4. S \in Seq(BOOLEAN) /\ Len(S) = m - 1 /\ (\A k \in 1..m - 1 : S[k] = s[k]) /\ m \in Nat \ {0}
  BY <1>1, <1>3, Shorter
<1>5. g \in Frames /\ g.code = Tail(c) /\ g.saved = S /\ g.kind = f.kind /\ g.skip = f.skip /\ g.estatus = f.estatus
  <2> DEFINE u == Tail(c)
  <2>1. g = [f EXCEPT !.code = u, !.saved = S] /\ u \in Seq(Op)
    BY <1>2
  <2> HIDE DEF u, S
  <2>2. g \in Frames /\ g.code = u /\ g.saved = S /\ g.kind = f.kind /\ g.skip = f.skip /\ g.estatus = f.estatus
    <3>1. f \in Frames /\ S \in Seq(BOOLEAN)
      BY <1>1, <1>4
    <3> QED  BY <2>1, <3>1 DEF Frames
  <2> QED  BY <2>2 DEF u
<1>6. Dispatches(g, E, Q)
  BY <1>1, <1>5, DispatchesTail DEF Interrupted
<1> HIDE DEF c, s, m, S
<1>7. Whole(g)
  BY <1>3, <1>4, <1>5 DEF Whole
<1>8. \A k \in 1..Len(S) : S[k] = FALSE
  <2> TAKE k \in 1..Len(S)
  <2>1. k \in 1..m /\ k \in 1..m - 1
    BY <1>4
  <2> QED  BY <1>1, <1>4, <2>1
<1>9. s[m] = FALSE
  <2>1. m \in 1..m
    BY <1>4
  <2> QED  BY <1>1, <2>1
<1> QED  BY <1>1, <1>5, <1>6, <1>7, <1>8, <1>9 DEF Interrupted, s, m

(* The code of one step, in a frame that has saved nothing.                *)
LEMMA SoleIs ==
  ASSUME NEW x \in Ops, x \notin {"disable_all", "enable_all"} \cup Inside
  PROVE  /\ <<Do(x)>> \in Seq(Op) /\ Len(<<Do(x)>>) = 1 /\ <<Do(x)>>[1] = Do(x) /\ Do(x).op = x
         /\ Nests(<<Do(x)>>, 0, 0) /\ <<Do(x)>> # <<>> /\ Head(<<Do(x)>>) = Do(x)
<1> DEFINE y == Do(x)
<1>1. y \in Op /\ y.op = x
  <2>1. y \in Op
    BY LinesAre, DoType
  <2> QED  BY <2>1 DEF Do
<1> HIDE DEF y
<1>2. Nests(<<y>>, 0, 0)
  <2>1. Stands(y.op, 0) /\ y.op \notin {"disable_all", "enable_all"} /\ 0 \in 0..3
    BY <1>1 DEF Stands
  <2> QED  BY <1>1, <2>1, NestsFlat
<1>3. <<y>> \in Seq(Op) /\ Len(<<y>>) = 1 /\ <<y>>[1] = y /\ <<y>> # <<>> /\ Head(<<y>>) = y
  BY <1>1
<1> QED  BY <1>1, <1>2, <1>3 DEF y

(* Which frame runs, by what it does next.                                 *)
LEMMA OnTop ==
  ASSUME NEW F, NEW p, NEW e, NEW q, Stack(F, p, e, q), NEW b, Program(F[1].code, b),
         F[Len(F)].code # <<>>, NEW x, x = F[Len(F)].code[1].op
  PROVE  \/ Len(F) = 1 /\ x \in ProgramOps /\ Says(p, Level(F[1]))
         \/ Twofold(F, p, e, q) /\ Interrupted(F[2], e, q) /\ Level(F[1]) /\ x \in HandlerOps
         \/ /\ Twofold(F, p, e, q) \/ Threefold(F, p, e)
            /\ \/ F[Len(F)].kind = "entry" /\ x = "irqtest"
               \/ F[Len(F)].kind = "exception" /\ x \in {"exception", "eret", "break"}
<1> DEFINE c == F[Len(F)].code
<1>1. CASE Alone(F, p)
  <2>1. Len(F) = 1 /\ F[1] \in Frames
    BY <1>1 DEF Alone, Stack, Base, Whole
  <2>2. 1 \in 1..Len(c)
    BY <2>1, FrameIs, NotEmpty
  <2> QED  BY <1>1, <2>1, <2>2 DEF Alone, Program
<1>2. ASSUME NEW f, NEW g, Entered(f, g, q) \/ Entered(f, g, FALSE) \/ Excepted(f, g), f.code # <<>>
      PROVE  \/ f.kind = "entry" /\ f.code[1].op = "irqtest"
             \/ f.kind = "exception" /\ f.code[1].op \in {"exception", "eret", "break"}
  <2>1. /\ <<Do("irqtest")>>[1].op = "irqtest" /\ <<Do("exception")>>[1].op = "exception"
        /\ <<Do("eret")>>[1].op = "eret" /\ <<Do("break")>>[1].op = "break"
    BY DEF Do
  <2>2. \/ f.kind = "entry" /\ f.code = <<Do("irqtest")>>
        \/ f.kind = "exception" /\ f.code \in {<<Do("exception")>>, <<Do("eret")>>, <<Do("break")>>}
    <3>1. CASE Entered(f, g, q) \/ Entered(f, g, FALSE)
      BY <3>1 DEF Entered
    <3>2. CASE Excepted(f, g)
      BY <3>2 DEF Excepted
    <3> QED  BY <1>2, <3>1, <3>2
  <2>3. CASE f.kind = "entry" /\ f.code = <<Do("irqtest")>>
    BY <2>1, <2>3
  <2>4. CASE f.kind = "exception" /\ f.code \in {<<Do("exception")>>, <<Do("eret")>>, <<Do("break")>>}
    BY <2>1, <2>4
  <2> QED  BY <2>2, <2>3, <2>4
<1>3. CASE Twofold(F, p, e, q)
  <2>1. Len(F) = 2
    BY <1>3 DEF Twofold
  <2>2. CASE Entered(F[2], F[1], q) \/ Excepted(F[2], F[1])
    BY <1>2, <1>3, <2>1, <2>2
  <2>3. CASE Interrupted(F[2], e, q) /\ Level(F[1])
    <3>1. F[2] \in Frames /\ Dispatches(F[2], e, q)
      BY <2>3 DEF Interrupted, Whole
    <3>2. 1 \in 1..Len(c)
      BY <2>1, <3>1, FrameIs, NotEmpty
    <3> QED  BY <1>3, <2>1, <2>3, <3>1, <3>2 DEF Dispatches
  <2> QED  BY <1>3, <2>2, <2>3 DEF Twofold
<1>4. CASE Threefold(F, p, e)
  <2>1. Len(F) = 3 /\ (Entered(F[3], F[2], FALSE) \/ Excepted(F[3], F[2]))
    BY <1>4 DEF Threefold
  <2> QED  BY <1>2, <1>4, <2>1
<1> QED  BY <1>1, <1>3, <1>4 DEF Stack

(* The moves of the stack of frames.                                       *)
LEMMA RunningIs ==
  ASSUME IrqInv
  PROVE  /\ frames \in Seq(Frames) /\ Len(frames) \in {1, 2, 3} /\ Base(frames[1]) /\ frames[1] \in Frames
         /\ Running \in Frames /\ Running = frames[Len(frames)]
         /\ CodeOrder(frames[1].code, frames[1].saved, alt_irq, ienable, alt_irq_active, board, calls)
         /\ Program(frames[1].code, board) /\ Others
         /\ \A x : AtOp(x) => Running.code # <<>> /\ Running.code[1].op = x /\ Head(Running.code) = Running.code[1]
<1>1. frames \in Seq(Frames) /\ Base(frames[1])
      /\ (Alone(frames, pie) \/ Twofold(frames, pie, ienable, ipending # {}) \/ Threefold(frames, pie, ienable))
  BY DEF IrqInv, Stack
<1>2. Len(frames) \in {1, 2, 3}
  BY <1>1 DEF Alone, Twofold, Threefold
<1>3. Running \in Frames
  <2>1. Len(frames) \in 1..Len(frames)
    BY <1>2
  <2> QED  BY <1>1, <2>1, ElementOfSeq DEF Running
<1>4. frames[1] \in Frames
  BY <1>1 DEF Base, Whole
<1>5. ASSUME NEW x, AtOp(x) PROVE Running.code # <<>> /\ Running.code[1].op = x /\ Head(Running.code) = Running.code[1]
  <2> DEFINE c == Running.code
  <2>1. c \in Seq(Op)
    BY <1>3, FrameIs
  <2>2. c # <<>> /\ Head(c).op = x
    BY <1>5 DEF AtOp
  <2> HIDE DEF c
  <2>3. Head(c) = c[1]
    BY <2>1, <2>2, TailIs
  <2>4. c # <<>> /\ c[1].op = x /\ Head(c) = c[1]
    BY <2>2, <2>3
  <2> QED  BY <2>4 DEF c
<1>6. Running = frames[Len(frames)]
  BY DEF Running
<1> QED  BY <1>1, <1>2, <1>3, <1>4, <1>5, <1>6 DEF IrqInv, CodeOrder

LEMMA ResumeIs ==
  ASSUME IrqInv, NEW g \in Frames, Resume(g)
  PROVE  /\ frames' \in Seq(Frames) /\ Len(frames') = Len(frames) /\ frames'[Len(frames)] = g
         /\ Len(frames) # 1 => frames'[1] = frames[1]
         /\ Len(frames) # 2 /\ Len(frames) # 1 => frames'[2] = frames[2]
<1> DEFINE n == Len(frames)
<1>1. frames \in Seq(Frames) /\ n \in {1, 2, 3}
  BY RunningIs
<1>2. frames' = [frames EXCEPT ![n] = g]
  BY DEF Resume
<1> HIDE DEF n
<1>3. n \in 1..n /\ n = Len(frames)
  BY <1>1 DEF n
<1>4. /\ frames' \in Seq(Frames) /\ Len(frames') = n
      /\ \A j \in 1..n : frames'[j] = IF j = n THEN g ELSE frames[j]
  BY <1>1, <1>2, <1>3, ExceptSeq
<1>5. frames'[n] = g /\ (n # 1 => frames'[1] = frames[1]) /\ (n # 2 /\ n # 1 => frames'[2] = frames[2])
  <2>1. 1 \in 1..n /\ (n # 1 => 2 \in 1..n)
    BY <1>1
  <2> QED  BY <1>3, <1>4, <2>1
<1> QED  BY <1>3, <1>4, <1>5

LEMMA ProgramMove ==
  ASSUME IrqInv, Len(frames) = 1, NEW g, Base(g), Resume(g), Says(pie', Level(g)),
         CodeOrder(g.code, g.saved, alt_irq', ienable', alt_irq_active', board', calls'), Others'
  PROVE  IrqInv'
<1>1. g \in Frames
  BY DEF Base, Whole
<1>2. frames' \in Seq(Frames) /\ Len(frames') = 1 /\ frames'[1] = g
  BY <1>1, ResumeIs
<1>3. Stack(frames', pie', ienable', (ipending # {})')
  BY <1>2 DEF Stack, Alone
<1> QED  BY <1>2, <1>3 DEF IrqInv

Program0 == <<ienable, alt_irq_active, alt_irq, board, calls>>

LEMMA UpperMove ==
  ASSUME IrqInv, Len(frames) = 2, Level(frames[1]), NEW g, Interrupted(g, ienable, (ipending # {})'),
         Resume(g), pie' = FALSE, UNCHANGED Program0, Others'
  PROVE  IrqInv'
<1>1. g \in Frames
  BY DEF Interrupted, Whole
<1>2. frames' \in Seq(Frames) /\ Len(frames') = 2 /\ frames'[2] = g /\ frames'[1] = frames[1]
  BY <1>1, ResumeIs
<1>3. UNCHANGED <<ienable, alt_irq_active, alt_irq, board, calls>>
  BY DEF Program0
<1>4. Base(frames[1]) /\ CodeOrder(frames[1].code, frames[1].saved, alt_irq, ienable, alt_irq_active, board, calls)
  BY RunningIs
<1>5. Stack(frames', pie', ienable', (ipending # {})')
  BY <1>2, <1>3, <1>4 DEF Stack, Twofold
<1> QED  BY <1>2, <1>3, <1>4, <1>5 DEF IrqInv

(* A frame of an exception, but for that of an interrupt.                  *)
LEMMA TopMove ==
  ASSUME IrqInv, Twofold(frames, pie, ienable, ipending # {}) \/ Threefold(frames, pie, ienable),
         Running.kind # "interrupt", NEW g, Excepted(g, frames[Len(frames) - 1]), g.estatus = Running.estatus,
         Resume(g), UNCHANGED <<pie, ienable, alt_irq_active, alt_irq, board, calls, lines>>, Others'
  PROVE  IrqInv'
<1>1. g \in Frames
  BY DEF Excepted, Whole
<1>2. /\ frames' \in Seq(Frames) /\ Len(frames') = Len(frames) /\ frames'[Len(frames)] = g
      /\ Len(frames) # 1 => frames'[1] = frames[1]
      /\ Len(frames) # 2 /\ Len(frames) # 1 => frames'[2] = frames[2]
  BY <1>1, ResumeIs
<1>3. Base(frames[1]) /\ CodeOrder(frames[1].code, frames[1].saved, alt_irq, ienable, alt_irq_active, board, calls)
  BY RunningIs
<1>4. CASE Twofold(frames, pie, ienable, ipending # {})
  <2>1. Len(frames) = 2 /\ pie = FALSE
    BY <1>4 DEF Twofold
  <2>2. Says(frames[2].estatus, Level(frames[1]))
    <3>1. ~Interrupted(frames[2], ienable, ipending # {})
      BY <2>1 DEF Interrupted, Running
    <3> QED  BY <1>4, <3>1 DEF Twofold
  <2>3. Says(g.estatus, Level(frames[1])) /\ Excepted(g, frames[1])
    BY <2>1, <2>2 DEF Running
  <2>4. Twofold(frames', pie', ienable', (ipending # {})')
    BY <1>2, <2>1, <2>3 DEF Twofold
  <2>5. frames'[1] = frames[1]
    BY <1>2, <2>1
  <2>6. Stack(frames', pie', ienable', (ipending # {})')
    BY <1>2, <1>3, <2>4, <2>5 DEF Stack
  <2> QED  BY <1>3, <2>5, <2>6 DEF IrqInv
<1>5. CASE Threefold(frames, pie, ienable)
  <2>1. Len(frames) = 3 /\ pie = FALSE /\ Interrupted(frames[2], ienable, FALSE) /\ Level(frames[1])
        /\ frames[3].estatus = FALSE
    BY <1>5 DEF Threefold
  <2>2. g.estatus = FALSE /\ Excepted(g, frames[2])
    BY <2>1 DEF Running
  <2>3. frames'[1] = frames[1] /\ frames'[2] = frames[2] /\ frames'[3] = g /\ Len(frames') = 3
    BY <1>2, <2>1
  <2>4. Threefold(frames', pie', ienable')
    BY <2>1, <2>2, <2>3 DEF Threefold
  <2>5. Stack(frames', pie', ienable', (ipending # {})')
    BY <1>2, <1>3, <2>3, <2>4 DEF Stack
  <2> QED  BY <1>3, <2>3, <2>5 DEF IrqInv
<1> QED  BY <1>4, <1>5

LEMMA FunctionIsSeq ==
  ASSUME NEW S, NEW m \in Nat, NEW f \in [1..m -> S]
  PROVE  f \in Seq(S) /\ Len(f) = m
<1>1. f \in Seq(S)
  BY SeqDef
<1>2. Len(f) \in Nat /\ DOMAIN f = 1..Len(f) /\ DOMAIN f = 1..m
  BY <1>1, LenProperties
<1> DEFINE k == Len(f)
<1>3. k \in Nat /\ 1..k = 1..m
  BY <1>2
<1> HIDE DEF k
<1>4. k = m
  <2>1. (k # 0 => k \in 1..k) /\ (m # 0 => m \in 1..m)
    BY <1>3
  <2>2. (k # 0 => k \in 1..m) /\ (m # 0 => m \in 1..k)
    BY <1>3, <2>1
  <2> QED  BY <1>3, <2>2
<1> QED  BY <1>1, <1>4 DEF k

(* An interrupt's frame that does not read what is pending next.           *)
LEMMA InterruptedAny ==
  ASSUME NEW f, NEW e, NEW q, Interrupted(f, e, q), f.code # <<>>, f.code[1].op # "pending", NEW Q
  PROVE  Interrupted(f, e, Q)
<1> DEFINE c == f.code
<1>1. f \in Frames /\ Dispatches(f, e, q)
  BY DEF Interrupted, Whole
<1>2. ASSUME NEW k \in 1..Len(c) PROVE c[k].op # "pending"
  <2>1. SUFFICES ASSUME c[k].op = "pending" PROVE FALSE
    OBVIOUS
  <2>2. Len(c) = 1
    BY <1>1, <2>1 DEF Dispatches
  <2>3. k = 1
    BY <2>2
  <2> QED  BY <2>1, <2>3
<1>3. Dispatches(f, e, Q)
  BY <1>1, <1>2 DEF Dispatches
<1> QED  BY <1>3 DEF Interrupted

LEMMA EnterInv ==
  ASSUME IrqInv, Enter, UNCHANGED <<ienable, alt_irq_active, alt_irq, board, calls, lines>>, Others',
         (pie = TRUE /\ ipending # {}) \/ AtOp("trap")
  PROVE  IrqInv'
<1> DEFINE x == Do("irqtest")
           h == Frame("entry", <<x>>)
<1>1. /\ frames \in Seq(Frames) /\ Len(frames) \in {1, 2, 3} /\ Base(frames[1])
      /\ CodeOrder(frames[1].code, frames[1].saved, alt_irq, ienable, alt_irq_active, board, calls)
      /\ Program(frames[1].code, board) /\ pie \in BOOLEAN
      /\ Stack(frames, pie, ienable, ipending # {})
  BY RunningIs DEF Others, IrqInv
<1>2. frames' = Append(frames, h) /\ pie' = FALSE
  BY DEF Enter
<1>3. /\ h \in Frames /\ h.kind = "entry" /\ h.code = <<x>> /\ h.saved = <<>> /\ h.estatus = pie /\ h.skip = FALSE
      /\ Nests(<<x>>, 0, 0)
  <2> DEFINE c == <<x>>
  <2>1. c \in Seq(Op) /\ Nests(c, 0, 0)
    BY NamesAre, SoleIs DEF Inside
  <2> HIDE DEF c
  <2>2. h = [kind |-> "entry", code |-> c, saved |-> <<>>, estatus |-> pie, skip |-> FALSE, pending |-> {}]
    BY DEF Frame, c
  <2>3. <<>> \in Seq(BOOLEAN) /\ {} \in SUBSET Irqs /\ FALSE \in BOOLEAN
    OBVIOUS
  <2>4. "entry" \in {"program", "entry", "interrupt", "exception"}
    OBVIOUS
  <2> HIDE DEF h
  <2>5. h \in Frames
    BY <1>1, <2>1, <2>2, <2>3, <2>4 DEF Frames
  <2>6. h.kind = "entry" /\ h.code = c /\ h.saved = <<>> /\ h.estatus = pie /\ h.skip = FALSE
    BY <2>2
  <2>7. Nests(c, 0, 0)
    BY <2>1
  <2> QED  BY <2>5, <2>6, <2>7 DEF c
<1> HIDE DEF h, x
<1>4. /\ frames' \in Seq(Frames) /\ Len(frames') = Len(frames) + 1
      /\ \A j \in 1..Len(frames) : frames'[j] = frames[j]
      /\ frames'[Len(frames) + 1] = h
  BY <1>1, <1>2, <1>3, AppendProperties
<1>5. frames'[1] = frames[1]
  <2>1. 1 \in 1..Len(frames)
    BY <1>1
  <2> QED  BY <1>4, <2>1
<1>6. ASSUME NEW g, NEW q, AtTrap(g.code) \/ (pie = TRUE /\ q) PROVE Entered(h, g, q)
  <2>1. Len(h.saved) = 0
    BY <1>3
  <2>2. Whole(h)
    BY <1>3, <2>1 DEF Whole
  <2> QED  BY <1>3, <1>6, <2>2 DEF Entered, x
<1>7. AtOp("trap") => AtTrap(frames[Len(frames)].code) /\ frames[Len(frames)].code[1].op = "trap"
                      /\ frames[Len(frames)].code # <<>>
  BY RunningIs DEF AtTrap
<1>8. CASE Len(frames) = 1
  <2>1. Says(pie, Level(frames[1]))
    BY <1>1, <1>8 DEF Stack, Alone, Twofold, Threefold
  <2>2. frames'[2] = h /\ Len(frames') = 2
    BY <1>4, <1>8
  <2>3. Entered(h, frames[1], ipending # {})
    BY <1>6, <1>7, <1>8
  <2>4. Twofold(frames', pie', ienable', (ipending # {})')
    <3>1. (ipending # {})' <=> ipending # {}
      BY DEF ipending
    <3>2. Says(h.estatus, Level(frames[1]))
      BY <1>3, <2>1
    <3>3. Entered(h, frames[1], (ipending # {})')
      BY <2>3, <3>1 DEF Entered
    <3> QED  BY <1>2, <1>5, <2>2, <3>2, <3>3 DEF Twofold
  <2>5. Stack(frames', pie', ienable', (ipending # {})')
    BY <1>1, <1>4, <1>5, <2>4 DEF Stack
  <2> QED  BY <1>1, <1>5, <2>5 DEF IrqInv
<1>9. CASE Len(frames) # 1
  <2>1. pie = FALSE
    BY <1>1, <1>9 DEF Stack, Alone, Twofold, Threefold
  <2>2. AtOp("trap")
    BY <2>1
  <2>3. Twofold(frames, pie, ienable, ipending # {}) /\ Interrupted(frames[2], ienable, ipending # {})
        /\ Level(frames[1])
    BY <1>1, <1>7, <1>9, <2>2, OnTop
  <2>4. Len(frames) = 2
    BY <2>3 DEF Twofold
  <2>5. frames'[2] = frames[2] /\ frames'[3] = h /\ Len(frames') = 3
    <3>1. 2 \in 1..Len(frames) /\ Len(frames) + 1 = 3
      BY <2>4
    <3> QED  BY <1>4, <3>1
  <2>6. Interrupted(frames[2], ienable, FALSE)
    BY <1>7, <2>2, <2>3, <2>4, InterruptedAny
  <2>7. Entered(h, frames[2], FALSE)
    BY <1>6, <1>7, <2>2, <2>4
  <2>8. Threefold(frames', pie', ienable')
    BY <1>2, <1>3, <1>5, <2>1, <2>3, <2>5, <2>6, <2>7 DEF Threefold
  <2>9. Stack(frames', pie', ienable', (ipending # {})')
    BY <1>1, <1>4, <1>5, <2>8 DEF Stack
  <2> QED  BY <1>1, <1>5, <2>9 DEF IrqInv
<1> QED  BY <1>8, <1>9

LEMMA EretInv ==
  ASSUME IrqInv, Eret
  PROVE  IrqInv'
<1> DEFINE n == Len(frames)
           m == n - 1
           G(k) == IF k = m /\ Running.skip THEN [frames[k] EXCEPT !.code = Tail(@)] ELSE frames[k]
<1>1. /\ frames \in Seq(Frames) /\ n \in {1, 2, 3} /\ Base(frames[1]) /\ frames[1] \in Frames
      /\ CodeOrder(frames[1].code, frames[1].saved, alt_irq, ienable, alt_irq_active, board, calls)
      /\ Program(frames[1].code, board) /\ Running = frames[n] /\ Others
      /\ Stack(frames, pie, ienable, ipending # {})
      /\ Running.code # <<>> /\ Running.code[1].op = "eret"
  BY RunningIs DEF IrqInv, Eret
<1>2. /\ pie' = Running.estatus /\ frames' = [k \in 1..m |-> G(k)]
      /\ UNCHANGED <<ienable, alt_irq_active, alt_irq, alt_instruction_exception_handler, lines, started, requests,
                     calls, traps, board>>
  BY DEF Eret, devices
<1>3. UNCHANGED ipending
  BY <1>2 DEF ipending
<1>4. \/ Twofold(frames, pie, ienable, ipending # {}) /\ Interrupted(frames[2], ienable, ipending # {})
           /\ Level(frames[1])
      \/ (Twofold(frames, pie, ienable, ipending # {}) \/ Threefold(frames, pie, ienable))
           /\ Running.kind = "exception"
  <2>1. "eret" \notin ProgramOps
    BY DEF ProgramOps
  <2> QED  BY <1>1, <2>1, OnTop
<1>5. pie' \in BOOLEAN
  <2>1. Running \in Frames
    BY RunningIs
  <2> QED  BY <1>2, <2>1, FrameIs
<1>6. Others'
  BY <1>1, <1>2, <1>5 DEF Others
<1> HIDE DEF G
<1>7. \A k \in 1..m : frames'[k] = G(k)
  BY <1>2
<1>8. CASE Twofold(frames, pie, ienable, ipending # {})
  <2>1. n = 2 /\ m = 1
    BY <1>8 DEF Twofold
  <2>2. ASSUME NEW g, Base(g), Says(pie', Level(g)), G(1) = g,
               CodeOrder(g.code, g.saved, alt_irq, ienable, alt_irq_active, board, calls)
        PROVE  IrqInv'
    <3>1. g \in Frames
      BY <2>2 DEF Base, Whole
    <3>2. \A k \in 1..1 : G(k) \in Frames
      BY <2>2, <3>1
    <3>3. frames' \in [1..1 -> Frames] /\ frames'[1] = g
      <4>1. frames' = [k \in 1..1 |-> G(k)]
        BY <1>2, <2>1
      <4> QED  BY <2>2, <3>2, <4>1
    <3>4. frames' \in Seq(Frames) /\ Len(frames') = 1
      BY <3>3, FunctionIsSeq
    <3>5. Stack(frames', pie', ienable', (ipending # {})')
      BY <2>2, <3>3, <3>4 DEF Stack, Alone
    <3> QED  BY <1>2, <1>6, <2>2, <3>3, <3>5 DEF IrqInv
  <2>3. CASE Interrupted(frames[2], ienable, ipending # {}) /\ Level(frames[1])
    <3>1. Running.skip = FALSE /\ Running.estatus = TRUE
      BY <1>1, <2>1, <2>3 DEF Interrupted
    <3>2. G(1) = frames[1]
      BY <3>1 DEF G
    <3>3. Says(pie', Level(frames[1]))
      BY <1>2, <2>3, <3>1 DEF Says
    <3> QED  BY <1>1, <2>2, <3>2, <3>3
  <2>4. CASE Running.kind = "exception"
    <3>1. Excepted(frames[2], frames[1]) /\ Says(frames[2].estatus, Level(frames[1]))
      BY <1>1, <1>8, <2>1, <2>4 DEF Twofold, Entered, Interrupted
    <3>2. Says(pie', Level(frames[1]))
      BY <1>1, <1>2, <2>1, <3>1
    <3>3. frames[1].code # <<>> /\ frames[1].code[1].op = "trap"
      BY <3>1 DEF Excepted, AtTrap
    <3>4. CASE Running.skip
      <4> DEFINE g == [frames[1] EXCEPT !.code = Tail(frames[1].code)]
      <4>1. G(1) = g
        BY <2>1, <3>4 DEF G
      <4> HIDE DEF g
      <4>2. Base(g) /\ g.code = Tail(frames[1].code) /\ g.saved = frames[1].saved /\ (Level(g) <=> Level(frames[1]))
        BY <1>1, <3>3, BaseTail DEF g
      <4>3. Says(pie', Level(g))
        BY <3>2, <4>2 DEF Says
      <4>4. CodeOrder(g.code, g.saved, alt_irq, ienable, alt_irq_active, board, calls)
        <5>1. frames[1].code \in Seq(Op)
          BY <1>1, FrameIs
        <5> QED  BY <1>1, <3>3, <4>2, <5>1, CorePlain
      <4> QED  BY <2>2, <4>1, <4>2, <4>3, <4>4
    <3>5. CASE ~Running.skip
      <4>1. G(1) = frames[1]
        BY <3>5 DEF G
      <4> QED  BY <1>1, <2>2, <3>2, <4>1
    <3> QED  BY <3>4, <3>5
  <2> QED  BY <1>4, <1>8, <2>1, <2>3, <2>4 DEF Threefold
<1>9. CASE Threefold(frames, pie, ienable)
  <2>1. /\ n = 3 /\ m = 2 /\ Interrupted(frames[2], ienable, FALSE) /\ Level(frames[1]) /\ frames[3].estatus = FALSE
        /\ (Entered(frames[3], frames[2], FALSE) \/ Excepted(frames[3], frames[2]))
    <3>1. /\ Len(frames) = 3 /\ Interrupted(frames[2], ienable, FALSE) /\ Level(frames[1]) /\ frames[3].estatus = FALSE
          /\ (Entered(frames[3], frames[2], FALSE) \/ Excepted(frames[3], frames[2]))
      BY <1>9, Zenon DEF Threefold
    <3>2. n = 3 /\ m = 2
      BY <3>1
    <3> QED  BY <3>1, <3>2
  <2>2. Excepted(frames[3], frames[2])
    <3>1. Running.kind = "exception"
      BY <1>4, <2>1 DEF Twofold
    <3> QED  BY <1>1, <2>1, <3>1 DEF Entered
  <2>3. frames[2].code # <<>> /\ frames[2].code[1].op = "trap"
    BY <2>2 DEF Excepted, AtTrap
  <2>4. G(1) = frames[1]
    BY <2>1 DEF G
  <2>5. Interrupted(G(2), ienable, ipending # {})
    <3>1. CASE Running.skip
      <4>1. G(2) = [frames[2] EXCEPT !.code = Tail(frames[2].code)]
        BY <2>1, <3>1 DEF G
      <4> QED  BY <2>1, <2>3, <4>1, UpperTail
    <3>2. CASE ~Running.skip
      <4>1. G(2) = frames[2]
        BY <3>2 DEF G
      <4>2. frames[2].code[1].op # "pending"
        BY <2>3
      <4> QED  BY <2>1, <2>3, <4>1, <4>2, InterruptedAny
    <3> QED  BY <3>1, <3>2
  <2>6. frames' \in [1..2 -> Frames] /\ frames'[1] = frames[1] /\ frames'[2] = G(2)
    <3>1. frames' = [k \in 1..2 |-> G(k)]
      BY <1>2, <2>1
    <3>2. G(1) \in Frames /\ G(2) \in Frames
      BY <1>1, <2>4, <2>5 DEF Interrupted, Whole
    <3>3. \A k \in 1..2 : G(k) \in Frames
      <4> TAKE k \in 1..2
      <4>1. k = 1 \/ k = 2
        OBVIOUS
      <4> QED  BY <3>2, <4>1
    <3> QED  BY <2>4, <3>1, <3>3
  <2>7. frames' \in Seq(Frames) /\ Len(frames') = 2
    BY <2>6, FunctionIsSeq
  <2>8. pie' = FALSE
    BY <1>1, <1>2, <2>1
  <2>9. Interrupted(G(2), ienable', (ipending # {})')
    BY <1>2, <1>3, <2>5
  <2>10. Twofold(frames', pie', ienable', (ipending # {})')
    BY <2>1, <2>6, <2>7, <2>8, <2>9 DEF Twofold
  <2>11. Stack(frames', pie', ienable', (ipending # {})')
    BY <1>1, <2>6, <2>7, <2>10 DEF Stack
  <2> QED  BY <1>1, <1>2, <1>6, <2>6, <2>11 DEF IrqInv
<1> QED  BY <1>4, <1>8, <1>9

(* Where the processor is: in the program, in a handler of a device's, or  *)
(* in another exception.                                                   *)
InProgram ==
  /\ Len(frames) = 1 /\ Base(Running) /\ Says(pie, Level(Running)) /\ Program(Running.code, board)
  /\ CodeOrder(Running.code, Running.saved, alt_irq, ienable, alt_irq_active, board, calls)

InHandler ==
  Len(frames) = 2 /\ pie = FALSE /\ Level(frames[1]) /\ Interrupted(Running, ienable, ipending # {})

InException ==
  (Twofold(frames, pie, ienable, ipending # {}) \/ Threefold(frames, pie, ienable)) /\ Running.kind # "interrupt"

Standing(x) ==
  /\ Running \in Frames /\ Running.code \in Seq(Op) /\ Running.code # <<>> /\ Running.code[1] \in Op
  /\ Running.code[1].op = x /\ Head(Running.code) = Running.code[1]

LEMMA WhereAt ==
  ASSUME IrqInv, NEW x, AtOp(x)
  PROVE  /\ Standing(x)
         /\ \/ InProgram /\ x \in ProgramOps
            \/ InHandler /\ x \in HandlerOps
            \/ InException /\ ((Running.kind = "entry" /\ x = "irqtest")
                               \/ (Running.kind = "exception" /\ x \in {"exception", "eret", "break"}))
<1>1. /\ frames \in Seq(Frames) /\ Len(frames) \in {1, 2, 3} /\ Base(frames[1])
      /\ CodeOrder(frames[1].code, frames[1].saved, alt_irq, ienable, alt_irq_active, board, calls)
      /\ Program(frames[1].code, board) /\ Running = frames[Len(frames)] /\ Running \in Frames
      /\ Running.code # <<>> /\ Running.code[1].op = x /\ Head(Running.code) = Running.code[1]
  BY RunningIs
<1>2. Stack(frames, pie, ienable, ipending # {})
  BY DEF IrqInv
<1>3. Running.code \in Seq(Op) /\ Running.code[1] \in Op
  <2>1. Running.code \in Seq(Op)
    BY <1>1, FrameIs
  <2> QED  BY <1>1, <2>1, TailIs
<1>4. Standing(x)
  BY <1>1, <1>3 DEF Standing
<1>5. \/ Len(frames) = 1 /\ x \in ProgramOps /\ Says(pie, Level(frames[1]))
      \/ Twofold(frames, pie, ienable, ipending # {}) /\ Interrupted(frames[2], ienable, ipending # {})
         /\ Level(frames[1]) /\ x \in HandlerOps
      \/ /\ Twofold(frames, pie, ienable, ipending # {}) \/ Threefold(frames, pie, ienable)
         /\ \/ Running.kind = "entry" /\ x = "irqtest"
            \/ Running.kind = "exception" /\ x \in {"exception", "eret", "break"}
  BY <1>1, <1>2, OnTop, Zenon
<1>6. CASE Len(frames) = 1 /\ x \in ProgramOps /\ Says(pie, Level(frames[1]))
  <2>1. Running = frames[1]
    BY <1>1, <1>6
  <2>2. InProgram
    BY <1>1, <1>6, <2>1 DEF InProgram
  <2> QED  BY <1>4, <1>6, <2>2
<1>7. CASE Twofold(frames, pie, ienable, ipending # {}) /\ Interrupted(frames[2], ienable, ipending # {})
           /\ Level(frames[1]) /\ x \in HandlerOps
  <2>1. Len(frames) = 2 /\ pie = FALSE
    BY <1>7 DEF Twofold
  <2>2. Running = frames[2]
    BY <1>1, <2>1
  <2>3. InHandler
    BY <1>7, <2>1, <2>2 DEF InHandler
  <2> QED  BY <1>4, <1>7, <2>3
<1>8. CASE /\ Twofold(frames, pie, ienable, ipending # {}) \/ Threefold(frames, pie, ienable)
           /\ \/ Running.kind = "entry" /\ x = "irqtest"
              \/ Running.kind = "exception" /\ x \in {"exception", "eret", "break"}
  <2>1. Running.kind # "interrupt"
    BY <1>8
  <2>2. InException
    BY <1>8, <2>1 DEF InException
  <2> QED  BY <1>4, <1>8, <2>2
<1> QED  BY <1>5, <1>6, <1>7, <1>8

LEMMA OthersKept ==
  ASSUME Others, UNCHANGED <<started, lines, requests, calls, traps, alt_instruction_exception_handler, board>>,
         pie' \in BOOLEAN
  PROVE  Others'
BY DEF Others

LEMMA DisableAllInv ==
  ASSUME IrqInv, alt_irq_disable_all
  PROVE  IrqInv'
<1> DEFINE f == Running
           g == [f EXCEPT !.code = Tail(f.code), !.saved = Append(f.saved, pie)]
<1>1. AtOp("disable_all") /\ pie' = FALSE
      /\ UNCHANGED <<ienable, alt_irq_active, alt_irq, alt_instruction_exception_handler, lines, started, requests, calls,
                     traps, board>>
  BY DEF alt_irq_disable_all, devices
<1>2. Resume(g)
  BY DEF alt_irq_disable_all
<1>3. Others /\ pie \in BOOLEAN
  BY DEF IrqInv, Others
<1>4. Others'
  BY <1>1, <1>3, OthersKept
<1>5. Standing("disable_all")
  BY <1>1, WhereAt
<1>6. f.code # <<>> /\ f.code[1].op = "disable_all" /\ f.code \in Seq(Op)
  BY <1>5 DEF Standing
<1> HIDE DEF g, f
<1>7. CASE InProgram
  <2>1. Base(f) /\ Says(pie, Level(f)) /\ Program(f.code, board) /\ Len(frames) = 1
        /\ CodeOrder(f.code, f.saved, alt_irq, ienable, alt_irq_active, board, calls)
    BY <1>7 DEF InProgram, f
  <2>2. Base(g) /\ g.code = Tail(f.code) /\ ~Level(g)
    BY <1>3, <1>6, <2>1, BaseDisable DEF g
  <2>3. CodeOrder(Tail(f.code), g.saved, alt_irq, ienable, alt_irq_active, board, calls)
    BY <1>6, <2>1, CorePlain
  <2>4. CodeOrder(g.code, g.saved, alt_irq', ienable', alt_irq_active', board', calls')
    BY <1>1, <2>2, <2>3
  <2>5. Says(pie', Level(g))
    BY <1>1, <2>2 DEF Says
  <2> QED  BY <1>2, <1>4, <2>1, <2>2, <2>4, <2>5, ProgramMove
<1>8. CASE InHandler
  <2>1. Len(frames) = 2 /\ pie = FALSE /\ Level(frames[1]) /\ Interrupted(f, ienable, ipending # {})
    BY <1>8 DEF InHandler, f
  <2>2. Interrupted(g, ienable, (ipending # {})')
    BY <1>6, <2>1, UpperDisable DEF g
  <2>3. UNCHANGED Program0
    BY <1>1 DEF Program0
  <2> QED  BY <1>1, <1>2, <1>4, <2>1, <2>2, <2>3, UpperMove
<1> QED  BY <1>1, <1>7, <1>8, WhereAt

LEMMA EnableAllInv ==
  ASSUME IrqInv, alt_irq_enable_all
  PROVE  IrqInv'
<1> DEFINE f == Running
           g == [f EXCEPT !.code = Tail(f.code), !.saved = SubSeq(f.saved, 1, Len(f.saved) - 1)]
<1>1. AtOp("enable_all") /\ pie' = f.saved[Len(f.saved)]
      /\ UNCHANGED <<ienable, alt_irq_active, alt_irq, alt_instruction_exception_handler, lines, started, requests, calls,
                     traps, board>>
  BY DEF alt_irq_enable_all, devices, Restored
<1>2. Resume(g)
  BY DEF alt_irq_enable_all
<1>3. Others
  BY DEF IrqInv
<1>5. Standing("enable_all")
  BY <1>1, WhereAt
<1>6. f.code # <<>> /\ f.code[1].op = "enable_all" /\ f.code \in Seq(Op)
  BY <1>5 DEF Standing
<1> HIDE DEF g, f
<1>7. CASE InProgram
  <2>1. Base(f) /\ Says(pie, Level(f)) /\ Program(f.code, board) /\ Len(frames) = 1
        /\ CodeOrder(f.code, f.saved, alt_irq, ienable, alt_irq_active, board, calls)
    BY <1>7 DEF InProgram, f
  <2>2. Base(g) /\ g.code = Tail(f.code) /\ f.saved[Len(f.saved)] \in BOOLEAN /\ Says(f.saved[Len(f.saved)], Level(g))
    BY <1>6, <2>1, BaseEnable DEF g
  <2>3. CodeOrder(Tail(f.code), g.saved, alt_irq, ienable, alt_irq_active, board, calls)
    BY <1>6, <2>1, CorePlain
  <2>4. CodeOrder(g.code, g.saved, alt_irq', ienable', alt_irq_active', board', calls')
    BY <1>1, <2>2, <2>3
  <2>5. Says(pie', Level(g)) /\ pie' \in BOOLEAN
    BY <1>1, <2>2
  <2>6. Others'
    BY <1>1, <1>3, <2>5, OthersKept
  <2> QED  BY <1>2, <2>6, <2>1, <2>2, <2>4, <2>5, ProgramMove
<1>8. CASE InHandler
  <2>1. Len(frames) = 2 /\ pie = FALSE /\ Level(frames[1]) /\ Interrupted(f, ienable, ipending # {})
    BY <1>8 DEF InHandler, f
  <2>2. Interrupted(g, ienable, (ipending # {})') /\ f.saved[Len(f.saved)] = FALSE
    BY <1>6, <2>1, UpperEnable DEF g
  <2>3. UNCHANGED Program0 /\ pie' = FALSE
    BY <1>1, <2>2 DEF Program0
  <2>4. Others'
    BY <1>1, <1>3, <2>3, OthersKept
  <2> QED  BY <1>1, <1>2, <2>4, <2>1, <2>2, <2>3, UpperMove
<1> QED  BY <1>1, <1>7, <1>8, WhereAt

(* The running frame goes on to its next step.                             *)
LEMMA AdvanceProgram ==
  ASSUME IrqInv, NEW x, AtOp(x), InProgram, Advance, x \notin {"disable_all", "enable_all"},
         x # "cpu_enable_interrupts" => pie' = pie, x = "cpu_enable_interrupts" => pie' = TRUE,
         CodeOrder(Tail(Running.code), Running.saved, alt_irq', ienable', alt_irq_active', board', calls'), Others'
  PROVE  IrqInv'
<1> DEFINE f == Running
           g == [f EXCEPT !.code = Tail(f.code)]
<1>1. Resume(g)
  BY DEF Advance, Becomes
<1>2. Standing(x)
  BY WhereAt
<1>3. f.code # <<>> /\ f.code[1].op = x
  BY <1>2 DEF Standing
<1>4. Len(frames) = 1 /\ Base(f) /\ Says(pie, Level(f)) /\ Program(f.code, board)
  BY DEF InProgram
<1> HIDE DEF f, g
<1>5. /\ Base(g) /\ g.code = Tail(f.code) /\ g.saved = f.saved
      /\ f.code[1].op \notin {"clear_ienable", "cpu_enable_interrupts"} => (Level(g) <=> Level(f))
      /\ f.code[1].op = "clear_ienable" => ~Level(f) /\ ~Level(g)
      /\ f.code[1].op = "cpu_enable_interrupts" => Level(g)
  BY <1>3, <1>4, BaseTail DEF g
<1>6. Says(pie', Level(g))
  <2>1. CASE x = "cpu_enable_interrupts"
    BY <1>3, <1>5, <2>1 DEF Says
  <2>2. CASE x # "cpu_enable_interrupts"
    <3>1. pie' = pie /\ (Level(g) <=> Level(f))
      BY <1>3, <1>5, <2>2
    <3> QED  BY <1>4, <3>1 DEF Says
  <2> QED  BY <2>1, <2>2
<1>7. CodeOrder(g.code, g.saved, alt_irq', ienable', alt_irq_active', board', calls')
  BY <1>5 DEF f
<1> QED  BY <1>1, <1>4, <1>5, <1>6, <1>7, ProgramMove

LEMMA AdvanceHandler ==
  ASSUME IrqInv, NEW x, AtOp(x), InHandler, Advance, x \notin {"disable_all", "enable_all"},
         pie' = pie, UNCHANGED Program0, Others'
  PROVE  IrqInv'
<1> DEFINE f == Running
           g == [f EXCEPT !.code = Tail(f.code)]
<1>1. Resume(g)
  BY DEF Advance, Becomes
<1>2. Standing(x)
  BY WhereAt
<1>3. f.code # <<>> /\ f.code[1].op \notin {"disable_all", "enable_all"}
  BY <1>2 DEF Standing
<1>4. Len(frames) = 2 /\ pie = FALSE /\ Level(frames[1]) /\ Interrupted(f, ienable, ipending # {})
  BY DEF InHandler
<1> HIDE DEF f, g
<1>5. Interrupted(g, ienable, (ipending # {})')
  BY <1>3, <1>4, UpperTail DEF g
<1> QED  BY <1>1, <1>4, <1>5, UpperMove

LEMMA OnlyProgram ==
  ASSUME IrqInv, NEW x, AtOp(x), x \notin HandlerOps, x \notin {"irqtest", "exception", "break"}
  PROVE  InProgram /\ x \in ProgramOps
<1>1. "eret" \in HandlerOps
  BY DEF HandlerOps
<1> QED  BY <1>1, WhereAt

LEMMA StoresInv ==
  ASSUME IrqInv, Stores
  PROVE  IrqInv'
<1> DEFINE f == Running
           c == f.code
<1>1. Advance /\ UNCHANGED <<alt_instruction_exception_handler, started, lines, requests, calls, traps, board>>
  BY DEF Stores, devices
<1>2. Others /\ pie \in BOOLEAN
  BY DEF IrqInv, Others
<1>3. ASSUME NEW x \in {"handler", "context", "active", "write_ienable", "clear_ienable", "cpu_enable_interrupts"},
             AtOp(x), x # "cpu_enable_interrupts" => pie' = pie, x = "cpu_enable_interrupts" => pie' = TRUE,
             ASSUME Standing(x), CodeOrder(c, f.saved, alt_irq, ienable, alt_irq_active, board, calls),
                    Stands(x, Len(f.saved)), f \in Frames
             PROVE  CodeOrder(Tail(c), f.saved, alt_irq', ienable', alt_irq_active', board, calls)
      PROVE  IrqInv'
  <2>1. x \notin HandlerOps /\ x \notin {"irqtest", "exception", "break"}
    BY <1>3 DEF HandlerOps
  <2>2. InProgram
    BY <1>3, <2>1, OnlyProgram
  <2>3. Standing(x)
    BY <1>3, WhereAt
  <2>4. Base(f) /\ Program(c, board) /\ CodeOrder(c, f.saved, alt_irq, ienable, alt_irq_active, board, calls)
    BY <2>2 DEF InProgram
  <2>5. c # <<>> /\ c[1].op = x /\ f \in Frames
    BY <2>3 DEF Standing
  <2>6. Stands(x, Len(f.saved))
    <3>1. Nests(c, Len(f.saved), 0) /\ c \in Seq(Op)
      BY <2>4, FrameIs DEF Base, Whole
    <3> QED  BY <2>5, <3>1, NestsTail
  <2>7. CodeOrder(Tail(c), f.saved, alt_irq', ienable', alt_irq_active', board, calls)
    BY <1>3, <2>3, <2>4, <2>5, <2>6
  <2>8. CodeOrder(Tail(c), f.saved, alt_irq', ienable', alt_irq_active', board', calls')
    BY <1>1, <2>7
  <2>9. Others'
    <3>1. pie' \in BOOLEAN
      BY <1>2, <1>3
    <3> QED  BY <1>1, <1>2, <3>1, OthersKept
  <2>10. x \notin {"disable_all", "enable_all"}
    BY <1>3
  <2> HIDE DEF f, c
  <2> QED  BY <1>1, <1>3, <2>2, <2>8, <2>9, <2>10, AdvanceProgram DEF f, c
<1>4. CASE AtOp("handler") /\ alt_irq' = [alt_irq EXCEPT ![OpIrq].handler = OpArg] /\ UNCHANGED <<pie, ienable, alt_irq_active>>
  <2>1. ASSUME Standing("handler"), CodeOrder(c, f.saved, alt_irq, ienable, alt_irq_active, board, calls)
        PROVE  CodeOrder(Tail(c), f.saved, alt_irq', ienable', alt_irq_active', board, calls)
    <3>1. c \in Seq(Op) /\ c # <<>> /\ c[1].op = "handler" /\ Head(c) = c[1]
      BY <2>1 DEF Standing
    <3>2. alt_irq' = [alt_irq EXCEPT ![c[1].irq].handler = c[1].arg]
      BY <1>4, <3>1 DEF OpIrq, OpArg
    <3> HIDE DEF f, c
    <3>3. CodeOrder(Tail(c), f.saved, [alt_irq EXCEPT ![c[1].irq].handler = c[1].arg], ienable, alt_irq_active, board, calls)
      BY <2>1, <3>1, CoreHandler
    <3> QED  BY <1>4, <3>2, <3>3
  <2> QED  BY <1>3, <1>4, <2>1
<1>5. CASE AtOp("context") /\ alt_irq' = [alt_irq EXCEPT ![OpIrq].context = OpArg] /\ UNCHANGED <<pie, ienable, alt_irq_active>>
  <2>1. ASSUME Standing("context"), CodeOrder(c, f.saved, alt_irq, ienable, alt_irq_active, board, calls),
               Stands("context", Len(f.saved)), f \in Frames
        PROVE  CodeOrder(Tail(c), f.saved, alt_irq', ienable', alt_irq_active', board, calls)
    <3>1. c \in Seq(Op) /\ c # <<>> /\ c[1].op = "context" /\ Head(c) = c[1]
      BY <2>1 DEF Standing
    <3>2. alt_irq' = [alt_irq EXCEPT ![c[1].irq].context = c[1].arg]
      BY <1>5, <3>1 DEF OpIrq, OpArg
    <3>3. f.saved # <<>>
      <4>1. Len(f.saved) > 0
        BY <2>1 DEF Stands, Inside
      <4> QED  BY <2>1, <4>1, FrameIs
    <3> HIDE DEF f, c
    <3>4. CodeOrder(Tail(c), f.saved, [alt_irq EXCEPT ![c[1].irq].context = c[1].arg], ienable, alt_irq_active, board, calls)
      BY <2>1, <3>1, <3>3, CoreContext
    <3> QED  BY <1>5, <3>2, <3>4
  <2> QED  BY <1>3, <1>5, <2>1
<1>6. CASE /\ AtOp("active")
           /\ alt_irq_active' = (IF OpArg = 1 THEN alt_irq_active \cup {OpIrq} ELSE alt_irq_active \ {OpIrq})
           /\ UNCHANGED <<pie, ienable, alt_irq>>
  <2>1. ASSUME Standing("active"), CodeOrder(c, f.saved, alt_irq, ienable, alt_irq_active, board, calls)
        PROVE  CodeOrder(Tail(c), f.saved, alt_irq', ienable', alt_irq_active', board, calls)
    <3>1. c \in Seq(Op) /\ c # <<>> /\ c[1].op = "active" /\ Head(c) = c[1]
      BY <2>1 DEF Standing
    <3>2. alt_irq_active' = IF c[1].arg = 1 THEN alt_irq_active \cup {c[1].irq} ELSE alt_irq_active \ {c[1].irq}
      BY <1>6, <3>1 DEF OpIrq, OpArg
    <3> HIDE DEF f, c
    <3>3. CodeOrder(Tail(c), f.saved, alt_irq, ienable,
               IF c[1].arg = 1 THEN alt_irq_active \cup {c[1].irq} ELSE alt_irq_active \ {c[1].irq}, board, calls)
      BY <2>1, <3>1, CoreActive
    <3> QED  BY <1>6, <3>2, <3>3
  <2> QED  BY <1>3, <1>6, <2>1
<1>7. CASE AtOp("write_ienable") /\ ienable' = alt_irq_active /\ UNCHANGED <<pie, alt_irq_active, alt_irq>>
  <2>1. ASSUME Standing("write_ienable"), CodeOrder(c, f.saved, alt_irq, ienable, alt_irq_active, board, calls)
        PROVE  CodeOrder(Tail(c), f.saved, alt_irq', ienable', alt_irq_active', board, calls)
    <3>1. c \in Seq(Op) /\ c # <<>> /\ c[1].op = "write_ienable"
      BY <2>1 DEF Standing
    <3> HIDE DEF f, c
    <3>2. CodeOrder(Tail(c), f.saved, alt_irq, alt_irq_active, alt_irq_active, board, calls)
      BY <2>1, <3>1, CoreWrite
    <3> QED  BY <1>7, <3>2
  <2> QED  BY <1>3, <1>7, <2>1
<1>8. CASE AtOp("clear_ienable") /\ ienable' = {} /\ UNCHANGED <<pie, alt_irq_active, alt_irq>>
  <2>1. ASSUME Standing("clear_ienable"), CodeOrder(c, f.saved, alt_irq, ienable, alt_irq_active, board, calls)
        PROVE  CodeOrder(Tail(c), f.saved, alt_irq', ienable', alt_irq_active', board, calls)
    <3>1. c \in Seq(Op) /\ c # <<>> /\ c[1].op = "clear_ienable"
      BY <2>1 DEF Standing
    <3> HIDE DEF f, c
    <3>2. CodeOrder(Tail(c), f.saved, alt_irq, {}, alt_irq_active, board, calls)
      BY <2>1, <3>1, CoreWrite
    <3> QED  BY <1>8, <3>2
  <2> QED  BY <1>3, <1>8, <2>1
<1>9. CASE AtOp("cpu_enable_interrupts") /\ pie' = TRUE /\ UNCHANGED <<ienable, alt_irq_active, alt_irq>>
  <2>1. ASSUME Standing("cpu_enable_interrupts"), CodeOrder(c, f.saved, alt_irq, ienable, alt_irq_active, board, calls)
        PROVE  CodeOrder(Tail(c), f.saved, alt_irq', ienable', alt_irq_active', board, calls)
    <3>1. c \in Seq(Op) /\ c # <<>> /\ c[1].op = "cpu_enable_interrupts"
      BY <2>1 DEF Standing
    <3> HIDE DEF f, c
    <3>2. CodeOrder(Tail(c), f.saved, alt_irq, ienable, alt_irq_active, board, calls)
      BY <2>1, <3>1, CorePlain
    <3> QED  BY <1>9, <3>2
  <2> QED  BY <1>3, <1>9, <2>1
<1> QED  BY <1>4, <1>5, <1>6, <1>7, <1>8, <1>9 DEF Stores

(* Steps that leave the table and the registers alone.                     *)
LEMMA PlainInv ==
  ASSUME IrqInv, NEW x, AtOp(x), InProgram, Advance,
         x \notin {"disable_all", "enable_all", "handler", "context", "active", "write_ienable", "clear_ienable",
                   "cpu_enable_interrupts"},
         UNCHANGED <<processor, calls>>, board \subseteq board', Others',
         x = "sysclk_init" => "clock" \in board', x = "alarm_start" => "alarm" \in board',
         x = "dev_reg" => "console" \in board', x = "io_redirect" => "stdio" \in board'
  PROVE  IrqInv'
<1> DEFINE f == Running
           c == f.code
<1>1. Standing(x) /\ CodeOrder(c, f.saved, alt_irq, ienable, alt_irq_active, board, calls)
  BY WhereAt DEF InProgram
<1>2. c \in Seq(Op) /\ c # <<>> /\ c[1].op = x
  BY <1>1 DEF Standing
<1>3. UNCHANGED <<pie, ienable, alt_irq_active, alt_irq, calls>>
  BY DEF processor
<1> HIDE DEF f, c
<1>4. CodeOrder(Tail(c), f.saved, alt_irq, ienable, alt_irq_active, board', calls)
  BY <1>1, <1>2, CorePlain
<1>5. CodeOrder(Tail(c), f.saved, alt_irq', ienable', alt_irq_active', board', calls')
  BY <1>3, <1>4
<1> QED  BY <1>3, <1>5, AdvanceProgram DEF f, c

(* The line of a device's store is one of the lines.                       *)
LEMMA LineIs ==
  ASSUME IrqInv, NEW x \in {"start", "quiet"}, AtOp(x), InProgram
  PROVE  OpIrq \in Irqs
<1> DEFINE c == Running.code
<1>1. Standing(x) /\ Program(c, board)
  BY WhereAt DEF InProgram
<1>2. c \in Seq(Op) /\ c # <<>> /\ c[1].op = x /\ Head(c) = c[1]
  BY <1>1 DEF Standing
<1> HIDE DEF c
<1>3. Follows(c, 1)
  BY <1>1, <1>2, ProgramTail
<1>4. c[1].irq \in Irqs
  BY <1>2, <1>3 DEF Follows
<1> QED  BY <1>2, <1>4 DEF OpIrq, c

LEMMA DeviceStoresInv ==
  ASSUME IrqInv, DeviceStores
  PROVE  IrqInv'
<1>1. Advance /\ UNCHANGED <<processor, requests, calls, traps, board>>
  BY DEF DeviceStores
<1>2. UNCHANGED <<pie, ienable, alt_irq_active, alt_irq, alt_instruction_exception_handler>>
  BY <1>1 DEF processor
<1>3. Others
  BY DEF IrqInv
<1>4. ASSUME NEW x \in {"start", "quiet", "lower"}, AtOp(x), InProgram, Others' PROVE IrqInv'
  <2>1. x \notin {"disable_all", "enable_all", "handler", "context", "active", "write_ienable", "clear_ienable",
                   "cpu_enable_interrupts"} /\ x # "sysclk_init" /\ x # "alarm_start" /\ x # "dev_reg" /\ x # "io_redirect"
    BY <1>4
  <2>2. board \subseteq board' /\ UNCHANGED <<processor, calls>>
    BY <1>1
  <2> QED  BY <1>1, <1>4, <2>1, <2>2, PlainInv
<1>5. ASSUME NEW x \in {"start", "quiet", "lower"}, AtOp(x), InHandler, Others' PROVE IrqInv'
  <2>1. x \notin {"disable_all", "enable_all"} /\ UNCHANGED Program0
    BY <1>1, <1>2, <1>5 DEF Program0
  <2> QED  BY <1>1, <1>2, <1>5, <2>1, AdvanceHandler
<1>6. CASE AtOp("start") /\ started' = started \cup {OpIrq} /\ UNCHANGED lines
  <2>1. "start" \notin HandlerOps /\ "start" \notin {"irqtest", "exception", "break"}
    BY DEF HandlerOps
  <2>2. InProgram
    BY <1>6, <2>1, OnlyProgram
  <2>3. OpIrq \in Irqs
    BY <1>6, <2>2, LineIs
  <2>4. Others'
    BY <1>1, <1>2, <1>3, <1>6, <2>3 DEF Others
  <2> QED  BY <1>4, <1>6, <2>2, <2>4
<1>7. CASE AtOp("quiet") /\ started' = started \ {OpIrq} /\ lines' = lines \ {OpIrq}
  <2>1. Others'
    BY <1>1, <1>2, <1>3, <1>7 DEF Others
  <2>2. InProgram \/ InHandler
    BY <1>7, WhereAt
  <2> QED  BY <1>4, <1>5, <1>7, <2>1, <2>2
<1>8. CASE AtOp("lower") /\ lines' = lines \ {OpIrq} /\ UNCHANGED started
  <2>1. Others'
    BY <1>1, <1>2, <1>3, <1>8 DEF Others
  <2>2. InProgram \/ InHandler
    BY <1>8, WhereAt
  <2> QED  BY <1>4, <1>5, <1>8, <2>1, <2>2
<1> QED  BY <1>6, <1>7, <1>8 DEF DeviceStores

(* What a step needs has been done when nothing is before it.              *)
LEMMA NeedsNow ==
  ASSUME NEW c \in Seq(Op), c # <<>>, NEW x, NEW y, NEW m, NEW b, Needs(c, x, y, m, b), c[1].op = y
  PROVE  m \in b
<1>1. 1 \in 1..Len(c)
  BY NotEmpty
<1>2. m \in b \/ \E j \in 1..1 - 1 : c[j].op = x
  BY <1>1 DEF Needs
<1> QED  BY <1>2

LEMMA SetupInv ==
  ASSUME IrqInv, Setup
  PROVE  IrqInv'
<1>1. Advance /\ UNCHANGED <<processor, started, lines, requests, calls, traps>>
  BY DEF Setup, devices
<1>2. UNCHANGED <<pie, alt_instruction_exception_handler>>
  BY <1>1 DEF processor
<1>3. Others
  BY DEF IrqInv
<1>4. ASSUME NEW x \in {"sysclk_init", "alarm_start", "dev_reg", "io_redirect"}, AtOp(x)
      PROVE  /\ InProgram /\ (x = "alarm_start" => "clock" \in board) /\ (x = "io_redirect" => "console" \in board)
             /\ x \notin {"disable_all", "enable_all", "handler", "context", "active", "write_ienable", "clear_ienable",
                          "cpu_enable_interrupts"}
  <2> DEFINE c == Running.code
  <2>1. x \notin HandlerOps /\ x \notin {"irqtest", "exception", "break"}
    BY <1>4 DEF HandlerOps
  <2>2. InProgram
    BY <1>4, <2>1, OnlyProgram
  <2>3. Standing(x) /\ StartOrder(c, alt_irq, alt_irq_active, board, calls)
    BY <1>4, <2>2, WhereAt DEF InProgram, CodeOrder
  <2>4. c \in Seq(Op) /\ c # <<>> /\ c[1].op = x
    BY <2>3 DEF Standing
  <2> HIDE DEF c
  <2>5. x = "alarm_start" => "clock" \in board
    BY <2>3, <2>4, NeedsNow DEF StartOrder
  <2>6. x = "io_redirect" => "console" \in board
    BY <2>3, <2>4, NeedsNow DEF StartOrder
  <2> QED  BY <1>4, <2>2, <2>5, <2>6
<1>5. ASSUME NEW x \in {"sysclk_init", "alarm_start", "dev_reg", "io_redirect"}, AtOp(x),
             NEW m \in {"clock", "alarm", "console", "stdio"}, board' = board \cup {m},
             x = "sysclk_init" => m = "clock", x = "alarm_start" => m = "alarm", x = "dev_reg" => m = "console",
             x = "io_redirect" => m = "stdio"
      PROVE  IrqInv'
  <2>1. Others'
    BY <1>1, <1>2, <1>3, <1>5 DEF Others
  <2>2. InProgram /\ board \subseteq board' /\ UNCHANGED <<processor, calls>>
        /\ x \notin {"disable_all", "enable_all", "handler", "context", "active", "write_ienable", "clear_ienable",
                          "cpu_enable_interrupts"}
    BY <1>1, <1>4, <1>5
  <2>3. /\ x = "sysclk_init" => "clock" \in board'
        /\ x = "alarm_start" => "alarm" \in board'
        /\ x = "dev_reg" => "console" \in board'
        /\ x = "io_redirect" => "stdio" \in board'
    BY <1>5
  <2> QED  BY <1>1, <1>5, <2>1, <2>2, <2>3, PlainInv
<1>6. CASE AtOp("sysclk_init") /\ board' = board \cup {"clock"}
  BY <1>5, <1>6
<1>7. CASE AtOp("alarm_start") /\ board' = (IF "clock" \in board THEN board \cup {"alarm"} ELSE board)
  <2>1. "clock" \in board
    BY <1>4, <1>7
  <2> QED  BY <1>5, <1>7, <2>1
<1>8. CASE AtOp("dev_reg") /\ board' = board \cup {"console"}
  BY <1>5, <1>8
<1>9. CASE AtOp("io_redirect") /\ board' = (IF "console" \in board THEN board \cup {"stdio"} ELSE board)
  <2>1. "console" \in board
    BY <1>4, <1>9
  <2> QED  BY <1>5, <1>9, <2>1
<1> QED  BY <1>6, <1>7, <1>8, <1>9 DEF Setup

LEMMA ExitInv ==
  ASSUME IrqInv, ALT_EXIT
  PROVE  IrqInv'
<1>1. Advance /\ AtOp("main") /\ UNCHANGED <<processor, devices, calls, traps, board>>
  BY DEF ALT_EXIT
<1>2. UNCHANGED <<pie, started, lines, requests, calls, traps, alt_instruction_exception_handler, board>>
  BY <1>1 DEF processor, devices
<1>3. Others /\ pie \in BOOLEAN
  BY DEF IrqInv, Others
<1>4. Others'
  BY <1>2, <1>3, OthersKept
<1>5. "main" \notin HandlerOps /\ "main" \notin {"irqtest", "exception", "break"}
  BY DEF HandlerOps
<1>6. InProgram
  BY <1>1, <1>5, OnlyProgram
<1>7. board \subseteq board' /\ UNCHANGED <<processor, calls>>
  BY <1>1
<1> QED  BY <1>1, <1>4, <1>6, <1>7, PlainInv

LEMMA TrapInv ==
  ASSUME InterruptsAssumption, IrqInv, Trap
  PROVE  IrqInv'
<1>1. AtOp("trap") /\ UNCHANGED <<ienable, alt_irq_active, alt_irq, alt_instruction_exception_handler, started, lines,
                                  requests, calls, board>>
  BY DEF Trap, devices
<1>2. Others /\ pie \in BOOLEAN
  BY DEF IrqInv, Others
<1>3. CASE Advance /\ UNCHANGED <<pie, traps>>
  <2>1. Others'
    BY <1>1, <1>2, <1>3, OthersKept
  <2>2. UNCHANGED <<processor, calls>> /\ board \subseteq board'
    BY <1>1, <1>3 DEF processor
  <2>3. CASE InProgram
    BY <1>1, <1>3, <2>1, <2>2, <2>3, PlainInv
  <2>4. CASE InHandler
    <3>1. UNCHANGED Program0
      BY <1>1 DEF Program0
    <3> QED  BY <1>1, <1>3, <2>1, <2>4, <3>1, AdvanceHandler
  <2> QED  BY <1>1, <2>3, <2>4, WhereAt
<1>4. CASE traps < MaxTraps /\ traps' = traps + 1 /\ Enter
  <2>1. traps' \in 0..MaxTraps
    <3>1. traps \in 0..MaxTraps /\ MaxTraps \in Nat
      BY <1>2 DEF InterruptsAssumption, Others
    <3> QED  BY <1>4, <3>1
  <2>2. pie' \in BOOLEAN
    BY <1>4 DEF Enter
  <2>3. Others'
    BY <1>1, <1>2, <2>1, <2>2 DEF Others
  <2> QED  BY <1>1, <1>4, <2>3, EnterInv
<1> QED  BY <1>3, <1>4 DEF Trap

LEMMA InterruptInv ==
  ASSUME IrqInv, Interrupt
  PROVE  IrqInv'
<1>1. pie /\ ipending # {} /\ Enter /\ UNCHANGED <<ienable, alt_irq_active, alt_irq, alt_instruction_exception_handler,
                                                   started, lines, requests, calls, traps, board>>
  BY DEF Interrupt, devices
<1>2. Others /\ pie \in BOOLEAN
  BY DEF IrqInv, Others
<1>3. pie = TRUE
  BY <1>1, <1>2
<1>4. pie' \in BOOLEAN
  BY <1>1 DEF Enter
<1>5. Others'
  BY <1>1, <1>2, <1>4, OthersKept
<1> QED  BY <1>1, <1>3, <1>5, EnterInv

(* The frame of an exception that has just come, and that of one that no   *)
(* device asked for.                                                       *)
LEMMA EntryIs ==
  ASSUME IrqInv, InException, Running.kind = "entry"
  PROVE  /\ Whole(Running) /\ Running.saved = <<>> /\ Running.skip = FALSE /\ pie = FALSE
         /\ Running.estatus \in BOOLEAN
         /\ Running.estatus = TRUE => Len(frames) = 2 /\ Level(frames[1])
         /\ AtTrap(frames[Len(frames) - 1].code) \/ (Running.estatus = TRUE /\ ipending # {})
<1> DEFINE n == Len(frames)
<1>1. Running = frames[n] /\ Running \in Frames
  BY RunningIs
<1>2. Running.estatus \in BOOLEAN
  BY <1>1, FrameIs
<1> HIDE DEF n
<1>3. CASE Twofold(frames, pie, ienable, ipending # {})
  <2>1. n = 2 /\ pie = FALSE /\ n - 1 = 1
    BY <1>3 DEF Twofold, n
  <2>2. ~Excepted(frames[2], frames[1]) /\ ~Interrupted(frames[2], ienable, ipending # {})
    BY <1>1, <2>1 DEF Excepted, Interrupted
  <2>3. Entered(frames[2], frames[1], ipending # {}) /\ Says(frames[2].estatus, Level(frames[1]))
    BY <1>3, <2>2 DEF Twofold
  <2>4. Running = frames[2]
    BY <1>1, <2>1
  <2>5. Running.estatus = TRUE => Level(frames[1])
    BY <2>3, <2>4 DEF Says
  <2> QED  BY <1>2, <2>1, <2>3, <2>4, <2>5 DEF Entered, n
<1>4. CASE Threefold(frames, pie, ienable)
  <2>1. Len(frames) = 3 /\ pie = FALSE /\ frames[3].estatus = FALSE
        /\ (Entered(frames[3], frames[2], FALSE) \/ Excepted(frames[3], frames[2]))
    BY <1>4, Zenon DEF Threefold
  <2>2. n = 3 /\ n - 1 = 2
    BY <2>1 DEF n
  <2>3. ~Excepted(frames[3], frames[2])
    BY <1>1, <2>2 DEF Excepted
  <2>4. Entered(frames[3], frames[2], FALSE)
    BY <2>1, <2>3
  <2> QED  BY <1>1, <1>2, <2>1, <2>2, <2>4 DEF Entered, n
<1> QED  BY <1>3, <1>4 DEF InException

LEMMA ExceptionIs ==
  ASSUME IrqInv, InException, Running.kind = "exception"
  PROVE  Excepted(Running, frames[Len(frames) - 1])
<1> DEFINE n == Len(frames)
<1>1. Running = frames[n]
  BY RunningIs
<1> HIDE DEF n
<1>3. CASE Twofold(frames, pie, ienable, ipending # {})
  <2>1. n = 2 /\ n - 1 = 1
    BY <1>3 DEF Twofold, n
  <2>2. (\A q : ~Entered(frames[2], frames[1], q)) /\ ~Interrupted(frames[2], ienable, ipending # {})
    BY <1>1, <2>1 DEF Entered, Interrupted
  <2>3. Excepted(frames[2], frames[1])
    BY <1>3, <2>2 DEF Twofold
  <2> QED  BY <1>1, <2>1, <2>3 DEF n
<1>4. CASE Threefold(frames, pie, ienable)
  <2>1. Len(frames) = 3
        /\ (Entered(frames[3], frames[2], FALSE) \/ Excepted(frames[3], frames[2]))
    BY <1>4, Zenon DEF Threefold
  <2>2. n = 3 /\ n - 1 = 2
    BY <2>1 DEF n
  <2>3. \A q : ~Entered(frames[3], frames[2], q)
    BY <1>1, <2>2 DEF Entered
  <2>4. Excepted(frames[3], frames[2])
    BY <2>1, <2>3
  <2> QED  BY <1>1, <2>2, <2>4 DEF n
<1> QED  BY <1>3, <1>4 DEF InException

LEMMA IrqEntryInv ==
  ASSUME IrqInv, alt_irq_entry
  PROVE  IrqInv'
<1> DEFINE f == Running
           c == <<Do("pending")>>
           d == <<Do("exception")>>
           g == [f EXCEPT !.kind = "interrupt", !.code = c]
           h == [f EXCEPT !.kind = "exception", !.code = d]
<1>1. AtOp("irqtest") /\ UNCHANGED <<pie, ienable, alt_irq_active, alt_irq, alt_instruction_exception_handler, started,
                                     lines, requests, calls, traps, board>>
  BY DEF alt_irq_entry, devices, processor
<1>2. Resume(IF IsInterrupt THEN g ELSE h)
  BY DEF alt_irq_entry
<1>3. Others /\ pie \in BOOLEAN
  BY DEF IrqInv, Others
<1>4. Others'
  BY <1>1, <1>3, OthersKept
<1>5. InException /\ f.kind = "entry"
  <2>1. "irqtest" \notin ProgramOps /\ "irqtest" \notin HandlerOps
    BY DEF ProgramOps, HandlerOps
  <2> QED  BY <1>1, <2>1, WhereAt
<1>6. /\ Whole(f) /\ f.saved = <<>> /\ f.skip = FALSE /\ pie = FALSE /\ f.estatus \in BOOLEAN
      /\ f.estatus = TRUE => Len(frames) = 2 /\ Level(frames[1])
      /\ AtTrap(frames[Len(frames) - 1].code) \/ (f.estatus = TRUE /\ ipending # {})
  BY <1>5, EntryIs
<1>7. f \in Frames
  BY <1>6 DEF Whole
<1>8. /\ c \in Seq(Op) /\ Len(c) = 1 /\ c[1] = Do("pending") /\ Do("pending").op = "pending" /\ Nests(c, 0, 0)
      /\ d \in Seq(Op) /\ d[1] = Do("exception") /\ Nests(d, 0, 0)
  <2>1. /\ c \in Seq(Op) /\ Len(c) = 1 /\ c[1] = Do("pending") /\ Do("pending").op = "pending"
    <3>1. Do("pending") \in Op
      BY NamesAre, LinesAre DEF Do, Op
    <3>2. Do("pending").op = "pending"
      BY DEF Do
    <3> QED  BY <3>1, <3>2
  <2>2. Nests(c, 0, 0)
    <3>1. Do("pending") \in Op
      BY NamesAre, LinesAre DEF Do, Op
    <3>2. Stands(Do("pending").op, 0) /\ Do("pending").op \notin {"disable_all", "enable_all"} /\ 0 \in 0..3
      BY DEF Do, Stands, Inside, Outside
    <3> QED  BY <3>1, <3>2, NestsFlat
  <2>3. d \in Seq(Op) /\ d[1] = Do("exception") /\ Nests(d, 0, 0)
    BY NamesAre, SoleIs DEF Inside
  <2> QED  BY <2>1, <2>2, <2>3
<1>9. Len(<<>>) = 0 /\ f.saved \in Seq(BOOLEAN)
  BY <1>7, FrameIs
<1> HIDE DEF f, c, d
<1>10. CASE IsInterrupt
  <2>1. f.estatus = TRUE /\ ipending # {}
    BY <1>6, <1>10 DEF IsInterrupt, f
  <2>2. Len(frames) = 2 /\ Level(frames[1])
    BY <1>6, <2>1
  <2>3. Resume(g)
    BY <1>2, <1>10
  <2>4. g \in Frames /\ g.kind = "interrupt" /\ g.code = c /\ g.saved = f.saved /\ g.skip = f.skip /\ g.estatus = f.estatus
    BY <1>7, <1>8 DEF Frames
  <2> HIDE DEF g
  <2>5. Whole(g)
    BY <1>6, <1>8, <1>9, <2>4 DEF Whole
  <2>6. (ipending # {})' <=> ipending # {}
    BY <1>1 DEF ipending
  <2>7. Dispatches(g, ienable, (ipending # {})')
    <3>1. \A k \in 1..Len(g.code) : g.code[k].op = "pending"
      <4>1. \A k \in 1..Len(c) : k = 1
        BY <1>8
      <4>2. \A k \in 1..Len(c) : c[k].op = "pending"
        BY <1>8, <4>1, Zenon
      <4> QED  BY <2>4, <4>2
    <3>2. "pending" \in HandlerOps
      BY DEF HandlerOps
    <3>3. Len(g.code) = 1 /\ (ipending # {})'
      BY <1>8, <2>1, <2>4, <2>6
    <3> QED  BY <3>1, <3>2, <3>3 DEF Dispatches
  <2>8. \A k \in 1..Len(g.saved) : g.saved[k] = FALSE
    BY <1>6, <1>9, <2>4
  <2>9. Interrupted(g, ienable, (ipending # {})')
    BY <1>6, <2>1, <2>4, <2>5, <2>7, <2>8 DEF Interrupted
  <2>10. UNCHANGED Program0 /\ pie' = FALSE
    BY <1>1, <1>6 DEF Program0
  <2> QED  BY <1>4, <2>2, <2>3, <2>9, <2>10, UpperMove
<1>11. CASE ~IsInterrupt
  <2>1. AtTrap(frames[Len(frames) - 1].code)
    BY <1>6, <1>11 DEF IsInterrupt, f
  <2>2. Resume(h)
    BY <1>2, <1>11
  <2>3. h \in Frames /\ h.kind = "exception" /\ h.code = d /\ h.saved = f.saved /\ h.estatus = f.estatus
    BY <1>7, <1>8 DEF Frames
  <2> HIDE DEF h
  <2>4. Whole(h)
    BY <1>6, <1>8, <1>9, <2>3 DEF Whole
  <2>5. Excepted(h, frames[Len(frames) - 1])
    BY <1>6, <2>1, <2>3, <2>4 DEF Excepted, d
  <2>6. h.estatus = Running.estatus
    BY <2>3 DEF f
  <2> QED  BY <1>1, <1>4, <1>5, <2>2, <2>5, <2>6, TopMove DEF InException
<1> QED  BY <1>10, <1>11

LEMMA ExceptionEntryInv ==
  ASSUME IrqInv, alt_instruction_exception_entry
  PROVE  IrqInv'
<1> DEFINE f == Running
<1>1. AtOp("exception") /\ UNCHANGED <<pie, ienable, alt_irq_active, alt_irq, alt_instruction_exception_handler, started,
                                     lines, requests, calls, traps, board>>
  BY DEF alt_instruction_exception_entry, devices, processor
<1>2. Others /\ pie \in BOOLEAN
  BY DEF IrqInv, Others
<1>3. Others'
  BY <1>1, <1>2, OthersKept
<1>4. InException /\ f.kind = "exception"
  <2>1. "exception" \notin ProgramOps /\ "exception" \notin HandlerOps
    BY DEF ProgramOps, HandlerOps
  <2> QED  BY <1>1, <2>1, WhereAt
<1>5. Excepted(f, frames[Len(frames) - 1])
  BY <1>4, ExceptionIs
<1>6. f \in Frames /\ f.saved = <<>> /\ Whole(f)
  BY <1>5 DEF Excepted, Whole
<1>7. f.saved \in Seq(BOOLEAN) /\ Len(<<>>) = 0
  BY <1>6, FrameIs
<1> HIDE DEF f
<1>8. ASSUME NEW g \in Frames, Resume(g), g.kind = f.kind, g.saved = f.saved, g.estatus = f.estatus,
             NEW x \in {"eret", "break"}, g.code = <<Do(x)>>
      PROVE  IrqInv'
  <2>1. Nests(<<Do(x)>>, 0, 0)
    BY <1>8, NamesAre, SoleIs DEF Inside
  <2>2. Whole(g)
    BY <1>6, <1>7, <1>8, <2>1 DEF Whole
  <2>3. g.code \in {<<Do("exception")>>, <<Do("eret")>>, <<Do("break")>>}
    BY <1>8
  <2>4. Excepted(g, frames[Len(frames) - 1])
    BY <1>5, <1>6, <1>8, <2>2, <2>3 DEF Excepted
  <2>5. g.estatus = Running.estatus
    BY <1>8 DEF f
  <2> QED  BY <1>1, <1>3, <1>4, <1>8, <2>4, <2>5, TopMove DEF InException
<1>9. <<Do("eret")>> \in Seq(Op) /\ <<Do("break")>> \in Seq(Op)
  BY NamesAre, SoleIs DEF Inside
<1>10. CASE alt_instruction_exception_handler
  <2> DEFINE c == <<Do("eret")>>
  <2>1. PICK skip \in BOOLEAN : Resume([f EXCEPT !.skip = skip, !.code = c])
    BY <1>10 DEF alt_instruction_exception_entry, f
  <2> DEFINE g == [f EXCEPT !.skip = skip, !.code = c]
  <2>2. c \in Seq(Op)
    BY <1>9
  <2> HIDE DEF c
  <2>3. g \in Frames /\ g.kind = f.kind /\ g.saved = f.saved /\ g.estatus = f.estatus /\ g.code = c
    BY <1>6, <2>2 DEF Frames
  <2>4. Resume(g)
    BY <2>1
  <2> HIDE DEF g
  <2> QED  BY <1>8, <2>3, <2>4 DEF c
<1>11. CASE ~alt_instruction_exception_handler
  <2> DEFINE c == <<Do("break")>>
             g == [f EXCEPT !.code = c]
  <2>1. Resume(g)
    BY <1>11 DEF alt_instruction_exception_entry, Becomes, f
  <2>2. c \in Seq(Op)
    BY <1>9
  <2> HIDE DEF c
  <2>3. g \in Frames /\ g.kind = f.kind /\ g.saved = f.saved /\ g.estatus = f.estatus /\ g.code = c
    BY <1>6, <2>2 DEF Frames
  <2> HIDE DEF g
  <2> QED  BY <1>8, <2>1, <2>3 DEF c
<1> QED  BY <1>10, <1>11

(* A handler of a device's, and what the dispatcher does around it.        *)
IsrOps == {"quiet", "lower", "disable_all", "trap", "enable_all"}

LEMMA SectionIs ==
  /\ <<Do("disable_all"), Do("trap"), Do("enable_all")>> \in Seq(Op)
  /\ Nests(<<Do("disable_all"), Do("trap"), Do("enable_all")>>, 0, 0)
  /\ \A k \in 1..Len(<<Do("disable_all"), Do("trap"), Do("enable_all")>>) :
       <<Do("disable_all"), Do("trap"), Do("enable_all")>>[k].op \in IsrOps
<1> DEFINE x == Do("disable_all")
           y == Do("trap")
           z == Do("enable_all")
           c == <<x, y, z>>
           f == [k \in 1..4 |-> IF k \in {1, 4} THEN 0 ELSE 1]
<1>1. x \in Op /\ y \in Op /\ z \in Op
  BY NamesAre, LinesAre DEF Do, Op
<1>2. x.op = "disable_all" /\ y.op = "trap" /\ z.op = "enable_all"
  BY DEF Do
<1> HIDE DEF x, y, z
<1>3. c \in Seq(Op) /\ Len(c) = 3 /\ c[1] = x /\ c[2] = y /\ c[3] = z
  BY <1>1
<1>4. f \in [1..4 -> 0..3] /\ f[1] = 0 /\ f[2] = 1 /\ f[3] = 1 /\ f[4] = 0
  OBVIOUS
<1> HIDE DEF c, f
<1>5. ASSUME NEW k \in 1..3
      PROVE  f[k + 1] = f[k] + Change(c[k].op) /\ Stands(c[k].op, f[k]) /\ c[k].op \in IsrOps
  <2>1. CASE k = 1
    BY <1>2, <1>3, <1>4, <2>1 DEF Change, Stands, Inside, Outside, IsrOps
  <2>2. CASE k = 2
    BY <1>2, <1>3, <1>4, <2>2 DEF Change, Stands, Inside, Outside, IsrOps
  <2>3. CASE k = 3
    BY <1>2, <1>3, <1>4, <2>3 DEF Change, Stands, Inside, Outside, IsrOps
  <2> QED  BY <2>1, <2>2, <2>3
<1>6. SectionDepth(c, 0, 0, f)
  BY <1>3, <1>4, <1>5 DEF SectionDepth
<1>7. c \in Seq(Op) /\ Nests(c, 0, 0) /\ \A k \in 1..Len(c) : c[k].op \in IsrOps
  BY <1>3, <1>5, <1>6 DEF Nests
<1> QED  BY <1>7 DEF c, x, y, z

LEMMA IsrIs ==
  ASSUME NEW i \in Irqs
  PROVE  Isr(i, i) \in Seq(Op) /\ Nests(Isr(i, i), 0, 0) /\ \A k \in 1..Len(Isr(i, i)) : Isr(i, i)[k].op \in IsrOps
<1> DEFINE x == DoTo(IF i = I2C_0_IRQ THEN "quiet" ELSE "lower", i, NULL)
           a == <<x>>
           s == <<Do("disable_all"), Do("trap"), Do("enable_all")>>
           b == IF i = JTAG_UART_0_IRQ THEN <<>> ELSE s
<1>1. x \in Op /\ x.op \in {"quiet", "lower"}
  BY NamesAre, LinesAre DEF DoTo, Op
<1> HIDE DEF x
<1>2. a \in Seq(Op) /\ Len(a) = 1 /\ a[1] = x
  BY <1>1
<1>3. Nests(a, 0, 0)
  <2>1. Stands(x.op, 0) /\ x.op \notin {"disable_all", "enable_all"} /\ 0 \in 0..3
    BY <1>1 DEF Stands, Inside, Outside
  <2> QED  BY <1>1, <2>1, NestsFlat
<1>4. \A k \in 1..Len(a) : a[k].op \in IsrOps
  <2>1. x.op \in IsrOps
    BY <1>1 DEF IsrOps
  <2>2. \A k \in 1..Len(a) : k = 1
    BY <1>2
  <2> QED  BY <1>2, <2>1, <2>2
<1>5. s \in Seq(Op) /\ Nests(s, 0, 0) /\ \A k \in 1..Len(s) : s[k].op \in IsrOps
  BY SectionIs
<1> HIDE DEF a, s
<1>6. CASE i = JTAG_UART_0_IRQ
  <2>1. Isr(i, i) = a \o <<>>
    BY <1>6 DEF Isr, a, x
  <2>2. a \o <<>> = a
    BY <1>2
  <2> QED  BY <1>2, <1>3, <1>4, <2>1, <2>2
<1>7. CASE i # JTAG_UART_0_IRQ
  <2>1. Isr(i, i) = a \o s
    BY <1>7 DEF Isr, a, x, s
  <2>2. a \o s \in Seq(Op) /\ Nests(a \o s, 0, 0)
    BY <1>2, <1>3, <1>5, ConcatIs, NestsConcat
  <2>3. \A k \in 1..Len(a \o s) : (a \o s)[k].op \in IsrOps
    BY <1>2, <1>4, <1>5, OpsConcat
  <2> QED  BY <2>1, <2>2, <2>3
<1> QED  BY <1>6, <1>7

(* Whatever line is enabled, out of sections, has its handler.             *)
LEMMA EnabledIs ==
  ASSUME NEW c \in Seq(Op), NEW s, s = <<>>, NEW t, NEW e, NEW a, NEW b, NEW n, CodeOrder(c, s, t, e, a, b, n),
         SwitchedOn(c), Nests(c, 0, 0)
  PROVE  e = a /\ \A i \in e : i \in Irqs /\ t[i] = Entry(i, i)
<1>1. Handled(c, t) /\ Masked(c, s, t, e, a) /\ Program(c, b)
  BY DEF CodeOrder
<1>2. c # <<>> => c[1].op \notin {"write_ienable", "clear_ienable", "context", "active"}
  <2>1. c # <<>> => Stands(c[1].op, 0)
    BY NestsTail
  <2>2. c # <<>> => c[1].op # "clear_ienable"
    BY <1>1, ProgramTail
  <2> QED  BY <2>1, <2>2 DEF Stands, Inside
<1>3. e = a /\ e \subseteq Irqs
  BY <1>1, <1>2 DEF Masked
<1>4. ASSUME NEW i \in e PROVE i \in Irqs /\ t[i] = Entry(i, i)
  <2>1. t[i].handler = i \/ Leaving(c, s, i)
    BY <1>1, <1>3 DEF Masked
  <2>2. ~Leaving(c, s, i)
    BY <1>2 DEF Leaving, DoTo
  <2>3. ~SetsContext(c, i)
    BY <1>2 DEF SetsContext
  <2>4. i \in Irqs /\ i # NULL
    BY <1>3, LinesAre
  <2>5. t[i] = Entry(i, i) \/ t[i] = Entry(NULL, NULL)
    BY <1>1, <2>3, <2>4 DEF Handled
  <2>6. t[i].handler = i
    BY <2>1, <2>2
  <2> QED  BY <2>4, <2>5, <2>6 DEF Entry
<1> QED  BY <1>3, <1>4

LEMMA MinIs ==
  ASSUME NEW S, S \subseteq Irqs, S # {}
  PROVE  Min(S) \in S
<1>1. S \subseteq {0, 1, 3}
  BY LinesAre
<1>2. ASSUME NEW x \in S, \A y \in S : x <= y PROVE Min(S) \in S
  BY <1>2, Zenon DEF Min
<1>3. CASE 0 \in S
  <2>1. \A y \in S : 0 <= y
    BY <1>1
  <2> QED  BY <1>2, <1>3, <2>1
<1>4. CASE 0 \notin S /\ 1 \in S
  <2>1. \A y \in S : 1 <= y
    BY <1>1, <1>4
  <2> QED  BY <1>2, <1>4, <2>1
<1>5. CASE 0 \notin S /\ 1 \notin S
  <2>1. \A y \in S : y = 3
    BY <1>1, <1>5
  <2>2. 3 \in S /\ \A y \in S : 3 <= y
    BY <2>1
  <2> QED  BY <1>2, <2>2
<1> QED  BY <1>3, <1>4, <1>5

(* What the dispatcher found.                                              *)
LEMMA LowestIs ==
  ASSUME IrqInv, AtOp("dispatch")
  PROVE  /\ InHandler /\ Running.saved = <<>> /\ Running.pending # {} /\ Lowest \in Irqs
         /\ alt_irq[Lowest].handler = Lowest /\ alt_irq[Lowest].context = Lowest
<1> DEFINE f == Running
<1>1. "dispatch" \notin ProgramOps
  BY DEF ProgramOps
<1>2. InHandler /\ Standing("dispatch")
  BY <1>1, WhereAt
<1>3. f \in Frames /\ f.code \in Seq(Op) /\ f.code # <<>> /\ f.code[1].op = "dispatch" /\ 1 \in 1..Len(f.code)
  BY <1>2, NotEmpty DEF Standing
<1>4. Interrupted(f, ienable, ipending # {}) /\ Level(frames[1])
  BY <1>2 DEF InHandler
<1>5. f.pending # {} /\ f.pending \subseteq ienable
  <2>1. Dispatches(f, ienable, ipending # {})
    BY <1>4 DEF Interrupted
  <2> QED  BY <1>3, <2>1 DEF Dispatches
<1>6. f.saved = <<>>
  <2>1. Nests(f.code, Len(f.saved), 0)
    BY <1>4 DEF Interrupted, Whole
  <2>2. Stands("dispatch", Len(f.saved))
    BY <1>3, <2>1, NestsTail
  <2>3. Len(f.saved) = 0
    BY <2>2 DEF Stands, Outside
  <2>4. f.saved \in Seq(BOOLEAN)
    BY <1>3, FrameIs
  <2> QED  BY <2>3, <2>4
<1>7. ienable = alt_irq_active /\ \A i \in ienable : i \in Irqs /\ alt_irq[i] = Entry(i, i)
  <2>1. /\ Base(frames[1]) /\ frames[1] \in Frames
        /\ CodeOrder(frames[1].code, frames[1].saved, alt_irq, ienable, alt_irq_active, board, calls)
    BY RunningIs
  <2> DEFINE c == frames[1].code
             s == frames[1].saved
  <2>2. c \in Seq(Op)
    BY <2>1, FrameIs
  <2>3. SwitchedOn(c) /\ s = <<>>
    BY <1>4 DEF Level
  <2>4. Nests(c, 0, 0)
    <3>1. Nests(c, Len(s), 0)
      BY <2>1 DEF Base, Whole
    <3>2. Len(s) = 0
      BY <2>3
    <3> QED  BY <3>1, <3>2
  <2> HIDE DEF c, s
  <2>5. CodeOrder(c, s, alt_irq, ienable, alt_irq_active, board, calls)
    BY <2>1 DEF c, s
  <2> QED  BY <2>2, <2>3, <2>4, <2>5, EnabledIs
<1>8. Lowest \in f.pending
  BY <1>5, <1>7, MinIs DEF Lowest
<1>9. Lowest \in Irqs /\ alt_irq[Lowest] = Entry(Lowest, Lowest)
  BY <1>5, <1>7, <1>8
<1> QED  BY <1>2, <1>5, <1>6, <1>9 DEF Entry

LEMMA HandlerMove ==
  ASSUME IrqInv, InHandler, NEW f, f = Running, f.saved = <<>>, NEW g \in Frames, Resume(g),
         g.kind = f.kind, g.skip = f.skip, g.estatus = f.estatus, g.saved = f.saved, Nests(g.code, 0, 0),
         UNCHANGED <<processor, devices, calls, traps, board>>, Dispatches(g, ienable, FALSE)
  PROVE  IrqInv'
<1>1. Len(frames) = 2 /\ pie = FALSE /\ Level(frames[1]) /\ Interrupted(f, ienable, ipending # {})
  BY DEF InHandler
<1>2. UNCHANGED <<pie, ienable, alt_irq_active, alt_irq, alt_instruction_exception_handler, started, lines, requests,
                  calls, traps, board>>
  BY DEF processor, devices
<1>3. Others'
  <2>1. Others
    BY DEF IrqInv
  <2>2. pie' \in BOOLEAN
    BY <1>1, <1>2
  <2> QED  BY <1>2, <2>1, <2>2, OthersKept
<1>4. Whole(g)
  <2>1. Len(g.saved) = 0
    OBVIOUS
  <2> QED  BY <2>1 DEF Whole
<1>5. Interrupted(g, ienable, (ipending # {})')
  <2>1. Dispatches(g, ienable, (ipending # {})')
    BY DEF Dispatches
  <2>2. \A k \in 1..Len(g.saved) : g.saved[k] = FALSE
    OBVIOUS
  <2> QED  BY <1>1, <1>4, <2>1, <2>2 DEF Interrupted
<1>6. UNCHANGED Program0 /\ pie' = FALSE
  BY <1>1, <1>2 DEF Program0
<1> QED  BY <1>1, <1>3, <1>5, <1>6, UpperMove

LEMMA OneStep ==
  ASSUME NEW x \in {"dispatch", "eret", "again"}
  PROVE  /\ <<Do(x)>> \in Seq(Op) /\ Nests(<<Do(x)>>, 0, 0) /\ Len(<<Do(x)>>) = 1
         /\ \A k \in 1..Len(<<Do(x)>>) : <<Do(x)>>[k].op = x
<1> DEFINE y == Do(x)
           c == <<y>>
<1>1. y \in Op /\ y.op = x
  BY NamesAre, LinesAre DEF Do, Op
<1>2. Stands(y.op, 0) /\ y.op \notin {"disable_all", "enable_all"} /\ 0 \in 0..3
  BY <1>1 DEF Stands, Inside
<1>3. Nests(c, 0, 0)
  BY <1>1, <1>2, NestsFlat
<1> HIDE DEF y
<1>4. c \in Seq(Op) /\ Len(c) = 1 /\ c[1] = y /\ \A k \in 1..Len(c) : k = 1
  BY <1>1
<1> HIDE DEF c
<1>5. \A k \in 1..Len(c) : c[k].op = x
  BY <1>1, <1>4, Zenon
<1> QED  BY <1>3, <1>4, <1>5 DEF c, y

LEMMA HandlerInv ==
  ASSUME IrqInv, alt_irq_handler
  PROVE  IrqInv'
<1> DEFINE f == Running
<1>1. UNCHANGED <<processor, devices, calls, traps, board>>
  BY DEF alt_irq_handler
<1>2. ASSUME NEW x \in {"pending", "dispatch", "again"}, AtOp(x)
      PROVE  InHandler /\ Standing(x) /\ f \in Frames /\ f.saved = <<>> /\ Interrupted(f, ienable, ipending # {})
  <2>1. x \notin ProgramOps
    BY <1>2 DEF ProgramOps
  <2>2. InHandler /\ Standing(x)
    BY <1>2, <2>1, WhereAt
  <2>3. f \in Frames /\ f.code \in Seq(Op) /\ f.code # <<>> /\ f.code[1].op = x
    BY <2>2 DEF Standing
  <2>4. Interrupted(f, ienable, ipending # {})
    BY <2>2 DEF InHandler
  <2>5. Nests(f.code, Len(f.saved), 0)
    BY <2>4 DEF Interrupted, Whole
  <2>6. Stands(x, Len(f.saved))
    BY <2>3, <2>5, NestsTail
  <2>7. Len(f.saved) = 0
    BY <1>2, <2>6 DEF Stands, Outside
  <2>8. f.saved \in Seq(BOOLEAN)
    BY <2>3, FrameIs
  <2> QED  BY <2>2, <2>3, <2>4, <2>7, <2>8
<1>3. ipending \subseteq Irqs /\ ipending \subseteq ienable
  <2>1. Masked(frames[1].code, frames[1].saved, alt_irq, ienable, alt_irq_active)
    BY DEF IrqInv, CodeOrder
  <2> QED  BY <2>1 DEF Masked, ipending
<1>4. ASSUME InHandler, f \in Frames, f.saved = <<>>, NEW x \in {"dispatch", "eret"}, x = "dispatch" => ipending # {},
             Resume([f EXCEPT !.pending = ipending, !.code = <<Do(x)>>])
      PROVE  IrqInv'
  <2> DEFINE c == <<Do(x)>>
             g == [f EXCEPT !.pending = ipending, !.code = c]
  <2>1. c \in Seq(Op) /\ Nests(c, 0, 0) /\ Len(c) = 1 /\ \A k \in 1..Len(c) : c[k].op = x
    BY <1>4, OneStep
  <2>2. Resume(g)
    BY <1>4
  <2> HIDE DEF c, f
  <2>3. /\ g \in Frames /\ g.code = c /\ g.pending = ipending /\ g.kind = f.kind /\ g.skip = f.skip
        /\ g.estatus = f.estatus /\ g.saved = f.saved
    BY <1>3, <1>4, <2>1 DEF Frames
  <2> HIDE DEF g
  <2>4. x \in HandlerOps /\ x # "pending"
    BY <1>4 DEF HandlerOps
  <2>5. Dispatches(g, ienable, FALSE)
    BY <1>3, <1>4, <2>1, <2>3, <2>4, Zenon DEF Dispatches
  <2>6. Nests(g.code, 0, 0)
    BY <2>1, <2>3
  <2> QED  BY <1>1, <1>4, <2>2, <2>3, <2>5, <2>6, HandlerMove DEF f
<1>5. CASE AtOp("pending") /\ Resume([f EXCEPT !.pending = ipending, !.code = <<Do("dispatch")>>])
  <2>1. InHandler /\ Standing("pending") /\ f \in Frames /\ f.saved = <<>> /\ Interrupted(f, ienable, ipending # {})
    BY <1>2, <1>5
  <2>2. ipending # {}
    <3>1. 1 \in 1..Len(f.code) /\ f.code[1].op = "pending"
      BY <2>1, NotEmpty DEF Standing
    <3> QED  BY <2>1, <3>1 DEF Interrupted, Dispatches
  <2> QED  BY <1>4, <1>5, <2>1, <2>2
<1>6. CASE AtOp("dispatch") /\ Becomes(Isr(alt_irq[Lowest].handler, alt_irq[Lowest].context) \o <<Do("again")>>)
  <2> DEFINE i == Lowest
             d == Isr(i, i)
             e == <<Do("again")>>
             c == d \o e
             g == [f EXCEPT !.code = c]
  <2>1. InHandler /\ f \in Frames /\ f.saved = <<>> /\ i \in Irqs /\ alt_irq[i].handler = i /\ alt_irq[i].context = i
    BY <1>2, <1>6, LowestIs
  <2>2. Resume(g)
    BY <1>6, <2>1 DEF Becomes
  <2>3. d \in Seq(Op) /\ Nests(d, 0, 0) /\ \A k \in 1..Len(d) : d[k].op \in IsrOps
    BY <2>1, IsrIs
  <2>4. e \in Seq(Op) /\ Nests(e, 0, 0) /\ \A k \in 1..Len(e) : e[k].op = "again"
    BY OneStep
  <2> HIDE DEF d, e, f, i
  <2>5. c \in Seq(Op) /\ Nests(c, 0, 0)
    BY <2>3, <2>4, ConcatIs, NestsConcat
  <2> DEFINE Opers == IsrOps \cup {"again"}
  <2>6. \A k \in 1..Len(c) : c[k].op \in Opers
    <3>1. \A k \in 1..Len(d) : d[k].op \in Opers
      BY <2>3
    <3>2. \A k \in 1..Len(e) : e[k].op \in Opers
      BY <2>4
    <3> HIDE DEF Opers
    <3> QED  BY <2>3, <2>4, <3>1, <3>2, OpsConcat
  <2>7. Opers \subseteq HandlerOps /\ "pending" \notin Opers /\ "dispatch" \notin Opers
    BY DEF IsrOps, HandlerOps
  <2> HIDE DEF c, Opers
  <2>8. /\ g \in Frames /\ g.code = c /\ g.kind = f.kind /\ g.skip = f.skip
        /\ g.estatus = f.estatus /\ g.saved = f.saved
    BY <2>1, <2>5 DEF Frames
  <2> HIDE DEF g
  <2>9. Dispatches(g, ienable, FALSE)
    BY <2>6, <2>7, <2>8, Zenon DEF Dispatches
  <2>10. Nests(g.code, 0, 0)
    BY <2>5, <2>8
  <2> QED  BY <1>1, <2>1, <2>2, <2>8, <2>9, <2>10, HandlerMove DEF f
<1>7. CASE /\ AtOp("again")
           /\ Resume([f EXCEPT !.pending = ipending, !.code = <<Do(IF ipending = {} THEN "eret" ELSE "dispatch")>>])
  <2> DEFINE x == IF ipending = {} THEN "eret" ELSE "dispatch"
  <2>1. x \in {"dispatch", "eret"} /\ (x = "dispatch" => ipending # {})
    OBVIOUS
  <2>2. Resume([f EXCEPT !.pending = ipending, !.code = <<Do(x)>>])
    BY <1>7
  <2>3. InHandler /\ f \in Frames /\ f.saved = <<>>
    BY <1>2, <1>7
  <2> HIDE DEF x
  <2> QED  BY <1>4, <2>1, <2>2, <2>3
<1> QED  BY <1>5, <1>6, <1>7 DEF alt_irq_handler

LEMMA RequestInv ==
  ASSUME InterruptsAssumption, IrqInv, NEW irq \in Irqs, Request(irq)
  PROVE  IrqInv'
<1>1. /\ irq \in started \ lines /\ requests[irq] < MaxRequests
      /\ lines' = lines \cup {irq} /\ requests' = [requests EXCEPT ![irq] = @ + 1]
      /\ UNCHANGED <<pie, ienable, alt_irq_active, alt_irq, alt_instruction_exception_handler, started, calls, traps,
                     frames, board>>
  BY DEF Request, processor
<1>2. Others /\ Stack(frames, pie, ienable, ipending # {})
      /\ CodeOrder(frames[1].code, frames[1].saved, alt_irq, ienable, alt_irq_active, board, calls)
  BY DEF IrqInv
<1>3. Others'
  <2>1. requests' \in [Irqs -> 0..MaxRequests]
    <3>1. requests \in [Irqs -> 0..MaxRequests] /\ MaxRequests \in Nat
      BY <1>2 DEF Others, InterruptsAssumption
    <3>2. requests[irq] + 1 \in 0..MaxRequests
      BY <1>1, <3>1
    <3> QED  BY <1>1, <3>1, <3>2
  <2> QED  BY <1>1, <1>2, <2>1 DEF Others
<1>4. ipending # {} => (ipending # {})'
  BY <1>1 DEF ipending
<1>5. \A f, g : Entered(f, g, ipending # {}) => Entered(f, g, (ipending # {})')
  BY <1>4 DEF Entered
<1>6. \A f : Interrupted(f, ienable, ipending # {}) => Interrupted(f, ienable, (ipending # {})')
  BY <1>4 DEF Interrupted, Dispatches
<1>7. Stack(frames, pie, ienable, (ipending # {})')
  <2>1. frames \in Seq(Frames) /\ Base(frames[1])
        /\ (Alone(frames, pie) \/ Twofold(frames, pie, ienable, ipending # {}) \/ Threefold(frames, pie, ienable))
    BY <1>2, Zenon DEF Stack
  <2>2. Twofold(frames, pie, ienable, ipending # {}) => Twofold(frames, pie, ienable, (ipending # {})')
    BY <1>5, <1>6, Zenon DEF Twofold
  <2> QED  BY <2>1, <2>2, Zenon DEF Stack
<1>8. Stack(frames', pie', ienable', (ipending # {})')
  BY <1>1, <1>7
<1> QED  BY <1>1, <1>2, <1>3, <1>8 DEF IrqInv

(* main's calls: before the rest of its code, or in none of it.            *)
LEMMA CallMove ==
  ASSUME IrqInv, AtOp("main"), NEW d, Callable(d, Registered(alt_irq)), Becomes(d \o Running.code), calls' = calls + 1,
         UNCHANGED <<pie, ienable, alt_irq_active, alt_irq, board>>, Others'
  PROVE  IrqInv'
<1> DEFINE f == Running
           c == f.code
           p == d \o c
           g == [f EXCEPT !.code = p]
<1>1. "main" \notin HandlerOps /\ "main" \notin {"irqtest", "exception", "break"}
  BY DEF HandlerOps
<1>2. InProgram /\ Standing("main")
  BY <1>1, OnlyProgram, WhereAt
<1>3. /\ Len(frames) = 1 /\ Base(f) /\ Says(pie, Level(f)) /\ f \in Frames /\ c \in Seq(Op) /\ c # <<>> /\ c[1].op = "main"
      /\ CodeOrder(c, f.saved, alt_irq, ienable, alt_irq_active, board, calls)
  BY <1>2 DEF InProgram, Standing
<1>4. Resume(g)
  BY DEF Becomes
<1>5. calls \in Nat
  BY DEF IrqInv, Others
<1>6. d \in Seq(Op) /\ Nests(d, 0, 0)
  BY DEF Callable
<1> HIDE DEF f, c
<1>7. CodeOrder(p, f.saved, alt_irq, ienable, alt_irq_active, board, calls + 1) /\ SwitchedOn(c) /\ SwitchedOn(p)
  BY <1>3, <1>5, CoreCall
<1>8. Nests(c, Len(f.saved), 0) /\ f.kind = "program"
  BY <1>3 DEF Base, Whole, c
<1>9. f.saved = <<>> /\ Len(f.saved) = 0
  <2>1. Stands("main", Len(f.saved))
    BY <1>3, <1>8, NestsTail
  <2>2. Len(f.saved) = 0
    BY <2>1 DEF Stands, Outside
  <2>3. f.saved \in Seq(BOOLEAN)
    BY <1>3, FrameIs
  <2> QED  BY <2>2, <2>3
<1>10. p \in Seq(Op) /\ Nests(p, 0, 0)
  <2>1. Nests(c, 0, 0)
    BY <1>8, <1>9
  <2> QED  BY <1>3, <1>6, <2>1, ConcatIs, NestsConcat
<1> HIDE DEF p
<1>11. g \in Frames /\ g.code = p /\ g.kind = f.kind /\ g.saved = f.saved
  BY <1>3, <1>10 DEF Frames
<1> HIDE DEF g
<1>12. Base(g)
  <2>1. Nests(g.code, Len(g.saved), 0)
    BY <1>9, <1>10, <1>11
  <2>2. \A k \in 1..Len(g.saved) : FALSE
    BY <1>9, <1>11
  <2> QED  BY <1>8, <1>11, <2>1, <2>2 DEF Base, Whole
<1>13. Says(pie', Level(g))
  <2>1. Level(f) /\ Level(g)
    BY <1>7, <1>9, <1>11 DEF Level, c
  <2> QED  BY <1>3, <2>1 DEF Says
<1>14. CodeOrder(g.code, g.saved, alt_irq', ienable', alt_irq_active', board', calls')
  BY <1>7, <1>11
<1> QED  BY <1>3, <1>4, <1>12, <1>13, <1>14, ProgramMove

LEMMA MainCallsInv ==
  ASSUME InterruptsAssumption, IrqInv, MainCalls
  PROVE  IrqInv'
<1> DEFINE c == Running.code
           S == Registered(alt_irq)
<1>1. AtOp("main") /\ calls < MaxCalls /\ calls' = calls + 1
      /\ UNCHANGED <<pie, ienable, alt_irq_active, alt_irq, lines, requests, traps, board>>
  BY DEF MainCalls
<1>2. Others /\ Stack(frames, pie, ienable, ipending # {})
      /\ CodeOrder(frames[1].code, frames[1].saved, alt_irq, ienable, alt_irq_active, board, calls)
  BY DEF IrqInv
<1>3. calls' \in 0..MaxCalls
  <2>1. calls \in 0..MaxCalls /\ MaxCalls \in Nat
    BY <1>2 DEF Others, InterruptsAssumption
  <2> QED  BY <1>1, <2>1
<1>4. ASSUME started' \in SUBSET Irqs, started \subseteq started', alt_instruction_exception_handler' \in BOOLEAN
      PROVE  Others'
  BY <1>1, <1>2, <1>3, <1>4 DEF Others
<1>5. ASSUME UNCHANGED frames, Others' PROVE IrqInv'
  <2>1. calls + 1 # 0
    BY <1>2 DEF Others
  <2>2. CodeOrder(frames[1].code, frames[1].saved, alt_irq, ienable, alt_irq_active, board, calls + 1)
    BY <1>2, <2>1 DEF CodeOrder, StartOrder
  <2>3. UNCHANGED ipending
    BY <1>1 DEF ipending
  <2> QED  BY <1>1, <1>2, <1>5, <2>2, <2>3 DEF IrqInv
<1>6. ASSUME NEW irq \in Irqs, NEW call \in Calls(irq),
             \/ Becomes(call \o c)
             \/ Becomes(<<Do("disable_all")>> \o call \o <<Do("enable_all")>> \o c),
             UNCHANGED <<started, alt_instruction_exception_handler>>
      PROVE  IrqInv'
  <2>1. Others'
    <3>1. started \in SUBSET Irqs /\ alt_instruction_exception_handler \in BOOLEAN
      BY <1>2 DEF Others
    <3> QED  BY <1>4, <1>6, <3>1
  <2>2. CodePiece(call) /\ Callable(call, S)
    <3>1. /\ \A x \in {irq, NULL} : CodePiece(alt_iic_isr_register(irq, x)) /\ Callable(alt_iic_isr_register(irq, x), S)
          /\ CodePiece(alt_irq_disable(irq)) /\ Callable(alt_irq_disable(irq), S)
          /\ irq \in S => CodePiece(alt_irq_enable(irq)) /\ Callable(alt_irq_enable(irq), S)
          /\ CodePiece(<<Do("trap")>>) /\ Callable(<<Do("trap")>>, S)
      BY CallablePieces
    <3>2. alt_irq[irq].handler # NULL => irq \in S
      <4>1. InProgram /\ Standing("main")
        <5>1. "main" \notin HandlerOps /\ "main" \notin {"irqtest", "exception", "break"}
          BY DEF HandlerOps
        <5> QED  BY <1>1, <5>1, OnlyProgram, WhereAt
      <4>2. c[1].op = "main" /\ Handled(c, alt_irq)
        BY <4>1 DEF Standing, InProgram, CodeOrder
      <4>3. ~SetsContext(c, irq)
        BY <4>2 DEF SetsContext
      <4>4. alt_irq[irq] = Entry(irq, irq) \/ alt_irq[irq] = Entry(NULL, NULL)
        BY <4>2, <4>3 DEF Handled
      <4> QED  BY <4>4 DEF Registered, Entry
    <3>3. \/ call \in {alt_iic_isr_register(irq, irq), alt_iic_isr_register(irq, NULL), alt_irq_disable(irq), <<Do("trap")>>}
          \/ call = alt_irq_enable(irq) /\ alt_irq[irq].handler # NULL
      BY <1>6, Zenon DEF Calls
    <3> HIDE DEF S
    <3> QED  BY <3>1, <3>2, <3>3
  <2>3. CASE Becomes(call \o c)
    BY <1>1, <2>1, <2>2, <2>3, CallMove
  <2>4. CASE Becomes(<<Do("disable_all")>> \o call \o <<Do("enable_all")>> \o c)
    <3> DEFINE d == (<<Do("disable_all")>> \o call) \o <<Do("enable_all")>>
    <3>1. Callable(d, S)
      BY <2>2, CallableSection
    <3>2. Becomes(d \o c)
      BY <2>4
    <3> HIDE DEF d
    <3> QED  BY <1>1, <2>1, <3>1, <3>2, CallMove
  <2> QED  BY <1>6, <2>3, <2>4
<1>7. CASE started' = started \cup {I2C_0_IRQ} /\ UNCHANGED <<frames, alt_instruction_exception_handler>>
  <2>1. started' \in SUBSET Irqs /\ started \subseteq started' /\ alt_instruction_exception_handler' \in BOOLEAN
    BY <1>2, <1>7, LinesAre DEF Others
  <2> QED  BY <1>4, <1>5, <1>7, <2>1
<1>8. CASE alt_instruction_exception_handler' = TRUE /\ UNCHANGED <<frames, started>>
  <2>1. started' \in SUBSET Irqs /\ started \subseteq started' /\ alt_instruction_exception_handler' \in BOOLEAN
    BY <1>2, <1>8 DEF Others
  <2> QED  BY <1>4, <1>5, <1>8, <2>1
<1> QED  BY <1>6, <1>7, <1>8 DEF MainCalls

LEMMA IrqNextInv ==
  ASSUME InterruptsAssumption, IrqInv, [IrqNext]_irqVars
  PROVE  IrqInv'
<1>1. CASE UNCHANGED irqVars
  <2>1. UNCHANGED <<pie, ienable, alt_irq_active, alt_irq, alt_instruction_exception_handler, lines, started, requests,
                    calls, traps, frames, board>>
    BY <1>1 DEF irqVars, processor, devices
  <2>2. UNCHANGED ipending
    BY <2>1 DEF ipending
  <2>3. Others'
    BY <2>1 DEF IrqInv, Others
  <2> QED  BY <2>1, <2>2, <2>3 DEF IrqInv
<1>2. CASE Interrupt
  BY <1>2, InterruptInv
<1>3. CASE Instruction
  <2>1. CASE Spin \/ Break
    BY <1>1, <2>1 DEF Spin, Break
  <2> QED  BY <1>3, <2>1, DisableAllInv, EnableAllInv, StoresInv, DeviceStoresInv, SetupInv, MainCallsInv, ExitInv,
              TrapInv, IrqEntryInv, HandlerInv, ExceptionEntryInv, EretInv, Zenon DEF Instruction
<1>4. ASSUME NEW irq \in Irqs, Request(irq) PROVE IrqInv'
  BY <1>4, RequestInv
<1> QED  BY <1>1, <1>2, <1>3, <1>4 DEF IrqNext, Processor

(* What the invariant says of the frames.                                  *)
LEMMA KindsAre ==
  ASSUME IrqInv
  PROVE  /\ frames[1].kind = "program" /\ Len(frames) \in {1, 2, 3}
         /\ \A n \in 2..Len(frames) : frames[n].kind # "program" /\ (frames[n].kind = "interrupt" => n = 2)
         /\ Len(frames) # 1 /\ frames[2].kind = "interrupt" => Level(frames[1])
<1>1. Base(frames[1]) /\ Len(frames) \in {1, 2, 3}
  BY RunningIs
<1>2. Alone(frames, pie) \/ Twofold(frames, pie, ienable, ipending # {}) \/ Threefold(frames, pie, ienable)
  BY Zenon DEF IrqInv, Stack
<1>3. CASE Len(frames) = 1
  <2>1. \A n \in 2..Len(frames) : FALSE
    BY <1>3
  <2> QED  BY <1>1, <1>3, <2>1 DEF Base
<1>4. CASE Len(frames) = 2
  <2>1. Twofold(frames, pie, ienable, ipending # {})
    BY <1>2, <1>4 DEF Alone, Threefold
  <2>2. frames[2].kind # "program" /\ (frames[2].kind = "interrupt" => Level(frames[1]))
    BY <2>1 DEF Twofold, Entered, Excepted, Interrupted
  <2>3. \A n \in 2..Len(frames) : n = 2
    BY <1>4
  <2> QED  BY <1>1, <1>4, <2>2, <2>3 DEF Base
<1>5. CASE Len(frames) = 3
  <2>1. Threefold(frames, pie, ienable)
    BY <1>2, <1>5 DEF Alone, Twofold
  <2>2. Interrupted(frames[2], ienable, FALSE) /\ Level(frames[1])
        /\ (Entered(frames[3], frames[2], FALSE) \/ Excepted(frames[3], frames[2]))
    BY <2>1, Zenon DEF Threefold
  <2>3. frames[2].kind # "program" /\ frames[3].kind # "program" /\ frames[3].kind # "interrupt"
    BY <2>2 DEF Interrupted, Entered, Excepted
  <2>4. \A n \in 2..Len(frames) : n = 2 \/ n = 3
    BY <1>5
  <2> QED  BY <1>1, <1>5, <2>2, <2>3, <2>4 DEF Base
<1> QED  BY <1>1, <1>3, <1>4, <1>5

LEMMA IrqInvTypeOK ==
  ASSUME IrqInv
  PROVE  IrqTypeOK
<1>1. Handled(frames[1].code, alt_irq)
      /\ Masked(frames[1].code, frames[1].saved, alt_irq, ienable, alt_irq_active) /\ Others
  BY DEF IrqInv, CodeOrder
<1>2. alt_irq \in [Irqs -> [handler : Irqs \cup {NULL}, context : Irqs \cup {NULL}]]
  BY <1>1 DEF Handled, Tables
<1>3. Len(frames) >= 1 /\ \A n \in 1..Len(frames) : frames[n].kind = "program" <=> n = 1
  <2>1. /\ frames[1].kind = "program" /\ Len(frames) \in {1, 2, 3}
        /\ \A n \in 2..Len(frames) : frames[n].kind # "program"
    BY KindsAre
  <2>2. \A n \in 1..Len(frames) : n = 1 \/ n \in 2..Len(frames)
    BY <2>1
  <2>3. 1 \notin 2..Len(frames) /\ Len(frames) >= 1
    BY <2>1
  <2> QED  BY <2>1, <2>2, <2>3
<1> QED  BY <1>1, <1>2, <1>3 DEF IrqTypeOK, Others, Masked

LEMMA IrqInvOrderly ==
  ASSUME IrqInv
  PROVE  InterruptsOrderly
<1> DEFINE c == frames[1].code
           s == frames[1].saved
<1>1. /\ Base(frames[1]) /\ frames[1] \in Frames
      /\ CodeOrder(c, s, alt_irq, ienable, alt_irq_active, board, calls) /\ Program(c, board)
  BY RunningIs
<1>2. c \in Seq(Op) /\ Nests(c, Len(s), 0) /\ frames[1].kind = "program"
  BY <1>1, FrameIs DEF Base, Whole
<1>3. DispatchedRight
  BY LowestIs DEF DispatchedRight
<1>4. SectionsWhole
  <2>1. ASSUME NEW n \in 2..Len(frames), frames[n].kind = "interrupt", NEW m \in 1..n - 1
        PROVE  frames[m].saved = <<>> /\ frames[m].kind # "interrupt"
    <3>1. n = 2 /\ Len(frames) # 1
      BY <2>1, KindsAre
    <3>2. Level(frames[1])
      BY <2>1, <3>1, KindsAre
    <3>3. m = 1
      BY <3>1
    <3> QED  BY <1>2, <3>2, <3>3 DEF Level
  <2> QED  BY <2>1 DEF SectionsWhole
<1>5. ASSUME s = <<>>, SwitchedOn(c) PROVE ienable = alt_irq_active
  <2>1. Nests(c, 0, 0)
    <3>1. Len(s) = 0
      BY <1>5
    <3> QED  BY <1>2, <3>1
  <2> HIDE DEF c, s
  <2> QED  BY <1>1, <1>2, <1>5, <2>1, EnabledIs
<1>6. InterruptsOn
  <2>1. SUFFICES ASSUME Len(frames) = 1, s = <<>>, "clock" \in board PROVE pie /\ ienable = alt_irq_active
    BY DEF InterruptsOn
  <2>2. SwitchedOn(c)
    BY <1>1, <2>1 DEF Program, SwitchedOn
  <2>3. Level(frames[1])
    BY <2>1, <2>2 DEF Level
  <2>4. Says(pie, Level(frames[1]))
    <3>1. Alone(frames, pie) \/ Twofold(frames, pie, ienable, ipending # {}) \/ Threefold(frames, pie, ienable)
      BY Zenon DEF IrqInv, Stack
    <3> QED  BY <2>1, <3>1 DEF Alone, Twofold, Threefold
  <2> QED  BY <1>5, <2>1, <2>2, <2>3, <2>4 DEF Says
<1>7. MainReady
  <2>1. SUFFICES ASSUME AtOp("main"), calls = 0, c = <<Do("main"), Do("spin")>>
                 PROVE  /\ \A irq \in Irqs : alt_irq[irq] = [handler |-> irq, context |-> irq]
                        /\ ienable = Irqs /\ board = {"clock", "alarm", "console", "stdio"}
    BY DEF MainReady
  <2>2. Len(c) = 2 /\ c[1] = Do("main") /\ c[2] = Do("spin")
    BY <2>1
  <2>3. c # <<>> /\ c[1].op = "main" /\ c[2].op = "spin" /\ \A k \in 1..Len(c) : k = 1 \/ k = 2
    BY <2>1, <2>2 DEF Do
  <2>4. s = <<>>
    <3>1. Stands("main", Len(s))
      BY <1>2, <2>3, NestsTail
    <3>2. Len(s) = 0
      BY <3>1 DEF Stands, Outside
    <3>3. s \in Seq(BOOLEAN)
      BY <1>1, FrameIs
    <3> QED  BY <3>2, <3>3
  <2>5. SwitchedOn(c)
    BY <2>3 DEF SwitchedOn
  <2>6. ASSUME NEW x, Has(c, x) PROVE x.op \in {"main", "spin"}
    BY <2>3, <2>6 DEF Has
  <2>7. StillAhead(c, alt_irq, alt_irq_active, board)
    BY <1>1, <2>1 DEF CodeOrder, StartOrder
  <2>8. \A irq \in Irqs : alt_irq[irq] = Entry(irq, irq) /\ irq \in alt_irq_active
    <3> TAKE irq \in Irqs
    <3>1. ~Has(c, DoTo("context", irq, irq)) /\ ~Has(c, DoTo("active", irq, 1))
      BY <2>6 DEF DoTo
    <3> QED  BY <2>7, <3>1 DEF StillAhead
  <2>9. {"clock", "alarm", "console", "stdio"} \subseteq board
    <3>1. /\ ~Has(c, Do("sysclk_init")) /\ ~Has(c, Do("alarm_start")) /\ ~Has(c, Do("dev_reg"))
          /\ ~Has(c, Do("io_redirect"))
      BY <2>6 DEF Do
    <3> QED  BY <2>7, <3>1 DEF StillAhead
  <2>10. ienable = alt_irq_active /\ alt_irq_active \subseteq Irqs /\ board \subseteq {"clock", "alarm", "console", "stdio"}
    <3>1. Masked(c, s, alt_irq, ienable, alt_irq_active) /\ Others
      BY <1>1 DEF CodeOrder, IrqInv
    <3> QED  BY <1>5, <2>4, <2>5, <3>1 DEF Masked, Others
  <2> QED  BY <2>8, <2>9, <2>10 DEF Entry
<1> QED  BY <1>3, <1>4, <1>6, <1>7 DEF InterruptsOrderly

(* The start of the program and its interrupts: each line the dispatcher   *)
(* takes has its handler, an interrupt comes in no section, interrupts are *)
(* on out of them, and all is set up when main begins, whatever main calls *)
(* and however often the devices ask.                                      *)
THEOREM InterruptsTheorem == IrqSpec => [](IrqTypeOK /\ InterruptsOrderly)
<1>1. IrqInit => IrqInv
  BY InterruptsAssumption, IrqInitInv
<1>2. IrqInv /\ [IrqNext]_irqVars => IrqInv'
  BY InterruptsAssumption, IrqNextInv
<1>3. IrqInv => IrqTypeOK /\ InterruptsOrderly
  BY IrqInvTypeOK, IrqInvOrderly
<1> QED  BY <1>1, <1>2, <1>3, PTL DEF IrqSpec
-----------------------------------------------------------------------------
(* The sum over the fields of a register, of which there is one for each   *)
(* number of fields, adds them one by one.                                 *)
Sums(fields, top, sum) ==
  sum = [n \in 0 .. top |-> IF n = 0 THEN 0 ELSE sum[n - 1] + fields[n][2] * 2 ^ fields[n][1]]

LEMMA SumsExist == ASSUME NEW fields, NEW top \in Nat PROVE \E sum : Sums(fields, top, sum)
<1> DEFINE bad == {m \in Nat : ~\E sum : Sums(fields, m, sum)}
<1>1. ASSUME bad # {} PROVE FALSE
  <2>1. PICK m \in bad : \A y \in bad : m <= y
    BY <1>1, MinNat
  <2>2. m # 0
    <3> DEFINE one == [n \in 0 .. 0 |-> 0]
    <3>1. Sums(fields, 0, one)
      BY DEF Sums
    <3>2. QED  BY <3>1
  <2>3. m - 1 \in Nat /\ m - 1 \notin bad
    BY <2>1, <2>2
  <2>4. PICK sum : Sums(fields, m - 1, sum)
    BY <2>3
  <2> DEFINE longer == [n \in 0 .. m |-> IF n = m THEN sum[m - 1] + fields[m][2] * 2 ^ fields[m][1] ELSE sum[n]]
  <2>5. ASSUME NEW n \in 0 .. m
        PROVE  longer[n] = IF n = 0 THEN 0 ELSE longer[n - 1] + fields[n][2] * 2 ^ fields[n][1]
    <3>1. CASE n = m
      <4>1. longer[n - 1] = sum[m - 1] /\ n - 1 \in 0 .. m /\ n - 1 # m
        BY <2>2, <3>1
      <4>2. QED  BY <2>2, <3>1, <4>1
    <3>2. CASE n # m
      <4>1. n \in 0 .. m - 1 /\ sum[n] = IF n = 0 THEN 0 ELSE sum[n - 1] + fields[n][2] * 2 ^ fields[n][1]
        BY <2>4, <3>2 DEF Sums
      <4>2. n # 0 => n - 1 \in 0 .. m /\ n - 1 # m
        BY <4>1
      <4>3. QED  BY <3>2, <4>1, <4>2
    <3>3. QED  BY <3>1, <3>2
  <2>6. Sums(fields, m, longer)
    <3>1. longer = [n \in 0 .. m |-> longer[n]]
      OBVIOUS
    <3> HIDE DEF longer
    <3>2. QED  BY <2>5, <3>1 DEF Sums
  <2> HIDE DEF longer
  <2>7. QED  BY <2>1, <2>6
<1>2. QED  BY <1>1

LEMMA FieldsAre == ASSUME NEW fields, NEW k \in Nat, Len(fields) = k
                   PROVE \E sum : Sums(fields, k, sum) /\ Fields(fields) = sum[k]
<1> DEFINE sum == CHOOSE s : Sums(fields, k, s)
<1>1. Sums(fields, k, sum)
  BY SumsExist
<1>2. Fields(fields) = sum[k]
  BY DEF Fields, Sums
<1>3. QED  BY <1>1, <1>2

LEMMA OneField ==
  ASSUME NEW s, NEW v PROVE Fields(<<<<s, v>>>>) = 0 + v * 2 ^ s
<1> DEFINE fields == <<<<s, v>>>>
<1>1. Len(fields) = 1 /\ fields[1][1] = s /\ fields[1][2] = v
  OBVIOUS
<1> HIDE DEF fields
<1>2. PICK sum : Sums(fields, 1, sum) /\ Fields(fields) = sum[1]
  BY <1>1, FieldsAre
<1>3. sum[0] = 0 /\ sum[1] = sum[0] + v * 2 ^ s
  BY <1>1, <1>2 DEF Sums
<1>4. QED  BY <1>2, <1>3 DEF fields

LEMMA TwoFields ==
  ASSUME NEW s, NEW v, NEW t, NEW w PROVE Fields(<<<<s, v>>, <<t, w>>>>) = (0 + v * 2 ^ s) + w * 2 ^ t
<1> DEFINE fields == <<<<s, v>>, <<t, w>>>>
<1>1. Len(fields) = 2 /\ fields[1][1] = s /\ fields[1][2] = v /\ fields[2][1] = t /\ fields[2][2] = w
  OBVIOUS
<1> HIDE DEF fields
<1>2. PICK sum : Sums(fields, 2, sum) /\ Fields(fields) = sum[2]
  BY <1>1, FieldsAre
<1>3. sum[0] = 0 /\ sum[1] = sum[0] + v * 2 ^ s /\ sum[2] = sum[1] + w * 2 ^ t
  BY <1>1, <1>2 DEF Sums
<1>4. QED  BY <1>2, <1>3 DEF fields

(* Powers as the provers need them: of a number that is known to be this.  *)
LEMMA Powers ==
  ASSUME NEW s
  PROVE  /\ (s = 0 => 2 ^ s = 1) /\ (s = 1 => 2 ^ s = 2) /\ (s = 2 => 2 ^ s = 4)
         /\ (s = 3 => 2 ^ s = 8) /\ (s = 4 => 2 ^ s = 16) /\ (s = 5 => 2 ^ s = 32)
         /\ (s = 6 => 2 ^ s = 64) /\ (s = 7 => 2 ^ s = 128) /\ (s = 8 => 2 ^ s = 256)
         /\ (s = 9 => 2 ^ s = 512) /\ (s = 10 => 2 ^ s = 1024) /\ (s = 11 => 2 ^ s = 2048)
         /\ (s = 12 => 2 ^ s = 4096) /\ (s = 13 => 2 ^ s = 8192) /\ (s = 14 => 2 ^ s = 16384)
<1>1. ASSUME s = 0 PROVE 2 ^ s = 1
  BY <1>1, SMT
<1>2. ASSUME s = 1 PROVE 2 ^ s = 2
  BY <1>2, SMT
<1>3. ASSUME s = 2 PROVE 2 ^ s = 4
  BY <1>3, SMT
<1>4. ASSUME s = 3 PROVE 2 ^ s = 8
  BY <1>4, SMT
<1>5. ASSUME s = 4 PROVE 2 ^ s = 16
  BY <1>5, SMT
<1>6. ASSUME s = 5 PROVE 2 ^ s = 32
  BY <1>6, SMT
<1>7. ASSUME s = 6 PROVE 2 ^ s = 64
  BY <1>7, SMT
<1>8. ASSUME s = 7 PROVE 2 ^ s = 128
  BY <1>8, SMT
<1>9. ASSUME s = 8 PROVE 2 ^ s = 256
  BY <1>9, SMT
<1>10. ASSUME s = 9 PROVE 2 ^ s = 512
  BY <1>10, SMT
<1>11. ASSUME s = 10 PROVE 2 ^ s = 1024
  BY <1>11, SMT
<1>12. ASSUME s = 11 PROVE 2 ^ s = 2048
  BY <1>12, SMT
<1>13. ASSUME s = 12 PROVE 2 ^ s = 4096
  BY <1>13, SMT
<1>14. ASSUME s = 13 PROVE 2 ^ s = 8192
  BY <1>14, SMT
<1>15. ASSUME s = 14 PROVE 2 ^ s = 16384
  BY <1>15, SMT
<1>16. QED  BY <1>1, <1>2, <1>3, <1>4, <1>5, <1>6, <1>7, <1>8, <1>9, <1>10, <1>11, <1>12, <1>13, <1>14, <1>15, SMT

LEMMA ValuesAre ==
  /\ PLL_CTRL = 29595 /\ ANA_POWER = 17918 /\ REF_CTRL = 78 /\ DIG_POWER = 99 /\ CLK_CTRL = 7
  /\ I2S_CTRL = 128 /\ ANA_CTRL = 4 /\ SSS_CTRL = 16 /\ ANA_HP_CTRL = 10280
<1>1. I2S_CTRL = 128 /\ ANA_CTRL = 4
  BY OneField, Powers, SMT DEF I2S_CTRL, ANA_CTRL
<1>2. CLK_CTRL = 7 /\ SSS_CTRL = 16 /\ ANA_HP_CTRL = 10280
  BY TwoFields, Powers, SMT DEF CLK_CTRL, SSS_CTRL, ANA_HP_CTRL
<1>3. REF_CTRL = 78
  BY TwoFields, Powers, SMT DEF REF_CTRL
<1>4. PLL_CTRL = 29595
  BY TwoFields, Powers, SMT DEF PLL_CTRL
<1>5. DIG_POWER = 99
  <2> DEFINE fields == <<<<6, 1>>, <<5, 1>>, <<1, 1>>, <<0, 1>>>>
  <2>1. /\ Len(fields) = 4 /\ fields[1][1] = 6 /\ fields[2][1] = 5 /\ fields[3][1] = 1 /\ fields[4][1] = 0
        /\ fields[1][2] = 1 /\ fields[2][2] = 1 /\ fields[3][2] = 1 /\ fields[4][2] = 1
    OBVIOUS
  <2>2. DIG_POWER = Fields(fields)
    BY DEF DIG_POWER
  <2> HIDE DEF fields
  <2>3. PICK sum : Sums(fields, 4, sum) /\ Fields(fields) = sum[4]
    <3>1. 4 \in Nat
      OBVIOUS
    <3>2. Len(fields) = 4
      BY <2>1, Zenon
    <3>3. QED  BY <3>1, <3>2, FieldsAre, Zenon
  <2>4. sum[0] = 0 /\ \A n \in 1 .. 4 : sum[n] = sum[n - 1] + fields[n][2] * 2 ^ fields[n][1]
    BY <2>3 DEF Sums
  <2>5. sum[1] = 64 /\ sum[2] = 96
    BY <2>1, <2>4, Powers, SMT
  <2>6. sum[3] = 98
    BY <2>1, <2>4, <2>5, Powers, SMT
  <2>7. sum[4] = 99
    <3>1. 4 \in 1 .. 4 /\ 4 - 1 = 3
      OBVIOUS
    <3>2. sum[4] = sum[4 - 1] + fields[4][2] * 2 ^ fields[4][1]
      BY <2>4, <3>1, Zenon
    <3>3. 2 ^ fields[4][1] = 1
      <4>1. fields[4][1] = 0
        BY <2>1
      <4>2. QED  BY <4>1, Powers, SMT
    <3>4. QED  BY <2>1, <2>6, <3>1, <3>2, <3>3, SMT
  <2>8. QED  BY <2>2, <2>3, <2>7
<1>6. ANA_POWER = 17918
  <2> DEFINE fields == [n \in 1 .. 10 |-> <<<<14, 10, 8, 7, 6, 5, 4, 3, 2, 1>>[n], 1>>]
  <2>1. Len(fields) = 10
    <3>1. DOMAIN fields = 1 .. 10
      OBVIOUS
    <3>2. fields \in Seq({<<14, 1>>, <<10, 1>>, <<8, 1>>, <<7, 1>>, <<6, 1>>, <<5, 1>>, <<4, 1>>, <<3, 1>>, <<2, 1>>, <<1, 1>>})
      OBVIOUS
    <3>3. QED  BY <3>1, <3>2
  <2>2. /\ fields[1] = <<14, 1>> /\ fields[2] = <<10, 1>> /\ fields[3] = <<8, 1>> /\ fields[4] = <<7, 1>>
        /\ fields[5] = <<6, 1>> /\ fields[6] = <<5, 1>> /\ fields[7] = <<4, 1>> /\ fields[8] = <<3, 1>>
        /\ fields[9] = <<2, 1>> /\ fields[10] = <<1, 1>>
    OBVIOUS
  <2>3. ANA_POWER = Fields(fields)
    BY DEF ANA_POWER
  <2> HIDE DEF fields
  <2>4. PICK sum : Sums(fields, 10, sum) /\ Fields(fields) = sum[10]
    <3>1. 10 \in Nat
      OBVIOUS
    <3>2. QED  BY <2>1, <3>1, FieldsAre, Zenon
  <2>5. \A n \in 1 .. 10 : sum[n] = sum[n - 1] + fields[n][2] * 2 ^ fields[n][1]
    BY <2>4 DEF Sums
  <2>6. sum[0] = 0 /\ sum[1] = 16384 /\ sum[2] = 17408 /\ sum[3] = 17664 /\ sum[4] = 17792 /\ sum[5] = 17856
    BY <2>2, <2>4, Powers, SMT DEF Sums
  <2>7. sum[6] = 17888 /\ sum[7] = 17904 /\ sum[8] = 17912 /\ sum[9] = 17916 /\ sum[10] = 17918
    BY <2>2, <2>5, <2>6, Powers, SMT
  <2>8. QED  BY <2>3, <2>4, <2>7, SMT
<1>7. QED  BY <1>1, <1>2, <1>3, <1>4, <1>5, <1>6, SMT

(* What main does, and where in it a register is written.                  *)
Plan == setup_i2c \o main
WriteAt == {3, 5, 7, 9, 11, 13, 15, 17, 20, 23}
SleepAt == 26 .. 31
WaitUs == 2000000
StepRecords == [op : {"open", "read", "write", "led", "usleep"}, reg : Nat, value : Nat]

LEMMA Rests ==
  ASSUME NEW S, NEW s \in Seq(S), NEW n, Len(s) = n, NEW k \in 1 .. n
  PROVE  /\ SubSeq(s, k, n) \in Seq(S) /\ Len(SubSeq(s, k, n)) = (n - k) + 1
         /\ \A i \in 1 .. (n - k) + 1 : SubSeq(s, k, n)[i] = s[(k + i) - 1]
<1>1. k \in Int /\ n \in Int /\ k <= n /\ \A i \in k .. n : s[i] \in S
  OBVIOUS
<1>2. /\ SubSeq(s, k, n) \in Seq(S) /\ Len(SubSeq(s, k, n)) = (IF k <= n THEN n - k + 1 ELSE 0)
      /\ \A i \in 1 .. n - k + 1 : SubSeq(s, k, n)[i] = s[k + i - 1]
  BY <1>1, SubSeqProperties
<1>3. n - k + 1 = (n - k) + 1 /\ \A i \in Int : k + i - 1 = (k + i) - 1
  BY <1>1
<1>4. \A i \in 1 .. (n - k) + 1 : i \in Int /\ i \in 1 .. n - k + 1
  BY <1>1
<1>5. ASSUME NEW i \in 1 .. (n - k) + 1 PROVE SubSeq(s, k, n)[i] = s[(k + i) - 1]
  <2>1. SubSeq(s, k, n)[i] = s[k + i - 1]
    BY <1>2, <1>4
  <2>2. k + i - 1 = (k + i) - 1
    BY <1>1
  <2>3. QED  BY <2>1, <2>2
<1>6. QED  BY <1>1, <1>2, <1>3, <1>5

LEMMA RestGoesOn ==
  ASSUME NEW S, NEW s \in Seq(S), NEW n, Len(s) = n, NEW k \in 1 .. n
  PROVE  /\ SubSeq(s, k, n) # <<>> /\ Head(SubSeq(s, k, n)) = s[k]
         /\ Tail(SubSeq(s, k, n)) = SubSeq(s, k + 1, n)
<1> DEFINE rest == SubSeq(s, k, n)
<1>1. /\ rest \in Seq(S) /\ Len(rest) = (n - k) + 1 /\ k \in Int /\ n \in Int /\ k <= n
      /\ \A i \in 1 .. (n - k) + 1 : rest[i] = s[(k + i) - 1]
  BY Rests
<1> HIDE DEF rest
<1>2. rest # <<>> /\ Len(rest) > 0 /\ Head(rest) = rest[1]
  BY <1>1
<1>3. rest[1] = s[k]
  <2>1. 1 \in 1 .. (n - k) + 1 /\ (k + 1) - 1 = k
    BY <1>1
  <2>2. QED  BY <1>1, <2>1
<1>4. /\ Tail(rest) \in Seq(S) /\ Len(Tail(rest)) = n - k
      /\ \A i \in 1 .. n - k : Tail(rest)[i] = s[k + i]
  <2>1. Tail(rest) \in Seq(S) /\ Len(Tail(rest)) = Len(rest) - 1 /\ \A i \in 1 .. Len(Tail(rest)) : Tail(rest)[i] = rest[i + 1]
    BY <1>1, <1>2
  <2>2. \A i \in 1 .. n - k : i + 1 \in 1 .. (n - k) + 1 /\ (k + (i + 1)) - 1 = k + i
    BY <1>1
  <2>3. Len(rest) - 1 = n - k
    BY <1>1
  <2>4. ASSUME NEW i \in 1 .. n - k PROVE Tail(rest)[i] = s[k + i]
    BY <1>1, <2>1, <2>2, <2>3
  <2>5. QED  BY <2>1, <2>3, <2>4
<1>5. Tail(rest) = SubSeq(s, k + 1, n)
  <2>1. CASE k = n
    <3>1. SubSeq(s, k + 1, n) = <<>>
      BY <1>1, <2>1, SubSeqEmpty
    <3>2. Tail(rest) = <<>>
      <4>1. Len(Tail(rest)) = 0
        BY <1>1, <1>4, <2>1
      <4>2. QED  BY <1>4, <4>1, EmptySeq
    <3>3. QED  BY <3>1, <3>2
  <2>2. CASE k # n
    <3> DEFINE after == SubSeq(s, k + 1, n)
    <3>1. k + 1 \in 1 .. n
      BY <1>1, <2>2
    <3>2. /\ after \in Seq(S) /\ Len(after) = (n - (k + 1)) + 1
          /\ \A i \in 1 .. (n - (k + 1)) + 1 : after[i] = s[((k + 1) + i) - 1]
      BY <3>1, Rests
    <3> HIDE DEF after
    <3>3. (n - (k + 1)) + 1 = n - k /\ \A i \in 1 .. n - k : ((k + 1) + i) - 1 = k + i
      BY <1>1
    <3>4. Len(after) = n - k /\ \A i \in 1 .. n - k : after[i] = s[k + i]
      BY <3>2, <3>3
    <3>5. Tail(rest) = after
      BY <1>4, <3>2, <3>4
    <3>6. QED  BY <3>5 DEF after
  <2>3. QED  BY <2>1, <2>2
<1>6. QED  BY <1>2, <1>3, <1>5 DEF rest

LEMMA PlanIs ==
  /\ Plan \in Seq(StepRecords) /\ Len(Plan) = 33
  /\ \A i \in 1 .. 33 : Plan[i] = IF i <= 23 THEN setup_i2c[i] ELSE main[i - 23]
  /\ main = SubSeq(Plan, 24, 33)
<1>1. setup_i2c \in Seq(StepRecords) /\ Len(setup_i2c) = 23
  BY ValuesAre DEF setup_i2c, StepRecords, Opens, Reads, Writes, CHIP_ID, CHIP_DIG_POWER, CHIP_CLK_CTRL, CHIP_I2S_CTRL,
     CHIP_SSS_CTRL, CHIP_ADCDAC_CTRL, CHIP_PAD_STRENGTH, CHIP_ANA_HP_CTRL, CHIP_ANA_CTRL, CHIP_REF_CTRL, CHIP_ANA_POWER,
     CHIP_PLL_CTRL
<1>2. main \in Seq(StepRecords) /\ Len(main) = 10
  BY SMT DEF main, StepRecords, Lights, Sleeps
<1>3. /\ Plan \in Seq(StepRecords) /\ Len(Plan) = 33
      /\ \A i \in 1 .. 33 : Plan[i] = IF i <= 23 THEN setup_i2c[i] ELSE main[i - 23]
  <2>1. /\ setup_i2c \o main \in Seq(StepRecords) /\ Len(setup_i2c \o main) = Len(setup_i2c) + Len(main)
        /\ \A i \in 1 .. Len(setup_i2c) + Len(main) :
             (setup_i2c \o main)[i] = IF i <= Len(setup_i2c) THEN setup_i2c[i] ELSE main[i - Len(setup_i2c)]
    <3>1. setup_i2c \in Seq(StepRecords) /\ main \in Seq(StepRecords)
      BY <1>1, <1>2, Zenon

    <3>2. QED  BY <3>1, ConcatProperties
  <2>2. Len(setup_i2c) + Len(main) = 33
    BY <1>1, <1>2
  <2>3. QED  BY <1>1, <2>1, <2>2, Zenon DEF Plan
<1>4. main = SubSeq(Plan, 24, 33)
  <2>1. /\ SubSeq(Plan, 24, 33) \in Seq(StepRecords) /\ Len(SubSeq(Plan, 24, 33)) = (33 - 24) + 1
        /\ \A i \in 1 .. (33 - 24) + 1 : SubSeq(Plan, 24, 33)[i] = Plan[(24 + i) - 1]
    <3>1. ASSUME NEW k, NEW n, k = 24, n = 33
          PROVE  /\ SubSeq(Plan, k, n) \in Seq(StepRecords) /\ Len(SubSeq(Plan, k, n)) = (n - k) + 1
                 /\ \A i \in 1 .. (n - k) + 1 : SubSeq(Plan, k, n)[i] = Plan[(k + i) - 1]
      <4>1. k \in 1 .. n /\ Len(Plan) = n /\ Plan \in Seq(StepRecords)
        BY <1>3, <3>1
      <4>2. QED  BY <4>1, Rests
    <3>2. QED  BY <3>1
  <2>2. ASSUME NEW i \in 1 .. 10 PROVE SubSeq(Plan, 24, 33)[i] = main[i]
    <3>1. (24 + i) - 1 \in 1 .. 33 /\ ~((24 + i) - 1 <= 23) /\ ((24 + i) - 1) - 23 = i /\ i \in 1 .. (33 - 24) + 1
      OBVIOUS
    <3>2. Plan[(24 + i) - 1] = main[((24 + i) - 1) - 23]
      BY <1>3, <3>1, Zenon
    <3>3. QED  BY <2>1, <3>1, <3>2
  <2>3. (33 - 24) + 1 = 10
    OBVIOUS
  <2> DEFINE rest == SubSeq(Plan, 24, 33)
  <2>4. rest \in Seq(StepRecords) /\ Len(rest) = 10 /\ \A i \in 1 .. 10 : rest[i] = main[i]
    BY <2>1, <2>2, <2>3
  <2> HIDE DEF rest
  <2>5. main = rest
    BY <1>2, <2>4
  <2>6. QED  BY <2>5 DEF rest
<1>5. QED  BY <1>3, <1>4

LEMMA StepsAre ==
  /\ \A i \in 1 .. 33 : Plan[i].op = "open" => i = 1
  /\ \A i \in 1 .. 33 : Plan[i].op = "write" <=> i \in WriteAt
  /\ \A i \in 1 .. 33 : Plan[i].op = "usleep" <=> i \in SleepAt
  /\ \A i \in 1 .. 33 : i \in SleepAt => Plan[i].value = WaitUs
  /\ \A i \in 1 .. 33 : Plan[i].op = "led" => i >= 24
<1> DEFINE s == setup_i2c
<1>1. /\ \A i \in 1 .. 33 : i <= 23 => Plan[i] = s[i]
      /\ \A i \in 1 .. 33 : i > 23 => Plan[i] = main[i - 23]
  BY PlanIs
<1>2. /\ s[1].op = "open"
      /\ \A i \in {2, 4, 6, 8, 10, 12, 14, 16, 18, 19, 21, 22} : s[i].op = "read"
      /\ \A i \in WriteAt : s[i].op = "write"
  BY DEF setup_i2c, WriteAt, Opens, Reads, Writes
<1>3. /\ \A i \in {1, 2, 9, 10} : main[i].op = "led"
      /\ \A i \in 3 .. 8 : main[i].op = "usleep" /\ main[i].value = WaitUs
  BY SMT DEF WaitUs, main, Lights, Sleeps
<1> HIDE DEF s
<1>4. \A i \in 1 .. 33 : i = 1 \/ i \in {2, 4, 6, 8, 10, 12, 14, 16, 18, 19, 21, 22} \/ i \in WriteAt
                         \/ i \in {24, 25, 32, 33} \/ i \in SleepAt
  BY DEF WriteAt, SleepAt
<1>5. QED  BY <1>1, <1>2, <1>3, <1>4, SMT DEF WriteAt, SleepAt

LEMMA WritesAre ==
  /\ Plan[3].reg = CHIP_PLL_CTRL /\ Plan[3].value = 29595
  /\ Plan[5].reg = CHIP_ANA_POWER /\ Plan[5].value = 17918
  /\ Plan[7].reg = CHIP_REF_CTRL /\ Plan[7].value = 78
  /\ Plan[9].reg = CHIP_DIG_POWER /\ Plan[9].value = 99
  /\ Plan[11].reg = CHIP_CLK_CTRL /\ Plan[11].value = 7
  /\ Plan[13].reg = CHIP_I2S_CTRL /\ Plan[13].value = 128
  /\ Plan[15].reg = CHIP_ANA_CTRL /\ Plan[15].value = 4
  /\ Plan[17].reg = CHIP_SSS_CTRL /\ Plan[17].value = 16
  /\ Plan[20].reg = CHIP_ADCDAC_CTRL /\ Plan[20].value = 0
  /\ Plan[23].reg = CHIP_ANA_HP_CTRL /\ Plan[23].value = 10280
<1>1. /\ Plan[3] = setup_i2c[3] /\ Plan[5] = setup_i2c[5] /\ Plan[7] = setup_i2c[7] /\ Plan[9] = setup_i2c[9]
      /\ Plan[11] = setup_i2c[11] /\ Plan[13] = setup_i2c[13] /\ Plan[15] = setup_i2c[15]
      /\ Plan[17] = setup_i2c[17] /\ Plan[20] = setup_i2c[20] /\ Plan[23] = setup_i2c[23]
  BY PlanIs
<1>2. /\ setup_i2c[3] = Writes(CHIP_PLL_CTRL, PLL_CTRL) /\ setup_i2c[5] = Writes(CHIP_ANA_POWER, ANA_POWER)
      /\ setup_i2c[7] = Writes(CHIP_REF_CTRL, REF_CTRL) /\ setup_i2c[9] = Writes(CHIP_DIG_POWER, DIG_POWER)
      /\ setup_i2c[11] = Writes(CHIP_CLK_CTRL, CLK_CTRL) /\ setup_i2c[13] = Writes(CHIP_I2S_CTRL, I2S_CTRL)
      /\ setup_i2c[15] = Writes(CHIP_ANA_CTRL, ANA_CTRL) /\ setup_i2c[17] = Writes(CHIP_SSS_CTRL, SSS_CTRL)
      /\ setup_i2c[20] = Writes(CHIP_ADCDAC_CTRL, 0) /\ setup_i2c[23] = Writes(CHIP_ANA_HP_CTRL, ANA_HP_CTRL)
  BY DEF setup_i2c
<1>3. ASSUME NEW r, NEW v PROVE Writes(r, v).reg = r /\ Writes(r, v).value = v
  BY DEF Writes
<1>4. QED  BY <1>1, <1>2, <1>3, ValuesAre, SMT

LEMMA WrittenOnce ==
  /\ \A i \in WriteAt : Plan[i].reg \in CodecRegisters /\ Plan[i].reg \in 0 .. 255 /\ Plan[i].value \in Words
  /\ \A i \in WriteAt, j \in WriteAt : Plan[i].reg = Plan[j].reg => i = j
<1>1. /\ CHIP_PLL_CTRL = 50 /\ CHIP_ANA_POWER = 48 /\ CHIP_REF_CTRL = 40 /\ CHIP_DIG_POWER = 2 /\ CHIP_CLK_CTRL = 4
      /\ CHIP_I2S_CTRL = 6 /\ CHIP_ANA_CTRL = 36 /\ CHIP_SSS_CTRL = 10 /\ CHIP_ADCDAC_CTRL = 14 /\ CHIP_ANA_HP_CTRL = 34
  BY DEF CHIP_DIG_POWER, CHIP_CLK_CTRL, CHIP_I2S_CTRL, CHIP_SSS_CTRL, CHIP_ADCDAC_CTRL, CHIP_ANA_HP_CTRL, CHIP_ANA_CTRL,
     CHIP_REF_CTRL, CHIP_ANA_POWER, CHIP_PLL_CTRL
<1>2. \A i \in WriteAt : Plan[i].value \in Words
  <2>1. /\ Plan[3].value \in Words /\ Plan[5].value \in Words /\ Plan[7].value \in Words /\ Plan[9].value \in Words
        /\ Plan[11].value \in Words /\ Plan[13].value \in Words /\ Plan[15].value \in Words
        /\ Plan[17].value \in Words /\ Plan[20].value \in Words /\ Plan[23].value \in Words
    BY WritesAre, SMT DEF Words
  <2>2. QED  BY <2>1, SMT DEF WriteAt
<1>3. \A i \in WriteAt : Plan[i].reg \in CodecRegisters /\ Plan[i].reg \in 0 .. 255
  BY <1>1, WritesAre, SMT DEF WriteAt, CodecRegisters
<1>4. \A i \in WriteAt, j \in WriteAt : Plan[i].reg = Plan[j].reg => i = j
  BY <1>1, WritesAre, SMT DEF WriteAt
<1>5. QED  BY <1>2, <1>3, <1>4

(* Two bytes are the word that they were made of, and the codec takes a    *)
(* write when it has all four.                                             *)
LEMMA WriteTakes ==
  ASSUME NEW reg \in CodecRegisters, reg \in 0 .. 255, NEW value \in Words, NEW n \in 0 .. 4
  PROVE  Taken(SubSeq(Bytes16(reg) \o Bytes16(value), 1, n))
           = IF n = 4 THEN [codec EXCEPT ![reg] = value] ELSE codec
<1> DEFINE bytes == Bytes16(reg) \o Bytes16(value)
<1>1. /\ bytes \in Seq(Int) /\ Len(bytes) = 4 /\ bytes[1] = reg \div 256 /\ bytes[2] = reg % 256
      /\ bytes[3] = value \div 256 /\ bytes[4] = value % 256
  BY SMT DEF Bytes16, Words
<1>2. /\ (reg \div 256) * 256 + (reg % 256) = reg /\ (value \div 256) * 256 + (value % 256) = value
  BY SMT DEF Words
<1> HIDE DEF bytes
<1>3. CASE n = 4
  <2>1. SubSeq(bytes, 1, 4) = bytes
    BY <1>1
  <2>2. Word16(bytes) = reg
    BY <1>1, <1>2 DEF Word16
  <2>3. SubSeq(bytes, 3, 4)[1] = bytes[3] /\ SubSeq(bytes, 3, 4)[2] = bytes[4]
    BY <1>1
  <2>4. Word16(SubSeq(bytes, 3, 4)) = value
    BY <1>1, <1>2, <2>3 DEF Word16
  <2>5. Taken(bytes) = [codec EXCEPT ![reg] = value]
    BY <1>1, <2>2, <2>4, Zenon DEF Taken
  <2>6. SubSeq(bytes, 1, n) = bytes
    BY <1>3, <2>1, Zenon
  <2>7. QED  BY <1>3, <2>5, <2>6, Zenon DEF bytes
<1>4. CASE n # 4
  <2>1. Len(SubSeq(bytes, 1, n)) = n
    BY <1>1
  <2>2. QED  BY <1>4, <2>1 DEF Taken, bytes
<1>5. QED  BY <1>3, <1>4

LEMMA ReadTakes == ASSUME NEW bytes, Len(bytes) # 4 PROVE Taken(bytes) = codec
BY DEF Taken

(* How many loops a wait is, and how many waits there have been.           *)
WaitLoops == 10000000
WaitsBy(k) == IF k <= 26 THEN 0 ELSE IF k >= 32 THEN 6 ELSE k - 26

(* Where main is: what it still does is the end of the plan, everything    *)
(* written so far is in the codec's registers, the value that makes the    *)
(* codec the I2S master is there only if step 13 put it there, and each    *)
(* wait has run its loops.                                                 *)
AtPlan(k) ==
  /\ todo = SubSeq(Plan, k, 33)
  /\ absent => k >= 24
  /\ ~absent => \A i \in WriteAt : i < k => codec[Plan[i].reg] = Plan[i].value
  /\ codec[CHIP_I2S_CTRL] = I2S_CTRL => ~absent /\ k >= 13
  /\ slept = WaitLoops * WaitsBy(k)

CodecInv ==
  /\ codec \in [CodecRegisters -> Words] /\ Len(buffer) \in {0, 2} /\ absent \in BOOLEAN
  /\ \E k \in 1 .. 34 : AtPlan(k)

LEMMA PlanGoes ==
  ASSUME NEW k \in 1 .. 34, todo = SubSeq(Plan, k, 33)
  PROVE  /\ todo = <<>> <=> k = 34
         /\ k <= 33 => Head(todo) = Plan[k] /\ Tail(todo) = SubSeq(Plan, k + 1, 33) /\ k + 1 \in 1 .. 34
         /\ Len(todo) = 34 - k
<1>1. CASE k = 34
  <2>1. todo = <<>>
    BY <1>1, SubSeqEmpty
  <2>2. QED  BY <1>1, <2>1, EmptySeq
<1>2. CASE k # 34
  <2>1. k \in 1 .. 33
    BY <1>2
  <2> DEFINE n == 33
  <2>2. Len(Plan) = n /\ Plan \in Seq(StepRecords) /\ todo = SubSeq(Plan, k, n) /\ k \in 1 .. n
    BY <2>1, PlanIs
  <2> HIDE DEF n
  <2>3. /\ SubSeq(Plan, k, n) # <<>> /\ Head(SubSeq(Plan, k, n)) = Plan[k]
           /\ Tail(SubSeq(Plan, k, n)) = SubSeq(Plan, k + 1, n)
    <3>1. Plan \in Seq(StepRecords) /\ Len(Plan) = n /\ k \in 1 .. n
      BY <2>2, Zenon
    <3>2. QED  BY <3>1, RestGoesOn, Zenon
  <2>4. Len(SubSeq(Plan, k, n)) = (n - k) + 1
    BY <2>2, Rests
  <2>5. n = 33 /\ k \in 1 .. 33
    BY <2>1 DEF n
  <2>6. todo # <<>> /\ k # 34 /\ Len(todo) = 34 - k
    <3>1. todo # <<>> /\ Len(todo) = (n - k) + 1
      BY <2>2, <2>3, <2>4
    <3>2. QED  BY <2>5, <3>1
  <2>7. Head(todo) = Plan[k] /\ Tail(todo) = SubSeq(Plan, k + 1, 33) /\ k + 1 \in 1 .. 34
    BY <2>2, <2>3, <2>5
  <2>8. QED  BY <2>6, <2>7
<1>3. QED  BY <1>1, <1>2

LEMMA WaitIs == ASSUME NEW us, us = WaitUs PROVE alt_busy_sleep(us) = WaitLoops
<1>1. LoopsPerUs = 5
  BY SMT DEF LoopsPerUs, cycles_per_loop, NIOS2, ALT_CPU
<1>2. INT_MAX \div LoopsPerUs = 429496729
  BY <1>1, SMT DEF INT_MAX
<1>3. us \div (INT_MAX \div LoopsPerUs) = 0 /\ us % (INT_MAX \div LoopsPerUs) = us
  BY <1>2, SMT DEF WaitUs
<1>4. us # 0 /\ us \in Int /\ INT_MAX \in Int /\ us * LoopsPerUs = WaitLoops
  BY <1>1, SMT DEF INT_MAX, WaitLoops, WaitUs
<1>5. alt_busy_sleep(us) = 0 * INT_MAX + (IF 0 > 0 /\ us = 0 THEN 2 ^ 32 ELSE us * LoopsPerUs)
  BY <1>3, SMT DEF alt_busy_sleep
<1>6. QED  BY <1>4, <1>5, SMT DEF WaitLoops

LEMMA LoopsAre == WaitLoops = 10000000 /\ WaitLoops \in Int /\ cycles_per_loop = 9 /\ ALT_CPU.freq = 50000000
BY SMT DEF WaitLoops, cycles_per_loop, NIOS2, ALT_CPU

LEMMA LoopsCount == WaitLoops \in Int
BY LoopsAre, SMT

LEMMA WaitsAre ==
  /\ \A k \in 1 .. 34 : WaitsBy(k) \in Nat /\ (k <= 26 => WaitsBy(k) = 0) /\ (k >= 32 => WaitsBy(k) = 6)
  /\ \A k \in 1 .. 33 : WaitsBy(k + 1) = WaitsBy(k) + (IF k \in SleepAt THEN 1 ELSE 0)
BY DEF WaitsBy, SleepAt

LEMMA CodecStart == CodecInit => CodecInv
<1> SUFFICES ASSUME CodecInit PROVE CodecInv
  OBVIOUS
<1>1. codec \in [CodecRegisters -> Words] /\ Len(buffer) \in {0, 2} /\ absent = FALSE
  <2>1. 0 \in Words /\ 65535 \in Words
    BY SMT DEF Words
  <2>2. codec \in [CodecRegisters -> Words]
    BY <2>1, SMT DEF CodecInit
  <2>3. buffer = <<>> /\ absent = FALSE
    BY SMT DEF CodecInit
  <2>4. Len(<<>>) = 0
    OBVIOUS
  <2>5. QED  BY <2>2, <2>3, <2>4, SMT
<1>2. codec[CHIP_I2S_CTRL] # I2S_CTRL
  <2>1. CHIP_I2S_CTRL \in CodecRegisters
    BY DEF CodecRegisters
  <2>2. codec[CHIP_I2S_CTRL] = 0 \/ codec[CHIP_I2S_CTRL] = 65535
    BY <2>1, SMT DEF CodecInit
  <2>3. QED  BY <2>2, ValuesAre, SMT
<1>3. AtPlan(1)
  <2>1. todo = SubSeq(Plan, 1, 33)
    <3>1. todo = Plan
      BY SMT DEF CodecInit, Plan
    <3> DEFINE n == 33
    <3>2. Plan \in Seq(StepRecords) /\ Len(Plan) = n
      BY PlanIs
    <3> HIDE DEF n
    <3>3. Plan = SubSeq(Plan, 1, n)
      BY <3>2
    <3>4. QED  BY <3>1, <3>3 DEF n
  <2>2. \A i \in WriteAt : ~(i < 1)
    BY DEF WriteAt
  <2>3. slept = WaitLoops * WaitsBy(1)
    BY LoopsAre, SMT DEF CodecInit, WaitsBy
  <2>4. QED  BY <1>1, <1>2, <2>1, <2>2, <2>3, Zenon DEF AtPlan
<1>4. absent \in BOOLEAN
  BY <1>1, Zenon
<1>5. 1 \in 1 .. 34
  OBVIOUS
<1>6. QED  BY <1>1, <1>3, <1>4, <1>5 DEF CodecInv

(* A transaction that is over, or is begun again: nothing is lost of what  *)
(* was written, and main goes on after it or does not.                     *)
LEMMA PlanHas ==
  ASSUME NEW k \in 1 .. 34, todo = SubSeq(Plan, k, 33), todo # <<>>
  PROVE  k \in 1 .. 33 /\ Head(todo) = Plan[k] /\ Tail(todo) = SubSeq(Plan, k + 1, 33)
<1>1. k # 34 /\ k \in 1 .. 34
  BY PlanGoes
<1>2. k \in 1 .. 33 /\ k <= 33
  BY <1>1
<1>3. QED  BY <1>2, PlanGoes

LEMMA TransactionKeeps ==
  ASSUME NEW k \in 1 .. 33, NEW ok \in BOOLEAN, todo = SubSeq(Plan, k, 33), Over(ok)
  PROVE  /\ Len(buffer') \in {0, 2}
         /\ (todo' = SubSeq(Plan, k, 33) /\ ~ok) \/ (todo' = SubSeq(Plan, k + 1, 33) /\ ok)
<1>1. k \in 1 .. 34 /\ k <= 33
  OBVIOUS
<1>2. Tail(todo) = SubSeq(Plan, k + 1, 33)
  BY <1>1, PlanGoes
<1>3. buffer' = <<>> /\ Len(<<>>) = 0
  BY DEF Over
<1>4. QED  BY <1>2, <1>3 DEF Over, Accepted

(* A step that writes nothing: main is where it was, or one step on.       *)
LEMMA PlanGoesOn ==
  ASSUME NEW k \in 1 .. 33, AtPlan(k), k \notin WriteAt, codec' = codec, absent' = absent,
         \/ todo' = SubSeq(Plan, k, 33) /\ slept' = slept
         \/ todo' = SubSeq(Plan, k + 1, 33) /\ slept' = slept + (IF k \in SleepAt THEN WaitLoops ELSE 0)
  PROVE  \E j \in 1 .. 34 : AtPlan(j)'
<1>1. CASE todo' = SubSeq(Plan, k, 33) /\ slept' = slept
  <2>1. AtPlan(k)'
    BY <1>1 DEF AtPlan
  <2>2. k \in 1 .. 34
    OBVIOUS
  <2>3. QED  BY <2>1, <2>2
<1>2. CASE todo' = SubSeq(Plan, k + 1, 33) /\ slept' = slept + (IF k \in SleepAt THEN WaitLoops ELSE 0)
  <2>1. \A i \in WriteAt : i < k + 1 => i < k
    BY DEF WriteAt
  <2>2. slept' = WaitLoops * WaitsBy(k + 1)
    <3>1. /\ slept = WaitLoops * WaitsBy(k) /\ WaitsBy(k + 1) = WaitsBy(k) + (IF k \in SleepAt THEN 1 ELSE 0)
          /\ WaitsBy(k) \in Int
      <4>1. k \in 1 .. 34
        OBVIOUS
      <4>2. slept = WaitLoops * WaitsBy(k)
        BY DEF AtPlan
      <4>3. WaitsBy(k) \in Int
        <5>1. WaitsBy(k) \in Nat
          BY <4>1, WaitsAre, Zenon
        <5>2. QED  BY <5>1
      <4>4. WaitsBy(k + 1) = WaitsBy(k) + (IF k \in SleepAt THEN 1 ELSE 0)
        BY WaitsAre
      <4>5. QED  BY <4>2, <4>3, <4>4
    <3>2. QED  BY <1>2, <3>1, LoopsAre, SMT
  <2>3. (absent => k + 1 >= 24) /\ (codec[CHIP_I2S_CTRL] = I2S_CTRL => ~absent /\ k + 1 >= 13)
    BY DEF AtPlan
  <2>4. ~absent => \A i \in WriteAt : i < k + 1 => codec[Plan[i].reg] = Plan[i].value
    BY <2>1 DEF AtPlan
  <2>5. AtPlan(k + 1)'
    BY <1>2, <2>2, <2>3, <2>4 DEF AtPlan
  <2>6. k + 1 \in 1 .. 34
    OBVIOUS
  <2>7. QED  BY <2>5, <2>6
<1>3. QED  BY <1>1, <1>2

LEMMA RegWrKeeps == CodecInv /\ SGTL5000_Reg_Wr => CodecInv'
<1> SUFFICES ASSUME CodecInv, SGTL5000_Reg_Wr PROVE CodecInv'
  OBVIOUS
<1>1. PICK k \in 1 .. 34 : AtPlan(k)
  BY DEF CodecInv
<1>2. /\ codec \in [CodecRegisters -> Words] /\ Len(buffer) \in {0, 2} /\ absent \in BOOLEAN
      /\ todo # <<>> /\ Head(todo).op = "write" /\ absent' = absent /\ slept' = slept
  BY DEF CodecInv, SGTL5000_Reg_Wr, AtStep
<1>3. k \in 1 .. 33 /\ Head(todo) = Plan[k] /\ k \in WriteAt /\ ~absent
  <2>1. todo = SubSeq(Plan, k, 33) /\ (absent => k >= 24)
    BY <1>1 DEF AtPlan
  <2>2. k \in 1 .. 33 /\ Head(todo) = Plan[k] /\ Tail(todo) = SubSeq(Plan, k + 1, 33)
    BY <1>1, <1>2, <2>1, PlanHas, Zenon
  <2>3. k \in 1 .. 33
    BY <2>2
  <2>4. Head(todo) = Plan[k]
    BY <2>2
  <2>5. k \in WriteAt
    BY <1>2, <2>3, <2>4, StepsAre
  <2>6. k < 24
    BY <2>5 DEF WriteAt
  <2>7. QED  BY <2>1, <2>3, <2>4, <2>5, <2>6
<1> DEFINE reg == Plan[k].reg
           value == Plan[k].value
<1>4. reg \in CodecRegisters /\ reg \in 0 .. 255 /\ value \in Words
  BY <1>3, WrittenOnce
<1>5. PICK n \in 0 .. 4, ok \in BOOLEAN :
        /\ ok => n = 4
        /\ codec' = Taken(SubSeq(Bytes16(reg) \o Bytes16(value), 1, n))
        /\ \/ Over(ok)
           \/ ~ok /\ begun + 1 < Attempts /\ begun' = begun + 1 /\ UNCHANGED <<todo, hung, buffer>>
  BY <1>3 DEF SGTL5000_Reg_Wr, Step
<1>6. codec' = IF n = 4 THEN [codec EXCEPT ![reg] = value] ELSE codec
  BY <1>4, <1>5, WriteTakes
<1>7. codec' \in [CodecRegisters -> Words]
  BY <1>2, <1>4, <1>6
<1>8. /\ Len(buffer') \in {0, 2}
      /\ todo' = SubSeq(Plan, k, 33) \/ (todo' = SubSeq(Plan, k + 1, 33) /\ n = 4)
  BY <1>1, <1>2, <1>3, <1>5, TransactionKeeps DEF AtPlan
<1>9. ASSUME NEW i \in WriteAt, i < k PROVE codec'[Plan[i].reg] = Plan[i].value
  <2>1. codec[Plan[i].reg] = Plan[i].value
    BY <1>1, <1>3, <1>9 DEF AtPlan
  <2>2. i # k
    BY <1>9
  <2>3. Plan[i].reg # reg
    BY <1>3, <2>2, WrittenOnce
  <2>4. QED  BY <1>2, <1>4, <1>6, <2>1, <2>3
<1>10. n = 4 => codec'[reg] = value
  BY <1>2, <1>4, <1>6
<1>11. codec'[CHIP_I2S_CTRL] = I2S_CTRL => k >= 13
  <2>1. CASE codec'[CHIP_I2S_CTRL] = codec[CHIP_I2S_CTRL]
    BY <1>1, <2>1 DEF AtPlan
  <2>2. CASE codec'[CHIP_I2S_CTRL] # codec[CHIP_I2S_CTRL]
    <3>1. reg = CHIP_I2S_CTRL
      BY <1>2, <1>4, <1>6, <2>2
    <3>2. 13 \in WriteAt /\ Plan[13].reg = CHIP_I2S_CTRL
      BY WritesAre DEF WriteAt
    <3>3. k = 13
      BY <1>3, <3>1, <3>2, WrittenOnce
    <3>4. QED  BY <3>3
  <2>3. QED  BY <2>1, <2>2
<1>12. slept = 0 /\ k <= 23
  <2>1. k <= 23 /\ k \in Int
    BY <1>3 DEF WriteAt
  <2>2. WaitsBy(k) = 0
    BY <2>1, WaitsAre
  <2>3. slept = WaitLoops * 0
    BY <1>1, <2>2 DEF AtPlan
  <2>4. QED  BY <2>1, <2>3, LoopsAre, SMT
<1>13. ASSUME NEW j \in {k, k + 1}, todo' = SubSeq(Plan, j, 33), j = k \/ n = 4 PROVE AtPlan(j)'
  <2>1. \A i \in WriteAt : i < j => codec'[Plan[i].reg] = Plan[i].value
    <3>1. ASSUME NEW i \in WriteAt, i < j PROVE codec'[Plan[i].reg] = Plan[i].value
      <4>1. i \in Int /\ k \in Int /\ (i < k \/ (i = k /\ n = 4))
        BY <1>3, <1>13, <3>1 DEF WriteAt
      <4>2. QED  BY <1>9, <1>10, <4>1
    <3>2. QED  BY <3>1
  <2>2. j >= k /\ j <= 26 /\ j \in Int
    BY <1>12
  <2>3. codec'[CHIP_I2S_CTRL] = I2S_CTRL => j >= 13
    BY <1>11, <2>2
  <2>4. slept' = WaitLoops * WaitsBy(j)
    <3>1. WaitsBy(j) = 0
      BY <2>2 DEF WaitsBy
    <3>2. QED  BY <1>2, <1>12, <3>1, LoopsAre, SMT
  <2>5. ~absent'
    BY <1>2, <1>3
  <2>6. QED  BY <1>13, <2>1, <2>3, <2>4, <2>5, Zenon DEF AtPlan
<1>14. \E j \in 1 .. 34 : AtPlan(j)'
  <2>1. CASE todo' = SubSeq(Plan, k, 33)
    <3>1. AtPlan(k)'
      BY <1>13, <2>1
    <3>2. QED  BY <3>1
  <2>2. CASE todo' = SubSeq(Plan, k + 1, 33) /\ n = 4
    <3>1. AtPlan(k + 1)'
      BY <1>13, <2>2
    <3>2. k + 1 \in 1 .. 34
      BY <1>3
    <3>3. QED  BY <3>1, <3>2
  <2>3. QED  BY <1>8, <2>1, <2>2
<1>15. QED  BY <1>2, <1>7, <1>8, <1>14 DEF CodecInv

LEMMA RegRdKeeps == CodecInv /\ SGTL5000_Reg_Rd => CodecInv'
<1> SUFFICES ASSUME CodecInv, SGTL5000_Reg_Rd PROVE CodecInv'
  OBVIOUS
<1>1. PICK k \in 1 .. 34 : AtPlan(k)
  BY DEF CodecInv
<1>2. /\ codec \in [CodecRegisters -> Words] /\ Len(buffer) \in {0, 2} /\ absent \in BOOLEAN
      /\ todo # <<>> /\ Head(todo).op = "read" /\ absent' = absent /\ slept' = slept
  BY DEF CodecInv, SGTL5000_Reg_Rd, AtStep
<1>3. k \in 1 .. 33 /\ Head(todo) = Plan[k] /\ k \notin WriteAt /\ k \notin SleepAt
  <2>1. todo = SubSeq(Plan, k, 33)
    BY <1>1 DEF AtPlan
  <2>2. k \in 1 .. 33 /\ Head(todo) = Plan[k] /\ Tail(todo) = SubSeq(Plan, k + 1, 33)
    BY <1>1, <1>2, <2>1, PlanHas, Zenon
  <2>3. k \in 1 .. 33
    BY <2>2
  <2>4. Head(todo) = Plan[k]
    BY <2>2
  <2>5. Plan[k].op # "write" /\ Plan[k].op # "usleep"
    BY <1>2, <2>4
  <2>6. QED  BY <2>3, <2>4, <2>5, StepsAre
<1>4. Len(Bytes16(Step.reg)) = 2 /\ Len(<<0, 0>>) = 2
  BY DEF Bytes16
<1>5. codec' = codec
  <2>1. codec' = Taken(IF begun = 0 THEN Bytes16(Step.reg) ELSE buffer)
    BY DEF SGTL5000_Reg_Rd
  <2>2. Len(IF begun = 0 THEN Bytes16(Step.reg) ELSE buffer) # 4
    <3>1. CASE begun = 0
      <4>1. (IF begun = 0 THEN Bytes16(Step.reg) ELSE buffer) = Bytes16(Step.reg)
        BY <3>1
      <4>2. QED  BY <1>4, <4>1
    <3>2. CASE begun # 0
      <4>1. (IF begun = 0 THEN Bytes16(Step.reg) ELSE buffer) = buffer
        BY <3>2
      <4>2. Len(buffer) # 4
        <5>1. Len(buffer) \in {0, 2}
          BY <1>2, Zenon
        <5>2. ASSUME NEW x \in {0, 2} PROVE x # 4
          OBVIOUS
        <5>3. QED  BY <5>1, <5>2, Zenon
      <4>3. QED  BY <4>1, <4>2, Zenon
    <3>3. QED  BY <3>1, <3>2
  <2>3. QED  BY <2>1, <2>2, ReadTakes
<1>6. Len(buffer') \in {0, 2} /\ (todo' = SubSeq(Plan, k, 33) \/ todo' = SubSeq(Plan, k + 1, 33))
  <2>1. todo = SubSeq(Plan, k, 33)
    BY <1>1 DEF AtPlan
  <2>2. ASSUME NEW ok \in BOOLEAN, Over(ok)
        PROVE  Len(buffer') \in {0, 2} /\ (todo' = SubSeq(Plan, k, 33) \/ todo' = SubSeq(Plan, k + 1, 33))
    BY <1>3, <2>1, <2>2, TransactionKeeps
  <2>3. ASSUME buffer' \in {Bytes16(Step.reg), <<0, 0>>}, todo' = todo
        PROVE  Len(buffer') \in {0, 2} /\ (todo' = SubSeq(Plan, k, 33) \/ todo' = SubSeq(Plan, k + 1, 33))
    BY <1>4, <2>1, <2>3
  <2>4. (\E ok \in BOOLEAN : Over(ok)) \/ (buffer' \in {Bytes16(Step.reg), <<0, 0>>} /\ todo' = todo)
    BY DEF SGTL5000_Reg_Rd
  <2>5. QED  BY <2>2, <2>3, <2>4
<1>7. \E j \in 1 .. 34 : AtPlan(j)'
  <2>1. /\ k \in 1 .. 33 /\ AtPlan(k) /\ k \notin WriteAt /\ codec' = codec /\ absent' = absent
        /\ \/ todo' = SubSeq(Plan, k, 33) /\ slept' = slept
           \/ todo' = SubSeq(Plan, k + 1, 33) /\ slept' = slept + (IF k \in SleepAt THEN WaitLoops ELSE 0)
    <3>1. slept \in Int
      <4>1. k \in 1 .. 34 /\ slept = WaitLoops * WaitsBy(k)
        BY <1>1 DEF AtPlan
      <4>2. WaitsBy(k) \in Int
        BY <4>1, WaitsAre
      <4>3. QED  BY <4>1, <4>2, LoopsCount
    <3>2. slept' = slept + (IF k \in SleepAt THEN WaitLoops ELSE 0)
      BY <1>2, <1>3, <3>1
    <3>3. QED  BY <1>1, <1>2, <1>3, <1>5, <1>6, <3>2
  <2>2. QED  BY <2>1, PlanGoesOn, Zenon
<1>8. QED  BY <1>2, <1>5, <1>6, <1>7 DEF CodecInv

LEMMA LedKeeps == CodecInv /\ setLED => CodecInv'
<1> SUFFICES ASSUME CodecInv, setLED PROVE CodecInv'
  OBVIOUS
<1>1. PICK k \in 1 .. 34 : AtPlan(k)
  BY DEF CodecInv
<1>2. /\ codec \in [CodecRegisters -> Words] /\ Len(buffer) \in {0, 2} /\ absent \in BOOLEAN
      /\ todo # <<>> /\ Head(todo).op = "led" /\ absent' = absent /\ slept' = slept /\ todo' = Tail(todo)
      /\ codec' = codec /\ buffer' = buffer
  BY DEF CodecInv, setLED, AtStep
<1>3. k \in 1 .. 33 /\ Head(todo) = Plan[k] /\ todo' = SubSeq(Plan, k + 1, 33)
  <2>1. todo = SubSeq(Plan, k, 33)
    BY <1>1 DEF AtPlan
  <2>2. k \in 1 .. 33 /\ Head(todo) = Plan[k] /\ Tail(todo) = SubSeq(Plan, k + 1, 33)
    BY <1>1, <1>2, <2>1, PlanHas, Zenon
  <2>3. QED  BY <1>2, <2>2
<1>4. k \notin WriteAt /\ k \notin SleepAt
  <2>1. Plan[k].op # "write" /\ Plan[k].op # "usleep"
    BY <1>2, <1>3
  <2>2. QED  BY <1>3, <2>1, StepsAre
<1>5. \E j \in 1 .. 34 : AtPlan(j)'
  <2>1. /\ k \in 1 .. 33 /\ AtPlan(k) /\ k \notin WriteAt /\ codec' = codec /\ absent' = absent
        /\ \/ todo' = SubSeq(Plan, k, 33) /\ slept' = slept
           \/ todo' = SubSeq(Plan, k + 1, 33) /\ slept' = slept + (IF k \in SleepAt THEN WaitLoops ELSE 0)
    <3>1. slept \in Int
      <4>1. k \in 1 .. 34 /\ slept = WaitLoops * WaitsBy(k)
        BY <1>1 DEF AtPlan
      <4>2. WaitsBy(k) \in Int
        BY <4>1, WaitsAre
      <4>3. QED  BY <4>1, <4>2, LoopsCount
    <3>2. slept' = slept + (IF k \in SleepAt THEN WaitLoops ELSE 0)
      BY <1>2, <1>4, <3>1
    <3>3. QED  BY <1>1, <1>2, <1>3, <1>4, <3>2
  <2>2. QED  BY <2>1, PlanGoesOn, Zenon
<1>6. QED  BY <1>2, <1>5 DEF CodecInv

LEMMA SleepKeeps == CodecInv /\ usleep => CodecInv'
<1> SUFFICES ASSUME CodecInv, usleep PROVE CodecInv'
  OBVIOUS
<1>1. PICK k \in 1 .. 34 : AtPlan(k)
  BY DEF CodecInv
<1>2. /\ codec \in [CodecRegisters -> Words] /\ Len(buffer) \in {0, 2} /\ absent \in BOOLEAN
      /\ todo # <<>> /\ Head(todo).op = "usleep" /\ absent' = absent /\ slept' = slept + alt_busy_sleep(Head(todo).value)
      /\ todo' = Tail(todo) /\ codec' = codec /\ buffer' = buffer
  BY DEF CodecInv, usleep, AtStep, Step
<1>3. k \in 1 .. 33 /\ Head(todo) = Plan[k] /\ todo' = SubSeq(Plan, k + 1, 33)
  <2>1. todo = SubSeq(Plan, k, 33)
    BY <1>1 DEF AtPlan
  <2>2. k \in 1 .. 33 /\ Head(todo) = Plan[k] /\ Tail(todo) = SubSeq(Plan, k + 1, 33)
    BY <1>1, <1>2, <2>1, PlanHas, Zenon
  <2>3. QED  BY <1>2, <2>2
<1>4. k \in SleepAt /\ k \notin WriteAt
  <2>1. Plan[k].op = "usleep"
    BY <1>2, <1>3
  <2>2. k \in SleepAt
    BY <1>3, <2>1, StepsAre
  <2>3. QED  BY <2>2 DEF SleepAt, WriteAt
<1>5. slept' = slept + WaitLoops
  <2>1. Plan[k].value = WaitUs
    BY <1>3, <1>4, StepsAre
  <2>2. QED  BY <1>2, <1>3, <2>1, WaitIs
<1>6. \E j \in 1 .. 34 : AtPlan(j)'
  <2>1. /\ k \in 1 .. 33 /\ AtPlan(k) /\ k \notin WriteAt /\ codec' = codec /\ absent' = absent
        /\ \/ todo' = SubSeq(Plan, k, 33) /\ slept' = slept
           \/ todo' = SubSeq(Plan, k + 1, 33) /\ slept' = slept + (IF k \in SleepAt THEN WaitLoops ELSE 0)
    BY <1>1, <1>2, <1>3, <1>4, <1>5
  <2>2. QED  BY <2>1, PlanGoesOn, Zenon
<1>7. QED  BY <1>2, <1>6 DEF CodecInv

LEMMA OpenKeeps == CodecInv /\ OpenI2c => CodecInv'
<1> SUFFICES ASSUME CodecInv, OpenI2c PROVE CodecInv'
  OBVIOUS
<1>1. PICK k \in 1 .. 34 : AtPlan(k)
  BY DEF CodecInv
<1>2. /\ codec \in [CodecRegisters -> Words] /\ Len(buffer) \in {0, 2} /\ absent \in BOOLEAN
      /\ todo # <<>> /\ Head(todo).op = "open" /\ slept' = slept /\ codec' = codec /\ buffer' = buffer
  BY DEF CodecInv, OpenI2c, AtStep
<1>3. k = 1 /\ k \in 1 .. 33 /\ Tail(todo) = SubSeq(Plan, 2, 33)
  <2>1. todo = SubSeq(Plan, k, 33)
    BY <1>1 DEF AtPlan
  <2>2. k \in 1 .. 33 /\ Head(todo) = Plan[k] /\ Tail(todo) = SubSeq(Plan, k + 1, 33)
    BY <1>1, <1>2, <2>1, PlanHas, Zenon
  <2>3. k \in 1 .. 33 /\ Head(todo) = Plan[k] /\ Tail(todo) = SubSeq(Plan, k + 1, 33)
    BY <2>2
  <2>4. k = 1 /\ k + 1 = 2
    <3>1. Plan[k].op = "open"
      BY <1>2, <2>3
    <3>2. k = 1
      BY <2>3, <3>1, StepsAre
    <3>3. QED  BY <3>2
  <2>5. QED  BY <2>3, <2>4
<1>4. PICK found \in Found : todo' = (IF found THEN Tail(todo) ELSE main) /\ absent' = ~found
  BY DEF OpenI2c
<1>5. ~absent /\ codec[CHIP_I2S_CTRL] # I2S_CTRL
  BY <1>1, <1>3 DEF AtPlan
<1>6. slept' = WaitLoops * 0 /\ WaitsBy(1) = 0 /\ WaitsBy(2) = 0 /\ WaitsBy(24) = 0
  <2>1. WaitsBy(1) = 0 /\ WaitsBy(2) = 0 /\ WaitsBy(24) = 0
    BY DEF WaitsBy
  <2>2. slept = WaitLoops * WaitsBy(1)
    BY <1>1, <1>3 DEF AtPlan
  <2>3. QED  BY <1>2, <2>1, <2>2
<1>7. CASE found
  <2>1. todo' = SubSeq(Plan, 2, 33) /\ ~absent' /\ absent' \in BOOLEAN
    BY <1>3, <1>4, <1>7
  <2>2. \A i \in WriteAt : ~(i < 2)
    BY DEF WriteAt
  <2>3. AtPlan(2)'
    <3>1. slept' = WaitLoops * WaitsBy(2) /\ codec'[CHIP_I2S_CTRL] # I2S_CTRL
      BY <1>2, <1>5, <1>6
    <3>2. QED  BY <2>1, <2>2, <3>1, Zenon DEF AtPlan
  <2>4. 2 \in 1 .. 34
    OBVIOUS
  <2>5. QED  BY <1>2, <2>1, <2>3, <2>4 DEF CodecInv
<1>8. CASE ~found
  <2>1. todo' = SubSeq(Plan, 24, 33) /\ absent'
    BY <1>4, <1>8, PlanIs
  <2>2. absent' \in BOOLEAN
    BY <1>4, <1>8, Zenon
  <2>3. AtPlan(24)'
    <3>1. slept' = WaitLoops * WaitsBy(24) /\ codec'[CHIP_I2S_CTRL] # I2S_CTRL /\ 24 >= 24
      BY <1>2, <1>5, <1>6
    <3>2. QED  BY <2>1, <3>1, Zenon DEF AtPlan
  <2>4. 24 \in 1 .. 34
    OBVIOUS
  <2>5. QED  BY <1>2, <2>2, <2>3, <2>4 DEF CodecInv
<1>9. QED  BY <1>7, <1>8

LEMMA CodecSteps == CodecInv /\ [CodecNext]_codecVars => CodecInv'
<1> SUFFICES ASSUME CodecInv, [CodecNext]_codecVars PROVE CodecInv'
  OBVIOUS
<1>1. CASE OpenI2c
  BY <1>1, OpenKeeps
<1>2. CASE SGTL5000_Reg_Wr
  BY <1>2, RegWrKeeps
<1>3. CASE SGTL5000_Reg_Rd
  BY <1>3, RegRdKeeps
<1>4. CASE setLED
  BY <1>4, LedKeeps
<1>5. CASE usleep
  BY <1>5, SleepKeeps
<1>6. CASE UNCHANGED codecVars
  <2>1. codec' = codec /\ buffer' = buffer /\ absent' = absent /\ todo' = todo /\ slept' = slept
    BY <1>6 DEF codecVars
  <2>2. ASSUME NEW k \in 1 .. 34, AtPlan(k) PROVE AtPlan(k)'
    BY <2>1, <2>2 DEF AtPlan
  <2>3. QED  BY <2>1, <2>2 DEF CodecInv
<1>7. QED  BY <1>1, <1>2, <1>3, <1>4, <1>5, <1>6 DEF CodecNext, Stays

(* The fields of the values that set the codec up.                         *)
LEMMA ClockFields ==
  /\ (29595 \div 2048) % 32 = 14 /\ (29595 \div 1) % 2048 = 923
  /\ (17918 \div 256) % 2 = 1 /\ (17918 \div 1024) % 2 = 1
  /\ (7 \div 1) % 4 = 3 /\ (7 \div 4) % 16 = 1
BY SMT

LEMMA SoundFields ==
  /\ (128 \div 128) % 2 = 1 /\ (128 \div 1) % 128 = 0
  /\ (4 \div 4) % 2 = 1 /\ (4 \div 64) % 2 = 0 /\ (4 \div 16) % 2 = 0 /\ (4 \div 1) % 2 = 0
  /\ (16 \div 1) % 4 = 0 /\ (16 \div 16) % 4 = 1
  /\ (99 \div 1) % 2 = 1 /\ (99 \div 2) % 2 = 1 /\ (99 \div 32) % 2 = 1 /\ (99 \div 64) % 2 = 1
  /\ (17918 \div 2) % 2 = 1 /\ (17918 \div 8) % 2 = 1 /\ (17918 \div 16) % 2 = 1 /\ (17918 \div 32) % 2 = 1
  /\ (17918 \div 128) % 2 = 1
  /\ (0 \div 4) % 4 = 0
BY SMT

LEMMA ClockedThen ==
  ASSUME codec[CHIP_PLL_CTRL] = 29595, codec[CHIP_ANA_POWER] = 17918, codec[CHIP_CLK_CTRL] = 7
  PROVE  Clocked
<1>1. /\ 2 ^ 11 = 2048 /\ 2 ^ 5 = 32 /\ 2 ^ 0 = 1 /\ 2 ^ 8 = 256 /\ 2 ^ 10 = 1024 /\ 2 ^ 1 = 2 /\ 2 ^ 2 = 4 /\ 2 ^ 4 = 16
  BY SMT
<1>2. Field(CHIP_PLL_CTRL, 11, 5) = 14 /\ Field(CHIP_PLL_CTRL, 0, 11) = 923
  BY <1>1, ClockFields, SMT DEF Field
<1>3. Field(CHIP_ANA_POWER, 8, 1) = 1 /\ Field(CHIP_ANA_POWER, 10, 1) = 1
  BY <1>1, ClockFields, SMT DEF Field
<1>4. Field(CHIP_CLK_CTRL, 0, 2) = 3 /\ Field(CHIP_CLK_CTRL, 2, 4) = 1
  BY <1>1, ClockFields, SMT DEF Field
<1>5. On(CHIP_ANA_POWER, {8, 10})
  BY <1>3 DEF On
<1>6. 1250 * (Field(CHIP_PLL_CTRL, 11, 5) * 2048 + Field(CHIP_PLL_CTRL, 0, 11)) \in 18063 * 2048 .. 18064 * 2048
  BY <1>2, SMT
<1>7. QED  BY <1>4, <1>5, <1>6, SMT DEF Clocked

LEMMA SoundsThen == ASSUME ~absent, NEW k \in 24 .. 34, AtPlan(k) PROVE Sounds
<1>1. \A i \in WriteAt : codec[Plan[i].reg] = Plan[i].value
  BY DEF AtPlan, WriteAt
<1>2. /\ codec[Plan[3].reg] = Plan[3].value /\ codec[Plan[5].reg] = Plan[5].value /\ codec[Plan[9].reg] = Plan[9].value
      /\ codec[Plan[11].reg] = Plan[11].value /\ codec[Plan[13].reg] = Plan[13].value
      /\ codec[Plan[15].reg] = Plan[15].value /\ codec[Plan[17].reg] = Plan[17].value
      /\ codec[Plan[20].reg] = Plan[20].value
  BY <1>1 DEF WriteAt
<1>3. /\ codec[CHIP_PLL_CTRL] = 29595 /\ codec[CHIP_ANA_POWER] = 17918 /\ codec[CHIP_DIG_POWER] = 99
      /\ codec[CHIP_CLK_CTRL] = 7 /\ codec[CHIP_I2S_CTRL] = 128 /\ codec[CHIP_ANA_CTRL] = 4
      /\ codec[CHIP_SSS_CTRL] = 16 /\ codec[CHIP_ADCDAC_CTRL] = 0
  BY <1>2, WritesAre, SMT
<1>4. Clocked
  BY <1>3, ClockedThen, SMT
<1>5. /\ 2 ^ 0 = 1 /\ 2 ^ 1 = 2 /\ 2 ^ 2 = 4 /\ 2 ^ 3 = 8 /\ 2 ^ 4 = 16 /\ 2 ^ 5 = 32 /\ 2 ^ 6 = 64 /\ 2 ^ 7 = 128
  BY SMT
<1>6. Field(CHIP_I2S_CTRL, 7, 1) = 1 /\ Field(CHIP_I2S_CTRL, 0, 7) = 0
  BY <1>3, <1>5, SoundFields, SMT DEF Field
<1>7. /\ Field(CHIP_ANA_CTRL, 2, 1) = 1 /\ Field(CHIP_ANA_CTRL, 6, 1) = 0 /\ Field(CHIP_ANA_CTRL, 4, 1) = 0
      /\ Field(CHIP_ANA_CTRL, 0, 1) = 0
  BY <1>3, <1>5, SoundFields, SMT DEF Field
<1>8. Field(CHIP_SSS_CTRL, 0, 2) = 0 /\ Field(CHIP_SSS_CTRL, 4, 2) = 1 /\ Field(CHIP_ADCDAC_CTRL, 2, 2) = 0
  BY <1>3, <1>5, SoundFields, SMT DEF Field
<1>9. /\ Field(CHIP_DIG_POWER, 0, 1) = 1 /\ Field(CHIP_DIG_POWER, 1, 1) = 1 /\ Field(CHIP_DIG_POWER, 5, 1) = 1
      /\ Field(CHIP_DIG_POWER, 6, 1) = 1
  BY <1>3, <1>5, SoundFields, SMT DEF Field
<1>10. /\ Field(CHIP_ANA_POWER, 1, 1) = 1 /\ Field(CHIP_ANA_POWER, 3, 1) = 1 /\ Field(CHIP_ANA_POWER, 4, 1) = 1
       /\ Field(CHIP_ANA_POWER, 5, 1) = 1 /\ Field(CHIP_ANA_POWER, 7, 1) = 1
  BY <1>3, <1>5, SoundFields, SMT DEF Field
<1>11. On(CHIP_DIG_POWER, {0, 1, 5, 6}) /\ On(CHIP_ANA_POWER, {1, 3, 4, 5, 7})
  BY <1>9, <1>10 DEF On
<1>12. QED  BY <1>4, <1>6, <1>7, <1>8, <1>11 DEF Sounds

(* At every place of the plan the three parts of CodecConfigured hold.     *)
LEMMA CodecHolds == CodecInv => CodecConfigured
<1> SUFFICES ASSUME CodecInv PROVE CodecConfigured
  OBVIOUS
<1>1. PICK k \in 1 .. 34 : AtPlan(k)
  BY DEF CodecInv
<1>2. todo = SubSeq(Plan, k, 33) /\ Len(todo) = 34 - k /\ (todo = <<>> <=> k = 34) /\ Len(main) = 10
  <2>1. todo = SubSeq(Plan, k, 33)
    BY <1>1 DEF AtPlan
  <2>2. Len(main) = 10
    BY SMT DEF main
  <2>3. QED  BY <2>1, <2>2, PlanGoes
<1>3. ~absent /\ Len(todo) <= Len(main) => Sounds
  <2> SUFFICES ASSUME ~absent, Len(todo) <= Len(main) PROVE Sounds
    OBVIOUS
  <2>1. k \in 24 .. 34
    BY <1>2
  <2>2. QED  BY <1>1, <2>1, SoundsThen
<1>4. codec[CHIP_I2S_CTRL] = I2S_CTRL => Clocked
  <2> SUFFICES ASSUME codec[CHIP_I2S_CTRL] = I2S_CTRL PROVE Clocked
    OBVIOUS
  <2>1. ~absent /\ k >= 13
    BY <1>1 DEF AtPlan
  <2>2. 3 \in WriteAt /\ 5 \in WriteAt /\ 11 \in WriteAt /\ 3 < k /\ 5 < k /\ 11 < k
    BY <2>1 DEF WriteAt
  <2>3. /\ codec[Plan[3].reg] = Plan[3].value /\ codec[Plan[5].reg] = Plan[5].value /\ codec[Plan[11].reg] = Plan[11].value
    BY <1>1, <2>1, <2>2, Zenon DEF AtPlan
  <2>4. codec[CHIP_PLL_CTRL] = 29595 /\ codec[CHIP_ANA_POWER] = 17918 /\ codec[CHIP_CLK_CTRL] = 7
    BY <2>3, WritesAre, SMT
  <2>5. QED  BY <2>4, ClockedThen, SMT
<1>5. todo = <<>> => slept * cycles_per_loop \in (ALT_CPU.freq \div 10) * 9 * 12 .. ALT_CPU.freq * 12
  <2> SUFFICES ASSUME todo = <<>> PROVE slept * cycles_per_loop \in (ALT_CPU.freq \div 10) * 9 * 12 .. ALT_CPU.freq * 12
    OBVIOUS
  <2>1. k = 34
    BY <1>2
  <2>2. WaitsBy(34) = 6
    BY DEF WaitsBy
  <2>3. slept = WaitLoops * 6
    BY <1>1, <2>1, <2>2 DEF AtPlan
  <2>4. slept * cycles_per_loop = 540000000
    <3>1. slept = 60000000
      BY <2>3, LoopsAre, SMT
    <3>2. QED  BY <3>1, LoopsAre, SMT
  <2>5. (ALT_CPU.freq \div 10) * 9 * 12 = 540000000 /\ ALT_CPU.freq * 12 = 600000000
    BY LoopsAre, SMT
  <2>6. ASSUME NEW x \in Int, NEW low \in Int, NEW high \in Int, low <= x, x <= high PROVE x \in low .. high
    BY <2>6
  <2> DEFINE x == slept * cycles_per_loop
             low == (ALT_CPU.freq \div 10) * 9 * 12
             high == ALT_CPU.freq * 12
  <2>7. x \in Int /\ low \in Int /\ high \in Int /\ low <= x /\ x <= high
    BY <2>4, <2>5, SMT
  <2> HIDE DEF x, low, high
  <2>8. x \in low .. high
    BY <2>6, <2>7
  <2>9. QED  BY <2>8 DEF x, low, high
<1>6. QED  BY <1>3, <1>4, <1>5, SMT DEF CodecConfigured

(* The rest of the types: attempts are counted, and only the four lights   *)
(* of main are lit.                                                        *)
MainLights == {7, 8, 9, 10}
CodecRest == hung \in BOOLEAN /\ begun \in 0 .. Attempts - 1 /\ leds \subseteq MainLights

LEMMA LightsAre == \A i \in 1 .. 33 : Plan[i].op = "led" => Plan[i].value \in MainLights
<1>1. \A i \in 1 .. 33 : Plan[i].op = "led" => i \in 24 .. 33 /\ i \notin SleepAt /\ Plan[i] = main[i - 23]
  <2>1. \A i \in 1 .. 33 : Plan[i].op = "led" => i >= 24 /\ i \notin SleepAt
    BY StepsAre
  <2>2. \A i \in 24 .. 33 : Plan[i] = main[i - 23]
    BY PlanIs
  <2>3. QED  BY <2>1, <2>2
<1>2. \A i \in 24 .. 33 : i \notin SleepAt => i - 23 \in {1, 2, 9, 10}
  BY DEF SleepAt
<1>3. \A j \in {1, 2, 9, 10} : main[j].value \in MainLights
  BY SMT DEF main, Lights, Sleeps, MainLights
<1>4. QED  BY <1>1, <1>2, <1>3

LEMMA OverRests ==
  ASSUME CodecRest, NEW ok \in BOOLEAN, Over(ok), leds' = leds
  PROVE  CodecRest'
<1>1. begun' = 0 /\ (hung' = hung \/ hung' = TRUE)
  BY DEF Over
<1>2. hung' \in BOOLEAN
  BY <1>1, Zenon DEF CodecRest
<1>3. begun' \in 0 .. Attempts - 1
  BY <1>1, CodecAssumption
<1>4. QED  BY <1>2, <1>3 DEF CodecRest

LEMMA CodecRestStep == CodecInv /\ CodecRest /\ [CodecNext]_codecVars => CodecRest'
<1> SUFFICES ASSUME CodecInv, CodecRest, [CodecNext]_codecVars PROVE CodecRest'
  OBVIOUS
<1>1. ASSUME begun + 1 < Attempts, begun' = begun + 1, UNCHANGED <<hung, leds>> PROVE CodecRest'
  <2>1. begun' \in 0 .. Attempts - 1
    BY <1>1, CodecAssumption DEF CodecRest
  <2>2. QED  BY <1>1, <2>1 DEF CodecRest
<1>2. CASE SGTL5000_Reg_Wr
  <2>1. leds' = leds /\ \E ok \in BOOLEAN : Over(ok) \/ (begun + 1 < Attempts /\ begun' = begun + 1 /\ hung' = hung)
    BY <1>2 DEF SGTL5000_Reg_Wr
  <2>2. QED  BY <1>1, <2>1, OverRests
<1>3. CASE SGTL5000_Reg_Rd
  <2>1. /\ leds' = leds
        /\ (\E ok \in BOOLEAN : Over(ok)) \/ (begun + 1 < Attempts /\ begun' = begun + 1 /\ hung' = hung)
    BY <1>3 DEF SGTL5000_Reg_Rd
  <2>2. QED  BY <1>1, <2>1, OverRests
<1>4. CASE setLED
  <2>1. UNCHANGED <<hung, begun>> /\ leds' = leds \cup {Head(todo).value} /\ todo # <<>> /\ Head(todo).op = "led"
    BY <1>4 DEF setLED, AtStep, Step
  <2>2. PICK k \in 1 .. 34 : AtPlan(k)
    BY DEF CodecInv
  <2>3. k \in 1 .. 33 /\ Head(todo) = Plan[k]
    <3>1. todo = SubSeq(Plan, k, 33)
      BY <2>2 DEF AtPlan
    <3>2. QED  BY <2>1, <2>2, <3>1, PlanHas, Zenon
  <2>4. Head(todo).value \in MainLights
    BY <2>1, <2>3, LightsAre
  <2>5. QED  BY <2>1, <2>4 DEF CodecRest
<1>5. CASE OpenI2c \/ usleep \/ UNCHANGED codecVars
  <2>1. UNCHANGED <<hung, begun, leds>>
    BY <1>5 DEF OpenI2c, usleep, codecVars
  <2>2. QED  BY <2>1 DEF CodecRest
<1>6. QED  BY <1>2, <1>3, <1>4, <1>5 DEF CodecNext, Stays

LEMMA CodecRestStart == CodecInit => CodecRest
<1> SUFFICES ASSUME CodecInit PROVE CodecRest
  OBVIOUS
<1>1. hung \in BOOLEAN
  <2>1. hung = FALSE
    BY DEF CodecInit
  <2>2. QED  BY <2>1, Zenon
<1>2. begun \in 0 .. Attempts - 1
  BY CodecAssumption DEF CodecInit
<1>3. leds \subseteq MainLights
  BY DEF CodecInit, MainLights
<1>4. QED  BY <1>1, <1>2, <1>3 DEF CodecRest

LEMMA CodecTypes == CodecInv /\ CodecRest => CodecTypeOK
<1> SUFFICES ASSUME CodecInv, CodecRest PROVE CodecTypeOK
  OBVIOUS
<1>1. PICK k \in 1 .. 34 : AtPlan(k)
  BY DEF CodecInv
<1>2. Len(todo) <= Len(setup_i2c \o main)
  <2>1. todo = SubSeq(Plan, k, 33)
    BY <1>1 DEF AtPlan
  <2>2. Len(todo) = 34 - k
    BY <1>1, <2>1, PlanGoes, Zenon
  <2>3. Len(Plan) = 33
    BY PlanIs
  <2>4. 34 - k <= 33
    BY <1>1
  <2>5. QED  BY <2>2, <2>3, <2>4 DEF Plan
<1>3. {hung, absent} \subseteq BOOLEAN
  BY Zenon DEF CodecInv, CodecRest
<1>4. leds \subseteq 0 .. LEDS_PIO.width - 1
  <2>1. LEDS_PIO.width = 14
    BY SMT DEF LEDS_PIO, Pio
  <2>2. QED  BY <2>1 DEF CodecRest, MainLights
<1>5. slept \in Nat
  <2>1. slept = WaitLoops * WaitsBy(k)
    BY <1>1, Zenon DEF AtPlan
  <2>2. WaitsBy(k) \in Nat
    BY <1>1, WaitsAre
  <2>3. QED  BY <2>1, <2>2, SMT DEF WaitLoops
<1>6. codec \in [CodecRegisters -> Words]
  BY DEF CodecInv
<1>7. Len(buffer) \in {0, 2}
  BY DEF CodecInv
<1>8. begun \in 0 .. Attempts - 1
  BY DEF CodecRest
<1>9. QED  BY <1>2, <1>3, <1>4, <1>5, <1>6, <1>7, <1>8, Zenon DEF CodecTypeOK

(* The codec is set up whole before main goes on, and is never made the    *)
(* I2S master unclocked, whatever the bus loses: SGTL5000_Reg_Wr and       *)
(* setup_i2c (sgtl5000.c, sgtl5000_test.c), and main's waits (main.c).     *)
THEOREM CodecConfiguredTheorem == CodecSpec => [](CodecTypeOK /\ CodecConfigured)
<1>1. CodecInit => CodecInv /\ CodecRest
  BY CodecStart, CodecRestStart
<1>2. CodecInv /\ CodecRest /\ [CodecNext]_codecVars => CodecInv' /\ CodecRest'
  BY CodecSteps, CodecRestStep
<1>3. CodecInv /\ CodecRest => CodecTypeOK /\ CodecConfigured
  BY CodecTypes, CodecHolds
<1>4. QED  BY <1>1, <1>2, <1>3, PTL DEF CodecSpec
-----------------------------------------------------------------------------
(* The I2C master.  A call that has the core in hand has its commands in   *)
(* the queue, in their order and without a gap: k of them are done, and    *)
(* how many the device has heard and how many bytes have come follow from  *)
(* k (QueuedAt).  A refusal empties the queue, and what is written behind  *)
(* it is dropped, until a call enables the core again (I2cQueue).  When    *)
(* the call is left to an interrupt, what is queued and received is what   *)
(* the handler still has to bring (I2cPending).                            *)

(* What a call is made of: the addresses and bytes it sends, then the      *)
(* address and the bytes it asks for.                                      *)
TxCommands == IF request.op = "rx" THEN 0 ELSE Address + request.tx
Sequel == IF phase = "receive" THEN TxCommands ELSE 0

(* A call has the core to itself from Begin to Finish or Arm, and between  *)
(* the two halves of master_tx_rx.                                         *)
InHand ==
  \/ i2c_pc \in {"cmd", "check", "read", "stop"}
  \/ i2c_pc = "begin" /\ Restart
  \/ i2c_pc = "retry" /\ ~Stop /\ status = "SUCCESS"
AwaitsIrq == i2c_pc \in {"armed", "status", "busy", "abort"}
ArmedNow == i2c_pc = "retry" /\ status = "SUCCESS" /\ Stop /\ request.ints

Commands == [address : BOOLEAN, read : BOOLEAN, stop : BOOLEAN, val : Int]
Requests ==
  [op : {"tx", "rx", "txrx"}, tx : Nat, rx : Nat, ints : BOOLEAN, shared : BOOLEAN, ten : BOOLEAN]

I2cTypes ==
  /\ en \in BOOLEAN /\ callback \in BOOLEAN /\ i2c_isr \subseteq Clearable
  /\ iser \subseteq AllInts /\ saved \subseteq AllInts
  /\ cmds \in Seq(Commands) /\ rxf \in Seq(Int) /\ device_heard \in Seq(Int) /\ irqbuf \in Seq(Int) /\ buf \in Seq(Int)
  /\ replied \in Nat /\ irq_left \in Nat /\ sent \in Nat /\ i2c_got \in Nat
  /\ irq_busy \in 0 .. 2 /\ isrpc \in {"off", "callback", "end"}
  /\ phase \in {"transmit", "receive"} /\ request \in Requests
  /\ request.op = "tx" => phase = "transmit"
  /\ request.op = "rx" => phase = "receive"
  /\ request.op # "tx" => ~request.ten /\ request.rx \in 1 .. Depth
  /\ request.shared => request.op = "txrx" /\ Len(buf) >= request.tx

I2cControl ==
  /\ ~en => cmds = <<>>
  /\ ~callback => irq_busy = 0
  /\ iser # {} => irq_busy # 0
  /\ isrpc # "off" => iser = {} /\ irq_busy # 0
  /\ irq_busy = 1 => iser \subseteq {"TX_READY"}
  /\ irq_busy = 2 => iser \subseteq {"RX_READY"}
  /\ InHand => irq_busy = 0
  /\ en => irq_busy # 0 \/ InHand
  /\ irq_busy # 0 => en \/ AwaitsIrq \/ ArmedNow
  /\ i2c_pc = "status" => iser \subseteq saved /\ (isrpc = "callback" /\ irq_busy = 2 => "RX_READY" \in saved)
  /\ i2c_pc \in {"status", "busy"} /\ irq_busy = 1 => saved \subseteq {"TX_READY"}
  /\ i2c_pc \in {"status", "busy"} /\ irq_busy = 2 => saved \subseteq {"RX_READY"}
  /\ i2c_pc \in {"busy", "abort"} => iser = {} /\ isrpc = "off" /\ irq_busy # 0
  /\ i2c_pc = "retry" /\ irq_busy # 0 => status = "BUSY" \/ ArmedNow
  /\ i2c_pc = "idle" /\ status = "SUCCESS" => irq_busy = 0
  /\ AwaitsIrq => request.ints
  /\ InHand /\ (en \/ i2c_pc # "begin") /\ request.ints => callback

(* The places of a call, and what the call has counted there.              *)
I2cPlaces ==
  /\ i2c_pc \in {"cmd", "check", "read"} => status = "SUCCESS"
  /\ i2c_pc = "cmd" => sent < Total
  /\ i2c_pc = "check" => sent \in 1 .. Total
  /\ i2c_pc = "read" => sent = Total /\ phase = "receive" /\ ~request.ints
  /\ i2c_pc = "stop" =>
       /\ sent <= Total
       /\ status = "SUCCESS" => sent = Total /\ (phase = "receive" /\ ~request.ints => i2c_got = Size)
  /\ i2c_pc = "begin" => sent = 0 /\ i2c_got = 0
  /\ i2c_pc = "retry" /\ InHand => sent = Total
  /\ InHand /\ (request.ints \/ phase = "transmit") => i2c_got = 0
  /\ InHand /\ ~en => phase = "receive" /\ request.op = "txrx"
  /\ i2c_pc = "begin" /\ Restart /\ en => status = "SUCCESS"
  /\ i2c_pc = "stop" => status \in {"SUCCESS", "TIMEOUT"} \/ Flushing
  /\ i2c_pc = "abort" => status # "SUCCESS"

Fits(command, n) ==
  /\ command.read <=> n > TxCommands
  /\ command.address <=> IF n > TxCommands THEN n = TxCommands + 1 ELSE n <= Address
  /\ n \in Address + 1 .. TxCommands /\ ~request.shared => command.val = n - Address

(* What is in the queue, and what went through it: the call's commands, in *)
(* their order, of which k are done.                                       *)
WrittenTo(k) ==
  /\ k + Len(cmds) <= Sequel + sent
  /\ status = "SUCCESS" => k + Len(cmds) = Sequel + sent
InOrder(k) == \A i \in 1 .. Len(cmds) : Fits(cmds[i], k + i)

HeardOf(k) == IF k > TxCommands THEN request.tx ELSE IF k <= Address THEN 0 ELSE k - Address
HasHeard(n) == Len(device_heard) = n /\ \A i \in 1 .. n : device_heard[i] = i
Heard(k) == k >= 1 /\ ~request.shared /\ request.op # "rx" => HasHeard(HeardOf(k))

Answered(k) ==
  /\ k <= TxCommands => rxf = <<>> /\ (status = "SUCCESS" => i2c_got = 0)
  /\ k > TxCommands =>
       /\ replied = (k - TxCommands) - 1
       /\ status = "SUCCESS" => /\ Len(rxf) = replied - i2c_got
                                /\ \A i \in 1 .. Len(rxf) : rxf[i] = Reply(i2c_got + i)

QueuedAt(k) == WrittenTo(k) /\ InOrder(k) /\ Heard(k) /\ Answered(k)

(* So it is until the device refuses one or the arbitration is lost; then, *)
(* and in a core that was disabled, there is nothing.                      *)
I2cQueue ==
  InHand =>
    /\ en /\ ~Flushing => \E k \in Nat : QueuedAt(k)
    /\ ~en \/ Flushing => cmds = <<>> /\ rxf = <<>> /\ (status = "SUCCESS" => i2c_got = 0)
    /\ status = "SUCCESS" => Len(buf) >= i2c_got /\ \A i \in 1 .. i2c_got : buf[i] = Reply(i)

(* What an interrupt will find.  A reception whose address was refused, or *)
(* that was written to a disabled core, gets nothing.                      *)
Lost == cmds = <<>> /\ rxf = <<>> /\ irqbuf = <<>> /\ irq_left >= 1
Due == Len(irqbuf) + irq_left
Arriving ==
  /\ Due \in 1 .. Depth
  /\ \A i \in 1 .. Len(cmds) : /\ cmds[i].read <=> i >= Len(cmds) - Due
                               /\ cmds[i].read => (cmds[i].address <=> i = Len(cmds) - Due)
  /\ Len(cmds) <= Due => replied = Due - Len(cmds) /\ Len(rxf) = replied - Len(irqbuf)
                         /\ \A i \in 1 .. Len(rxf) : rxf[i] = Reply(Len(irqbuf) + i)
  /\ Len(cmds) > Due => rxf = <<>> /\ irqbuf = <<>>
  /\ \A i \in 1 .. Len(irqbuf) : irqbuf[i] = Reply(i)

I2cPending ==
  /\ irq_busy = 1 => rxf = <<>> /\ \A i \in 1 .. Len(cmds) : ~cmds[i].read
  /\ irq_busy = 2 => Lost \/ Arriving
  /\ isrpc = "end" /\ irq_busy = 2 => irq_left = 0
  /\ ~InHand /\ irq_busy = 0 =>
       rxf = <<>> \/ i2c_pc = "hang" \/ (i2c_pc = "retry" /\ status = "TIMEOUT" /\ Stop)

HasReplies(b) == Len(b) >= request.rx /\ \A i \in 1 .. request.rx : b[i] = Reply(i)

I2cResults ==
  /\ AwaitsIrq \/ ArmedNow =>
       /\ irq_busy = 1 => request.op = "tx"
       /\ irq_busy = 2 => request.op # "tx" /\ Due = request.rx
       /\ irq_busy = 0 /\ request.op # "tx" => Len(irqbuf) = request.rx /\ HasReplies(irqbuf)
  /\ i2c_pc = "idle" /\ status = "SUCCESS" /\ request.ints /\ request.op # "tx" =>
       Len(irqbuf) = request.rx /\ HasReplies(irqbuf)
  /\ (i2c_pc = "idle" \/ (i2c_pc = "retry" /\ Stop)) /\ status = "SUCCESS" /\ ~request.ints
       /\ "ARBLOST_DET" \notin i2c_isr =>
       /\ ~request.shared /\ request.op # "rx" =>
            Len(device_heard) = request.tx /\ \A i \in 1 .. request.tx : device_heard[i] = i
       /\ request.op # "tx" => HasReplies(buf)

I2cInv == I2cTypes /\ I2cControl /\ I2cPlaces /\ I2cQueue /\ I2cPending /\ I2cResults

(***************************************************************************)
(* The sizes of a call, and of the phase it is in.                         *)
(***************************************************************************)
LEMMA Sizes ==
  ASSUME I2cTypes
  PROVE  /\ Address \in {1, 2} /\ request.tx \in Nat /\ request.rx \in Nat
         /\ TxCommands \in Nat /\ Sequel \in Nat /\ Size \in Nat /\ Total \in Nat
         /\ Total = Address + Size
         /\ request.op = "rx" => TxCommands = 0
         /\ request.op # "rx" => TxCommands = Address + request.tx
         /\ phase = "transmit" => /\ Sequel = 0 /\ Total = TxCommands /\ Size = request.tx /\ ~Restart
                                  /\ Stop <=> request.op = "tx"
                                  /\ request.op # "rx"
         /\ phase = "receive" => /\ Sequel = TxCommands /\ Address = 1 /\ Size = request.rx /\ Stop
                                 /\ Size \in 1 .. Depth /\ (Restart <=> request.op = "txrx")
                                 /\ request.op # "tx"
<1>1. request.op \in {"tx", "rx", "txrx"} /\ request.tx \in Nat /\ request.rx \in Nat /\ request.ten \in BOOLEAN
  BY DEF I2cTypes, Requests
<1>2. Address \in {1, 2} /\ (request.op # "tx" => Address = 1)
  BY <1>1 DEF I2cTypes, Address
<1>3. TxCommands \in Nat /\ Sequel \in Nat /\ Size \in Nat
  BY <1>1, <1>2 DEF TxCommands, Sequel, Size
<1>4. Total = Address + Size /\ Total \in Nat
  BY <1>2, <1>3 DEF Total
<1>5. /\ request.op = "rx" => TxCommands = 0
      /\ request.op # "rx" => TxCommands = Address + request.tx
  BY DEF TxCommands
<1>6. ASSUME phase = "transmit"
      PROVE  Sequel = 0 /\ Total = TxCommands /\ Size = request.tx /\ ~Restart
             /\ (Stop <=> request.op = "tx") /\ request.op # "rx"
  BY <1>1, <1>5, <1>6 DEF I2cTypes, Sequel, Total, Size, Restart, Stop
<1>7. ASSUME phase = "receive"
      PROVE  Sequel = TxCommands /\ Address = 1 /\ Size = request.rx /\ Stop
             /\ Size \in 1 .. Depth /\ (Restart <=> request.op = "txrx") /\ request.op # "tx"
  BY <1>1, <1>2, <1>7 DEF I2cTypes, Sequel, Size, Restart, Stop
<1>. QED  BY <1>1, <1>2, <1>3, <1>4, <1>5, <1>6, <1>7

(* No more commands are written than a phase has.                          *)
LEMMA SentBound ==
  ASSUME I2cTypes, I2cPlaces, InHand
  PROVE  sent \in 0 .. Total
<1>1. Total \in Nat /\ sent \in Nat
  BY Sizes DEF I2cTypes
<1>. QED  BY <1>1 DEF I2cPlaces, InHand

(* A queue that gives its first command away, one by one.                  *)
LEMMA TailCommands ==
  ASSUME NEW s, s \in Seq(Commands), s # <<>>
  PROVE  /\ Len(s) \in Nat \ {0} /\ s[1] = Head(s) /\ s[1] \in Commands
         /\ Tail(s) \in Seq(Commands) /\ Len(Tail(s)) = Len(s) - 1
         /\ \A i \in 1 .. Len(Tail(s)) : Tail(s)[i] = s[i + 1]
BY HeadTailProperties, EmptySeq, LenProperties, ElementOfSeq

(***************************************************************************)
(* The core, at work on the queue.                                         *)
(***************************************************************************)
CoreWorks == AckAddress \/ AckData \/ SendData \/ Nack \/ LoseArbitration

LEMMA CoreTypes ==
  ASSUME I2cTypes, CoreWorks
  PROVE  I2cTypes'
<1>1. en /\ cmds # <<>> /\ cmds' \in {Tail(cmds), <<>>}
      /\ UNCHANGED <<en, iser, txEmpty, rxFull, irqs, i2cDriver>>
  BY DEF CoreWorks, AckAddress, AckData, SendData, Nack, LoseArbitration, Works
<1>2. cmds \in Seq(Commands)
  BY DEF I2cTypes
<1>3. Tail(cmds) \in Seq(Commands) /\ Front \in Commands
  BY <1>1, <1>2, TailCommands DEF Front
<1>4. cmds' \in Seq(Commands)
  BY <1>1, <1>3, EmptySeq
<1>5. Front.val \in Int
  BY <1>3 DEF Commands
<1>6. device_heard' \in Seq(Int) /\ rxf' \in Seq(Int) /\ replied' \in Nat /\ i2c_isr' \subseteq Clearable
  <2>1. device_heard \in Seq(Int) /\ rxf \in Seq(Int) /\ replied \in Nat /\ i2c_isr \subseteq Clearable
    BY DEF I2cTypes
  <2>2. Append(device_heard, Front.val) \in Seq(Int) /\ Reply(replied + 1) \in Int
    BY <2>1, <1>5, AppendProperties DEF Reply
  <2>3. Append(rxf, Reply(replied + 1)) \in Seq(Int)
    BY <2>1, <2>2, AppendProperties
  <2>4. <<>> \in Seq(Int)
    BY EmptySeq
  <2>5. CASE AckAddress
    BY <2>5, <2>1, <2>4 DEF AckAddress
  <2>6. CASE AckData
    BY <2>6, <2>1, <2>2 DEF AckData
  <2>7. CASE SendData
    <3>1. i2c_isr \cup {"RX_OVER"} \subseteq Clearable
      BY <2>1 DEF Clearable
    <3>2. replied + 1 \in Nat
      BY <2>1
    <3>3. /\ rxf' = Append(rxf, Reply(replied + 1)) \/ rxf' = rxf
          /\ i2c_isr' = i2c_isr \cup {"RX_OVER"} \/ i2c_isr' = i2c_isr
          /\ replied' = replied + 1 /\ device_heard' = device_heard
      BY <2>7 DEF SendData
    <3>. QED  BY <2>1, <2>3, <3>1, <3>2, <3>3
  <2>8. CASE Nack
    BY <2>8, <2>1 DEF Nack, Clearable
  <2>9. CASE LoseArbitration
    BY <2>9, <2>1 DEF LoseArbitration, Clearable
  <2>. QED  BY <2>5, <2>6, <2>7, <2>8, <2>9 DEF CoreWorks
<1>7. UNCHANGED <<en, callback, iser, saved, irqbuf, buf, irq_left, sent, i2c_got, irq_busy, isrpc, phase, request>>
  BY <1>1 DEF irqs, i2cDriver
<1>. QED  BY <1>4, <1>6, <1>7 DEF I2cTypes

\* nobody but a call or an interrupt still due has the core working
LEMMA CoreOwner ==
  ASSUME I2cInv, en
  PROVE  /\ irq_busy # 0 <=> ~InHand
         /\ ~InHand => ~(status = "SUCCESS" /\ ~request.ints /\ (i2c_pc = "idle" \/ (i2c_pc = "retry" /\ Stop)))
         /\ ~InHand => ~(i2c_pc = "idle" /\ status = "SUCCESS")
BY DEF I2cInv, I2cControl, InHand, ArmedNow

LEMMA CoreRest ==
  ASSUME I2cInv, CoreWorks
  PROVE  /\ I2cControl' /\ I2cPlaces' /\ I2cResults'
         /\ (InHand' <=> InHand) /\ UNCHANGED <<en, irqs, i2cDriver>>
<1>1. en /\ cmds # <<>> /\ UNCHANGED <<en, iser, txEmpty, rxFull, irqs, i2cDriver>>
  BY DEF CoreWorks, AckAddress, AckData, SendData, Nack, LoseArbitration, Works
<1>2. UNCHANGED <<en, iser, callback, irq_busy, irq_left, irqbuf, isrpc, saved, request, i2c_pc, phase, sent,
                  i2c_got, status, tries, buf>>
  BY <1>1 DEF irqs, i2cDriver
<1>3. /\ UNCHANGED <<InHand, AwaitsIrq, ArmedNow>>
      /\ UNCHANGED <<Restart, Stop, Total, Size, Address, Due>>
  BY <1>2 DEF InHand, AwaitsIrq, ArmedNow, Restart, Stop, Total, Size, Address, Due
<1>4. Flushing => Flushing'
  BY DEF CoreWorks, AckAddress, AckData, SendData, Nack, LoseArbitration, Flushing
<1>5. I2cControl'
  BY <1>1, <1>2, <1>3 DEF I2cInv, I2cControl
<1>6. I2cPlaces'
  BY <1>2, <1>3, <1>4 DEF I2cInv, I2cPlaces
<1>7. I2cResults'
  <2>1. /\ InHand => i2c_pc # "idle" /\ ~(i2c_pc = "retry" /\ Stop)
        /\ ~((i2c_pc = "idle" \/ (i2c_pc = "retry" /\ Stop)) /\ status = "SUCCESS" /\ ~request.ints)
        /\ ~(i2c_pc = "idle" /\ status = "SUCCESS")
    BY <1>1, CoreOwner DEF InHand
  <2>2. HasReplies(irqbuf)' <=> HasReplies(irqbuf)
    BY <1>2 DEF HasReplies, Reply
  <2>. QED  BY <1>2, <1>3, <2>1, <2>2 DEF I2cInv, I2cResults
<1>. QED  BY <1>1, <1>3, <1>5, <1>6, <1>7

(* The first command is done: what held of the rest holds of it, one place *)
(* further.                                                                *)
LEMMA FitsOn ==
  ASSUME NEW k \in Nat, I2cTypes, cmds # <<>>, cmds' = Tail(cmds),
         UNCHANGED <<request, phase>>,
         InOrder(k)
  PROVE  /\ Fits(Front, k + 1) /\ Front \in Commands /\ Len(cmds') = Len(cmds) - 1 /\ Len(cmds) \in Nat \ {0}
         /\ InOrder(k + 1)'
<1>1. cmds \in Seq(Commands)
  BY DEF I2cTypes
<1>2. /\ Len(cmds) \in Nat \ {0} /\ cmds[1] = Head(cmds) /\ cmds[1] \in Commands
      /\ Len(cmds') = Len(cmds) - 1
      /\ \A i \in 1 .. Len(cmds') : cmds'[i] = cmds[i + 1]
  BY <1>1, TailCommands
<1>3. Fits(Front, k + 1) /\ Front \in Commands
  BY <1>2 DEF Front, InOrder
<1>4. \A i \in 1 .. Len(cmds') : Fits(cmds'[i], (k + 1) + i)
  <2>. TAKE i \in 1 .. Len(cmds')
  <2>1. i + 1 \in 1 .. Len(cmds) /\ k + (i + 1) = (k + 1) + i /\ cmds'[i] = cmds[i + 1]
    BY <1>2
  <2>2. Fits(cmds[i + 1], k + (i + 1))
    BY <2>1 DEF InOrder
  <2>. QED  BY <2>1, <2>2
<1>5. UNCHANGED <<TxCommands, Address>>
  BY DEF TxCommands, Address
<1>6. InOrder(k + 1)'
  BY <1>4, <1>5 DEF Fits, InOrder
<1>. QED  BY <1>2, <1>3, <1>4, <1>6

LEMMA CoreBounds ==
  ASSUME NEW k \in Nat, I2cTypes, QueuedAt(k), cmds # <<>>, sent \in 0 .. Total
  PROVE  /\ k + 1 <= Sequel + sent
         /\ phase = "transmit" => k + 1 <= TxCommands
         /\ phase = "receive" => k + 1 <= (TxCommands + 1) + Size /\ Size <= Depth
<1>1. Len(cmds) \in Nat \ {0}
  BY TailCommands DEF I2cTypes
<1>2. k + Len(cmds) <= Sequel + sent /\ Sequel \in Nat /\ sent \in Int /\ sent <= Total
  BY Sizes DEF QueuedAt, WrittenTo
<1>3. Total \in Nat /\ Total = Address + Size /\ Address \in {1, 2} /\ TxCommands \in Nat /\ Size \in Nat
  BY Sizes
<1>4. phase = "transmit" => Sequel = 0 /\ Total = TxCommands
  BY Sizes
<1>5. phase = "receive" => Sequel = TxCommands /\ Address = 1 /\ Size \in 1 .. Depth
  BY Sizes
<1>. QED  BY <1>1, <1>2, <1>3, <1>4, <1>5, I2cAssumption

LEMMA AckAddressQueue ==
  ASSUME NEW k \in Nat, I2cTypes, QueuedAt(k), AckAddress, sent \in 0 .. Total
  PROVE  QueuedAt(k + 1)'
<1>1. /\ cmds # <<>> /\ cmds' = Tail(cmds) /\ Front.address /\ replied' = 0 /\ rxf' = rxf
      /\ device_heard' = IF Front.read THEN device_heard ELSE <<>>
      /\ UNCHANGED <<request, phase, status, i2c_got, sent, buf>>
  BY DEF AckAddress, Works, i2cDriver
<1>2. /\ Fits(Front, k + 1) /\ Len(cmds') = Len(cmds) - 1 /\ Len(cmds) \in Nat \ {0}
      /\ InOrder(k + 1)' /\ Front \in Commands
  BY <1>1, FitsOn DEF QueuedAt
<1>3. Address \in {1, 2} /\ TxCommands \in Nat /\ Sequel \in Nat /\ sent \in Nat /\ i2c_got \in Nat
      /\ (request.op # "rx" => TxCommands = Address + request.tx /\ request.tx \in Nat)
      /\ (request.op = "rx" => TxCommands = 0)
  BY Sizes DEF I2cTypes
<1>4. UNCHANGED <<TxCommands, Address, Sequel>>
  BY <1>1 DEF TxCommands, Address, Sequel
<1>5. IF k + 1 > TxCommands THEN k = TxCommands /\ Front.read ELSE k + 1 <= Address /\ ~Front.read
  BY <1>1, <1>2, <1>3 DEF Fits, Commands
<1>6. k <= TxCommands /\ rxf = <<>> /\ (status = "SUCCESS" => i2c_got = 0)
  BY <1>3, <1>5 DEF QueuedAt, Answered
<1>7. WrittenTo(k + 1)'
  <2>1. (k + 1) + Len(cmds') = k + Len(cmds)
    BY <1>2
  <2>2. UNCHANGED <<status, sent>>
    BY <1>1
  <2>. QED  BY <1>4, <2>1, <2>2 DEF QueuedAt, WrittenTo
<1>8. Heard(k + 1)'
  <2>1. CASE k + 1 > TxCommands
    <3>1. k = TxCommands /\ device_heard' = device_heard
      BY <2>1, <1>1, <1>3, <1>5
    <3>2. ~request.shared /\ request.op # "rx" => k >= 1 /\ HeardOf(k) = request.tx
      BY <3>1, <1>3 DEF HeardOf
    <3>. QED  BY <2>1, <3>1, <3>2, <1>1, <1>4 DEF QueuedAt, Heard, HeardOf, HasHeard
  <2>2. CASE ~(k + 1 > TxCommands)
    <3>1. HeardOf(k + 1)' = 0 /\ device_heard' = <<>>
      BY <2>2, <1>1, <1>4, <1>5 DEF HeardOf
    <3>2. HasHeard(0)'
      BY <3>1, EmptySeq DEF HasHeard
    <3>. QED  BY <3>1, <3>2 DEF Heard
  <2>. QED  BY <2>1, <2>2
<1>9. Answered(k + 1)'
  <2>1. Len(rxf) = 0 /\ Len(rxf) \in Nat
    BY <1>6, EmptySeq
  <2>2. k + 1 > TxCommands => ((k + 1) - TxCommands) - 1 = 0
    BY <1>3, <1>5
  <2>. QED  BY <1>1, <1>4, <1>6, <2>1, <2>2 DEF Answered
<1>. QED  BY <1>2, <1>7, <1>8, <1>9 DEF QueuedAt

LEMMA AckDataQueue ==
  ASSUME NEW k \in Nat, I2cTypes, QueuedAt(k), AckData, sent \in 0 .. Total
  PROVE  QueuedAt(k + 1)'
<1>1. /\ cmds # <<>> /\ cmds' = Tail(cmds) /\ ~Front.address /\ ~Front.read /\ replied' = replied /\ rxf' = rxf
      /\ device_heard' = Append(device_heard, Front.val)
      /\ UNCHANGED <<request, phase, status, i2c_got, sent, buf>>
  BY DEF AckData, Works, i2cDriver
<1>2. /\ Fits(Front, k + 1) /\ Len(cmds') = Len(cmds) - 1 /\ Len(cmds) \in Nat \ {0}
      /\ InOrder(k + 1)' /\ Front \in Commands
  BY <1>1, FitsOn DEF QueuedAt
<1>3. Address \in {1, 2} /\ TxCommands \in Nat /\ Sequel \in Nat /\ sent \in Nat /\ i2c_got \in Nat
      /\ (request.op # "rx" => TxCommands = Address + request.tx /\ request.tx \in Nat)
      /\ (request.op = "rx" => TxCommands = 0)
  BY Sizes DEF I2cTypes
<1>4. UNCHANGED <<TxCommands, Address, Sequel>>
  BY <1>1 DEF TxCommands, Address, Sequel
<1>5. k + 1 <= TxCommands /\ k + 1 > Address /\ (~request.shared => Front.val = (k + 1) - Address)
  BY <1>1, <1>2, <1>3 DEF Fits, Commands
<1>6. rxf = <<>> /\ (status = "SUCCESS" => i2c_got = 0)
  BY <1>3, <1>5 DEF QueuedAt, Answered
<1>7. WrittenTo(k + 1)'
  <2>1. (k + 1) + Len(cmds') = k + Len(cmds)
    BY <1>2
  <2>2. UNCHANGED <<status, sent>>
    BY <1>1
  <2>. QED  BY <1>4, <2>1, <2>2 DEF QueuedAt, WrittenTo
<1>8. Heard(k + 1)'
  <2>. SUFFICES ASSUME ~request.shared, request.op # "rx"
                PROVE  HasHeard(HeardOf(k + 1))'
    BY <1>1 DEF Heard
  <2>1. HasHeard(k - Address)
    <3>1. k >= 1 /\ HeardOf(k) = k - Address
      BY <1>3, <1>5 DEF HeardOf
    <3>. QED  BY <3>1 DEF QueuedAt, Heard
  <2>2. device_heard \in Seq(Int) /\ Front.val = (k + 1) - Address /\ Front.val \in Int
    BY <1>3, <1>5 DEF I2cTypes
  <2>3. /\ Len(device_heard') = Len(device_heard) + 1
        /\ \A i \in 1 .. Len(device_heard) : device_heard'[i] = device_heard[i]
        /\ device_heard'[Len(device_heard) + 1] = Front.val
    BY <1>1, <2>2, AppendProperties
  <2>4. HeardOf(k + 1)' = (k + 1) - Address /\ (k - Address) + 1 = (k + 1) - Address /\ k - Address \in Nat
    BY <1>1, <1>3, <1>4, <1>5 DEF HeardOf
  <2>5. HasHeard((k + 1) - Address)'
    BY <1>4, <2>1, <2>2, <2>3, <2>4 DEF HasHeard
  <2>. QED  BY <1>4, <2>4, <2>5
<1>9. Answered(k + 1)'
  BY <1>1, <1>3, <1>4, <1>5, <1>6 DEF Answered
<1>. QED  BY <1>2, <1>7, <1>8, <1>9 DEF QueuedAt

LEMMA SendDataQueue ==
  ASSUME NEW k \in Nat, I2cTypes, QueuedAt(k), SendData, sent \in 0 .. Total
  PROVE  QueuedAt(k + 1)'
<1>1. /\ cmds # <<>> /\ cmds' = Tail(cmds) /\ ~Front.address /\ Front.read /\ replied' = replied + 1
      /\ Len(rxf) < Depth => rxf' = Append(rxf, Reply(replied + 1))
      /\ device_heard' = device_heard
      /\ UNCHANGED <<request, phase, status, i2c_got, sent, buf>>
  BY DEF SendData, Works, i2cDriver
<1>2. /\ Fits(Front, k + 1) /\ Len(cmds') = Len(cmds) - 1 /\ Len(cmds) \in Nat \ {0}
      /\ InOrder(k + 1)' /\ Front \in Commands
  BY <1>1, FitsOn DEF QueuedAt
<1>3. Address \in {1, 2} /\ TxCommands \in Nat /\ Sequel \in Nat /\ sent \in Nat /\ i2c_got \in Nat
      /\ (request.op # "rx" => TxCommands = Address + request.tx /\ request.tx \in Nat)
      /\ (request.op = "rx" => TxCommands = 0)
  BY Sizes DEF I2cTypes
<1>4. UNCHANGED <<TxCommands, Address, Sequel>>
  BY <1>1 DEF TxCommands, Address, Sequel
<1>5. k > TxCommands
  BY <1>1, <1>2, <1>3 DEF Fits, Commands
<1>6. replied = (k - TxCommands) - 1
      /\ (status = "SUCCESS" => /\ Len(rxf) = replied - i2c_got
                                /\ \A i \in 1 .. Len(rxf) : rxf[i] = Reply(i2c_got + i))
  BY <1>5, <1>3 DEF QueuedAt, Answered
<1>7. WrittenTo(k + 1)'
  <2>1. (k + 1) + Len(cmds') = k + Len(cmds)
    BY <1>2
  <2>2. UNCHANGED <<status, sent>>
    BY <1>1
  <2>. QED  BY <1>4, <2>1, <2>2 DEF QueuedAt, WrittenTo
<1>8. replied < Depth /\ replied \in Nat /\ Depth \in Nat
  <2>1. phase \in {"transmit", "receive"} /\ Size \in Nat /\ replied \in Nat /\ Depth \in Nat
    BY Sizes, I2cAssumption DEF I2cTypes
  <2>2. phase = "receive"
    BY <2>1, <1>1, <1>3, <1>5, CoreBounds
  <2>3. k + 1 <= (TxCommands + 1) + Size /\ Size <= Depth
    BY <1>1, <2>2, CoreBounds
  <2>. QED  BY <2>1, <2>3, <1>3, <1>5, <1>6
<1>9. ASSUME status = "SUCCESS"
      PROVE  /\ Len(rxf') = replied' - i2c_got'
             /\ \A i \in 1 .. Len(rxf') : rxf'[i] = Reply(i2c_got' + i)
  <2>1. rxf \in Seq(Int) /\ Reply(replied + 1) \in Int /\ Len(rxf) \in Nat
    BY <1>8, LenProperties DEF I2cTypes, Reply
  <2>2. Len(rxf) = replied - i2c_got /\ Len(rxf) < Depth
    BY <1>3, <1>6, <1>8, <1>9, <2>1
  <2>3. /\ Len(rxf') = Len(rxf) + 1
        /\ \A i \in 1 .. Len(rxf) : rxf'[i] = rxf[i]
        /\ rxf'[Len(rxf) + 1] = Reply(replied + 1)
    BY <1>1, <2>1, <2>2, AppendProperties
  <2>4. Reply(replied + 1) = Reply(i2c_got + (Len(rxf) + 1))
    <3>1. replied + 1 = i2c_got + (Len(rxf) + 1)
      BY <1>3, <1>8, <2>1, <2>2
    <3>. QED  BY <3>1
  <2>5. Len(rxf') = replied' - i2c_got'
    BY <1>1, <1>3, <1>8, <2>1, <2>2, <2>3
  <2>6. ASSUME NEW i \in 1 .. Len(rxf') PROVE rxf'[i] = Reply(i2c_got' + i)
    <3>1. CASE i \in 1 .. Len(rxf)
      BY <3>1, <1>1, <1>6, <1>9, <2>3
    <3>2. CASE i = Len(rxf) + 1
      BY <3>2, <1>1, <2>3, <2>4
    <3>. QED  BY <2>1, <2>3, <3>1, <3>2
  <2>. QED  BY <2>5, <2>6
<1>10. Heard(k + 1)'
  <2>1. k + 1 > TxCommands /\ k >= 1 /\ HeardOf(k) = request.tx
    BY <1>3, <1>5 DEF HeardOf
  <2>2. HeardOf(k + 1)' = request.tx
    BY <1>1, <1>4, <2>1 DEF HeardOf
  <2>3. ~request.shared /\ request.op # "rx" => HasHeard(request.tx)
    BY <2>1 DEF QueuedAt, Heard
  <2>. QED  BY <1>1, <2>2, <2>3 DEF Heard, HasHeard
<1>11. Answered(k + 1)'
  <2>1. ~(k + 1 <= TxCommands') /\ replied' = ((k + 1) - TxCommands') - 1
    BY <1>1, <1>3, <1>4, <1>5, <1>6
  <2>. QED  BY <1>1, <1>9, <2>1 DEF Answered
<1>. QED  BY <1>2, <1>7, <1>10, <1>11 DEF QueuedAt

\* a refusal or a lost arbitration meets an address or a byte that is sent:
\* nothing has been received yet
LEMMA RefusedQueue ==
  ASSUME NEW k \in Nat, I2cTypes, QueuedAt(k), cmds # <<>>, Front.address \/ ~Front.read
  PROVE  rxf = <<>> /\ (status = "SUCCESS" => i2c_got = 0)
<1>1. cmds \in Seq(Commands) /\ TxCommands \in Nat /\ Address \in {1, 2}
  BY Sizes DEF I2cTypes
<1>2. Len(cmds) \in Nat \ {0} /\ Front = cmds[1] /\ Front \in Commands
  BY <1>1, TailCommands DEF Front
<1>3. Fits(Front, k + 1)
  BY <1>2 DEF QueuedAt, InOrder
<1>4. k <= TxCommands
  BY <1>1, <1>2, <1>3 DEF Fits, Commands
<1>. QED  BY <1>4 DEF QueuedAt, Answered

LEMMA CoreQueue ==
  ASSUME I2cInv, CoreWorks
  PROVE  I2cQueue'
<1>. SUFFICES ASSUME InHand' PROVE I2cQueue'
  BY DEF I2cQueue
<1>1. InHand /\ en /\ en' /\ UNCHANGED <<status, i2c_got, buf>> /\ ~Flushing /\ cmds # <<>> /\ I2cTypes
  <2>1. InHand /\ UNCHANGED i2cDriver /\ I2cTypes
    BY CoreRest DEF I2cInv
  <2>2. en /\ en' = en /\ ~Flushing /\ cmds # <<>>
    BY DEF CoreWorks, AckAddress, AckData, SendData, Nack, LoseArbitration, Works
  <2>. QED  BY <2>1, <2>2 DEF i2cDriver
<1>2. PICK k \in Nat : QueuedAt(k)
  BY <1>1 DEF I2cInv, I2cQueue
<1>3. sent \in 0 .. Total
  BY <1>1, SentBound DEF I2cInv
<1>4. status' = "SUCCESS" => Len(buf') >= i2c_got' /\ \A i \in 1 .. i2c_got' : buf'[i] = Reply(i)
  BY <1>1 DEF I2cInv, I2cQueue
<1>5. CASE AckAddress \/ AckData \/ SendData
  <2>1. ~Flushing'
    <3>1. i2c_isr' \subseteq i2c_isr \cup {"RX_OVER"}
      BY <1>5 DEF AckAddress, AckData, SendData
    <3>. QED  BY <3>1, <1>1 DEF Flushing
  <2>2. QueuedAt(k + 1)'
    BY <1>1, <1>2, <1>3, <1>5, AckAddressQueue, AckDataQueue, SendDataQueue
  <2>3. k + 1 \in Nat /\ \E j \in Nat : QueuedAt(j)'
    <3>1. k + 1 \in Nat
      OBVIOUS
    <3>. QED  BY <3>1, <2>2
  <2>. QED  BY <1>1, <1>4, <2>1, <2>3 DEF I2cQueue
<1>6. CASE Nack \/ LoseArbitration
  <2>1. Flushing' /\ cmds' = <<>> /\ rxf' = rxf /\ (Front.address \/ ~Front.read)
    BY <1>6 DEF Nack, LoseArbitration, Works, Flushing
  <2>2. rxf = <<>> /\ (status = "SUCCESS" => i2c_got = 0)
    BY <1>1, <1>2, <2>1, RefusedQueue
  <2>. QED  BY <1>1, <1>4, <2>1, <2>2 DEF I2cQueue
<1>. QED  BY <1>5, <1>6 DEF CoreWorks

(* What is due to an interrupt comes nearer.                               *)
LEMMA CoreArriving ==
  ASSUME I2cInv, CoreWorks, irq_busy = 2
  PROVE  Lost' \/ Arriving'
<1>1. /\ cmds # <<>> /\ UNCHANGED <<irqbuf, irq_left>> /\ cmds \in Seq(Commands)
      /\ rxf \in Seq(Int) /\ irqbuf \in Seq(Int) /\ irq_left \in Nat /\ replied \in Nat
  BY DEF CoreWorks, AckAddress, AckData, SendData, Nack, LoseArbitration, Works, irqs, I2cInv, I2cTypes
<1>2. /\ Len(cmds) \in Nat \ {0} /\ Front = cmds[1] /\ Front \in Commands
      /\ Len(Tail(cmds)) = Len(cmds) - 1
      /\ \A i \in 1 .. Len(Tail(cmds)) : Tail(cmds)[i] = cmds[i + 1]
  BY <1>1, TailCommands DEF Front
<1>12. Len(cmds) \in Nat
  BY <1>2
<1>3. Arriving
  BY <1>1 DEF I2cInv, I2cPending, Lost
<1>4. Due \in Nat /\ Due' = Due /\ Due \in 1 .. Depth /\ Depth \in Nat
  BY <1>1, <1>3, LenProperties, I2cAssumption DEF Due, Arriving
<1>13. Due \in Nat
  BY <1>4
<1>5. (Front.read <=> 1 >= Len(cmds) - Due) /\ (Front.read => (Front.address <=> 1 = Len(cmds) - Due))
  <2>1. 1 \in 1 .. Len(cmds) /\ Front = cmds[1]
    BY <1>2
  <2>2. /\ cmds[1].read <=> 1 >= Len(cmds) - Due
        /\ cmds[1].read => (cmds[1].address <=> 1 = Len(cmds) - Due)
    BY <1>3, <2>1, Zenon DEF Arriving
  <2>. QED  BY <2>1, <2>2, Zenon
<1>7. ASSUME AckAddress \/ AckData \/ SendData
      PROVE  \A i \in 1 .. Len(cmds') : /\ cmds'[i].read <=> i >= Len(cmds') - Due
                                        /\ cmds'[i].read => (cmds'[i].address <=> i = Len(cmds') - Due)
  <2>1. cmds' = Tail(cmds)
    BY <1>7 DEF AckAddress, AckData, SendData, Works
  <2>. TAKE i \in 1 .. Len(cmds')
  <2>2. i + 1 \in 1 .. Len(cmds) /\ cmds'[i] = cmds[i + 1] /\ Len(cmds') = Len(cmds) - 1 /\ i \in Nat
    BY <1>2, <2>1
  <2>3. /\ cmds[i + 1].read <=> i + 1 >= Len(cmds) - Due
        /\ cmds[i + 1].read => (cmds[i + 1].address <=> i + 1 = Len(cmds) - Due)
    BY <1>3, <2>2 DEF Arriving
  <2>4. (i + 1 >= Len(cmds) - Due <=> i >= Len(cmds') - Due) /\ (i + 1 = Len(cmds) - Due <=> i = Len(cmds') - Due)
    <3>1. Len(cmds') = Len(cmds) - 1 /\ i \in Nat
      BY <2>2
    <3>. QED  BY <1>12, <1>13, <3>1
  <2>. QED  BY <2>2, <2>3, <2>4
<1>8. CASE AckAddress
  <2>1. cmds' = Tail(cmds) /\ Front.address /\ replied' = 0 /\ rxf' = rxf
    BY <1>8 DEF AckAddress, Works
  <2>2. Len(cmds) > Due /\ rxf = <<>> /\ irqbuf = <<>>
    <3>1. ~(1 >= Len(cmds) - Due) \/ 1 = Len(cmds) - Due
      BY <1>5, <2>1
    <3>2. Len(cmds) > Due
      BY <1>12, <1>13, <3>1
    <3>. QED  BY <3>2, <1>3 DEF Arriving
  <2>3. Len(rxf') = 0 /\ Len(irqbuf) = 0
    BY <2>1, <2>2, EmptySeq
  <2>4. Len(cmds') <= Due => Len(cmds') = Due
    <3>1. Len(cmds') = Len(cmds) - 1 /\ Len(cmds) > Due
      BY <1>2, <2>1, <2>2
    <3>. QED  BY <1>12, <1>13, <3>1
  <2>5. /\ Len(cmds') <= Due => replied' = Due - Len(cmds') /\ Len(rxf') = replied' - Len(irqbuf')
                                /\ \A i \in 1 .. Len(rxf') : rxf'[i] = Reply(Len(irqbuf') + i)
        /\ Len(cmds') > Due => rxf' = <<>> /\ irqbuf' = <<>>
        /\ \A i \in 1 .. Len(irqbuf') : irqbuf'[i] = Reply(i)
    <3>1. Len(cmds') <= Due => replied' = Due - Len(cmds') /\ Len(rxf') = replied' - Len(irqbuf')
      BY <1>1, <1>4, <2>1, <2>3, <2>4
    <3>2. rxf' = <<>> /\ irqbuf' = <<>>
      BY <1>1, <2>1, <2>2
    <3>3. /\ \A i \in 1 .. Len(rxf') : rxf'[i] = Reply(Len(irqbuf') + i)
          /\ \A i \in 1 .. Len(irqbuf') : irqbuf'[i] = Reply(i)
      BY <1>1, <2>1, <2>3
    <3>. QED  BY <3>1, <3>2, <3>3
  <2>. QED  BY <1>4, <1>7, <1>8, <2>5 DEF Arriving
<1>9. CASE AckData
  <2>1. cmds' = Tail(cmds) /\ ~Front.address /\ ~Front.read /\ rxf' = rxf
    BY <1>9 DEF AckData, Works
  <2>2. Len(cmds') > Due /\ Len(cmds) > Due
    <3>1. Len(cmds') = Len(cmds) - 1 /\ ~(1 >= Len(cmds) - Due)
      BY <1>2, <1>5, <2>1
    <3>. QED  BY <1>12, <1>13, <3>1
  <2>3. rxf' = <<>> /\ irqbuf' = <<>> /\ Len(irqbuf') = 0
    BY <1>1, <1>3, <2>1, <2>2, EmptySeq DEF Arriving
  <2>. QED  BY <1>4, <1>7, <1>9, <2>2, <2>3 DEF Arriving
<1>10. CASE SendData
  <2>1. /\ cmds' = Tail(cmds) /\ ~Front.address /\ Front.read /\ replied' = replied + 1
        /\ Len(rxf) < Depth => rxf' = Append(rxf, Reply(replied + 1))
    BY <1>10 DEF SendData, Works
  <2>2. Len(cmds) <= Due /\ Len(cmds') = Len(cmds) - 1
    <3>1. Len(cmds') = Len(cmds) - 1 /\ 1 >= Len(cmds) - Due /\ ~(1 = Len(cmds) - Due)
      BY <1>2, <1>5, <2>1
    <3>. QED  BY <1>12, <1>13, <3>1
  <2>3. /\ replied = Due - Len(cmds) /\ Len(rxf) = replied - Len(irqbuf)
        /\ \A i \in 1 .. Len(rxf) : rxf[i] = Reply(Len(irqbuf) + i)
        /\ \A i \in 1 .. Len(irqbuf) : irqbuf[i] = Reply(i)
    BY <1>3, <2>2 DEF Arriving
  <2>4. Len(rxf) \in Nat /\ Len(irqbuf) \in Nat /\ Reply(replied + 1) \in Int
    BY <1>1, LenProperties DEF Reply
  <2>5. Len(rxf) < Depth
    <3>1. Len(cmds) >= 1 /\ Due <= Depth /\ Depth \in Nat
      BY <1>2, <1>4
    <3>2. Len(rxf) = (Due - Len(cmds)) - Len(irqbuf)
      BY <2>3
    <3>. QED  BY <1>12, <1>13, <2>4, <3>1, <3>2
  <2>6. /\ Len(rxf') = Len(rxf) + 1
        /\ \A i \in 1 .. Len(rxf) : rxf'[i] = rxf[i]
        /\ rxf'[Len(rxf) + 1] = Reply(replied + 1)
    BY <1>1, <2>1, <2>4, <2>5, AppendProperties
  <2>7. replied + 1 = Len(irqbuf) + (Len(rxf) + 1)
    BY <1>1, <2>3, <2>4
  <2>8. \A i \in 1 .. Len(rxf') : rxf'[i] = Reply(Len(irqbuf) + i)
    <3>. TAKE i \in 1 .. Len(rxf')
    <3>1. CASE i \in 1 .. Len(rxf)
      BY <3>1, <2>3, <2>6
    <3>2. CASE i = Len(rxf) + 1
      BY <3>2, <2>6, <2>7
    <3>. QED  BY <2>4, <2>6, <3>1, <3>2
  <2>9. /\ replied' = Due - Len(cmds') /\ Len(rxf') = replied' - Len(irqbuf)
        /\ Len(cmds') <= Due /\ ~(Len(cmds') > Due)
    BY <1>1, <1>12, <1>4, <2>1, <2>2, <2>3, <2>4, <2>6
  <2>. QED  BY <1>1, <1>4, <1>7, <1>10, <2>3, <2>8, <2>9 DEF Arriving
<1>11. CASE Nack \/ LoseArbitration
  <2>1. cmds' = <<>> /\ rxf' = rxf /\ (Front.address \/ ~Front.read)
    BY <1>11 DEF Nack, LoseArbitration, Works
  <2>2. Len(cmds) > Due
    <3>1. ~(1 >= Len(cmds) - Due) \/ 1 = Len(cmds) - Due
      BY <1>5, <2>1
    <3>. QED  BY <1>12, <1>13, <3>1
  <2>3. rxf' = <<>> /\ irqbuf' = <<>> /\ irq_left' >= 1
    <3>1. rxf = <<>> /\ irqbuf = <<>>
      BY <1>3, <2>2 DEF Arriving
    <3>2. Len(irqbuf) = 0
      BY <3>1, EmptySeq
    <3>. QED  BY <1>1, <1>4, <2>1, <3>1, <3>2 DEF Due
  <2>. QED  BY <2>1, <2>3 DEF Lost
<1>. QED  BY <1>8, <1>9, <1>10, <1>11 DEF CoreWorks

LEMMA CorePending ==
  ASSUME I2cInv, CoreWorks
  PROVE  I2cPending'
<1>1. /\ en /\ cmds # <<>> /\ UNCHANGED <<irq_busy, isrpc, irq_left, i2c_pc, status>> /\ (InHand' <=> InHand)
      /\ cmds \in Seq(Commands)
  <2>1. en /\ cmds # <<>> /\ UNCHANGED <<irqs, i2cDriver>>
    BY DEF CoreWorks, AckAddress, AckData, SendData, Nack, LoseArbitration, Works
  <2>. QED  BY <2>1, CoreRest DEF irqs, i2cDriver, I2cInv, I2cTypes
<1>2. ASSUME irq_busy = 1
      PROVE  rxf' = <<>> /\ \A i \in 1 .. Len(cmds') : ~cmds'[i].read
  <2>1. rxf = <<>> /\ \A i \in 1 .. Len(cmds) : ~cmds[i].read
    BY <1>2 DEF I2cInv, I2cPending
  <2>2. /\ Len(cmds) \in Nat \ {0} /\ Front = cmds[1]
        /\ Len(Tail(cmds)) = Len(cmds) - 1
        /\ \A i \in 1 .. Len(Tail(cmds)) : Tail(cmds)[i] = cmds[i + 1]
    BY <1>1, TailCommands DEF Front
  <2>3. ~Front.read
    BY <2>1, <2>2
  <2>4. rxf' = rxf /\ cmds' \in {<<>>, Tail(cmds)}
    BY <2>3 DEF CoreWorks, AckAddress, AckData, SendData, Nack, LoseArbitration, Works
  <2>5. Len(<<>>) = 0
    BY EmptySeq
  <2>6. CASE cmds' = <<>>
    BY <2>1, <2>4, <2>5, <2>6
  <2>7. CASE cmds' = Tail(cmds)
    <3>1. \A i \in 1 .. Len(cmds') : i + 1 \in 1 .. Len(cmds) /\ cmds'[i] = cmds[i + 1]
      BY <2>2, <2>7
    <3>. QED  BY <2>1, <2>4, <3>1
  <2>. QED  BY <2>4, <2>6, <2>7
<1>3. irq_busy = 2 => Lost' \/ Arriving'
  BY CoreArriving
<1>4. ~InHand => irq_busy # 0
  BY <1>1, CoreOwner
<1>5. isrpc = "end" /\ irq_busy = 2 => irq_left = 0
  BY DEF I2cInv, I2cPending
<1>. QED  BY <1>1, <1>2, <1>3, <1>4, <1>5 DEF I2cPending

LEMMA StopSentStep ==
  ASSUME I2cInv, StopSent
  PROVE  I2cInv'
<1>1. UNCHANGED <<cmds, rxf, device_heard, replied, en, i2c_isr, iser, callback, irq_busy, irq_left, irqbuf, isrpc, saved,
                  request, i2c_pc, phase, sent, i2c_got, status, tries, buf>>
  BY DEF StopSent, control, irqs, i2cDriver
<1>2. UNCHANGED <<TxCommands, Sequel, Restart, Stop, Size, Address, Total, Flushing, InHand, AwaitsIrq, ArmedNow, Due>>
  BY <1>1 DEF TxCommands, Sequel, Restart, Stop, Size, Address, Total, Flushing, InHand, AwaitsIrq, ArmedNow, Due
<1>3. I2cTypes' /\ I2cControl' /\ I2cPlaces'
  BY <1>1, <1>2 DEF I2cInv, I2cTypes, I2cControl, I2cPlaces
<1>4. ASSUME NEW k \in Nat, QueuedAt(k)
      PROVE  QueuedAt(k)'
  <2>1. WrittenTo(k)' /\ InOrder(k)'
    BY <1>1, <1>2, <1>4 DEF QueuedAt, WrittenTo, InOrder, Fits
  <2>2. Heard(k)' /\ Answered(k)'
    BY <1>1, <1>2, <1>4 DEF QueuedAt, Heard, HeardOf, HasHeard, Answered
  <2>. QED  BY <2>1, <2>2 DEF QueuedAt
<1>5. I2cQueue'
  BY <1>1, <1>2, <1>4 DEF I2cInv, I2cQueue
<1>6. (Lost <=> Lost') /\ (Arriving <=> Arriving') /\ (HasReplies(irqbuf) <=> HasReplies(irqbuf)') /\ (HasReplies(buf) <=> HasReplies(buf)')
  BY <1>1, <1>2 DEF Lost, Arriving, HasReplies
<1>7. I2cPending'
  BY <1>1, <1>2, <1>6 DEF I2cInv, I2cPending
<1>8. I2cResults'
  BY <1>1, <1>2, <1>6 DEF I2cInv, I2cResults
<1>. QED  BY <1>3, <1>5, <1>7, <1>8 DEF I2cInv

LEMMA CoreStep ==
  ASSUME I2cInv, Core
  PROVE  I2cInv'
<1>1. CASE CoreWorks
  BY <1>1, CoreTypes, CoreRest, CoreQueue, CorePending DEF I2cInv
<1>2. CASE StopSent
  BY <1>2, StopSentStep
<1>. QED  BY <1>1, <1>2 DEF Core, CoreWorks

(***************************************************************************)
(* What a step leaves alone.                                               *)
(***************************************************************************)
LEMMA SameCall ==
  ASSUME UNCHANGED <<request, phase>>
  PROVE  UNCHANGED <<TxCommands, Sequel, Restart, Stop, Size, Address, Total>>
BY DEF TxCommands, Sequel, Restart, Stop, Size, Address, Total

LEMMA SameQueue ==
  ASSUME NEW k \in Nat, QueuedAt(k),
         UNCHANGED <<cmds, rxf, device_heard, replied, request, phase, sent>>,
         status' = "SUCCESS" => status = "SUCCESS" /\ i2c_got' = i2c_got
  PROVE  QueuedAt(k)'
<1>1. UNCHANGED <<TxCommands, Sequel, Address>>
  BY SameCall
<1>2. WrittenTo(k)'
  BY <1>1 DEF QueuedAt, WrittenTo
<1>3. InOrder(k)'
  BY <1>1 DEF QueuedAt, InOrder, Fits
<1>4. Heard(k)'
  BY <1>1 DEF QueuedAt, Heard, HeardOf, HasHeard
<1>5. Answered(k)'
  BY <1>1 DEF QueuedAt, Answered
<1>. QED  BY <1>2, <1>3, <1>4, <1>5 DEF QueuedAt

LEMMA SameArriving ==
  ASSUME UNCHANGED <<cmds, rxf, replied, irqbuf, irq_left>>
  PROVE  (Lost <=> Lost') /\ (Arriving <=> Arriving') /\ Due' = Due
<1>1. Due' = Due
  BY DEF Due
<1>. QED  BY <1>1 DEF Lost, Arriving

LEMMA SameReplies ==
  ASSUME UNCHANGED <<request, irqbuf, buf>>
  PROVE  (HasReplies(irqbuf) <=> HasReplies(irqbuf)') /\ (HasReplies(buf) <=> HasReplies(buf)')
BY DEF HasReplies

\* an interrupt finds no call with the core in hand
LEMMA InterruptRuns ==
  ASSUME I2cInv, iser # {} \/ isrpc # "off"
  PROVE  /\ ~InHand /\ irq_busy # 0 /\ callback
         /\ ~((i2c_pc = "idle" \/ (i2c_pc = "retry" /\ Stop)) /\ status = "SUCCESS" /\ ~request.ints)
         /\ ~(i2c_pc = "idle" /\ status = "SUCCESS")
<1>1. irq_busy # 0 /\ callback /\ ~InHand
  BY DEF I2cInv, I2cControl
<1>. QED  BY <1>1 DEF I2cInv, I2cControl, ArmedNow

(***************************************************************************)
(* The call, while the core is not in its hands.                           *)
(***************************************************************************)
LEMMA CallTypes ==
  ASSUME NEW c \in I2cCalls
  PROVE  /\ c \in Requests
         /\ c.op # "tx" => ~c.ten /\ c.rx \in 1 .. Depth
         /\ c.shared => c.op = "txrx"
<1>. DEFINE Tx == [op : {"tx"}, tx : TxSizes, rx : {0}, ints : Ints, shared : {FALSE}, ten : TenBit]
            Rx == [op : {"rx"}, tx : {0}, rx : RxSizes, ints : Ints, shared : {FALSE}, ten : {FALSE}]
            TxRx == [op : {"txrx"}, tx : TxSizes, rx : RxSizes, ints : Ints, shared : Shared, ten : {FALSE}]
<1>1. c \in Tx \/ c \in Rx \/ c \in TxRx
  BY DEF I2cCalls
<1>6. TxSizes \subseteq Nat /\ RxSizes \subseteq Nat /\ RxSizes \subseteq 1 .. Depth
  BY I2cAssumption
<1>2. /\ Ints \subseteq BOOLEAN /\ Shared \subseteq BOOLEAN /\ TenBit \subseteq BOOLEAN
  BY I2cAssumption
<1>7. 0 \in Nat
  OBVIOUS
<1>3. CASE c \in Tx
  <2>1. c.ints \in Ints /\ c.shared \in {FALSE} /\ c.ten \in TenBit
    BY <1>3, Zenon
  <2>6. c.tx \in TxSizes /\ c.rx = 0
    BY <1>3, Zenon
  <2>7. c.tx \in Nat /\ c.rx \in Nat
    BY <1>6, <2>6, <1>7, Zenon
  <2>4. c.op = "tx" /\ c.tx \in Nat /\ c.rx \in Nat
    BY <1>3, <2>7, Zenon
  <2>5. c.ints \in BOOLEAN /\ c.shared \in BOOLEAN /\ ~c.shared /\ c.ten \in BOOLEAN
    BY <1>2, <2>1, Zenon
  <2>2. c = [op |-> c.op, tx |-> c.tx, rx |-> c.rx, ints |-> c.ints, shared |-> c.shared, ten |-> c.ten]
    BY <1>3
  <2>3. c \in Requests
    BY <2>2, <2>4, <2>5 DEF Requests
  <2>. QED  BY <2>3, <2>4, <2>5
<1>4. CASE c \in Rx
  <2>1. c.ints \in Ints /\ c.shared \in {FALSE} /\ c.ten \in {FALSE}
    BY <1>4, Zenon
  <2>6. c.tx = 0 /\ c.rx \in RxSizes
    BY <1>4, Zenon
  <2>7. c.tx \in Nat /\ c.rx \in Nat /\ c.rx \in 1 .. Depth
    BY <1>6, <2>6, <1>7, Zenon
  <2>4. c.op = "rx" /\ c.tx \in Nat /\ c.rx \in Nat /\ c.rx \in 1 .. Depth
    BY <1>4, <2>7, Zenon
  <2>5. c.ints \in BOOLEAN /\ c.shared \in BOOLEAN /\ ~c.shared /\ c.ten \in BOOLEAN /\ ~c.ten
    BY <1>2, <2>1, Zenon
  <2>2. c = [op |-> c.op, tx |-> c.tx, rx |-> c.rx, ints |-> c.ints, shared |-> c.shared, ten |-> c.ten]
    BY <1>4
  <2>3. c \in Requests
    BY <2>2, <2>4, <2>5 DEF Requests
  <2>. QED  BY <2>3, <2>4, <2>5
<1>5. CASE c \in TxRx
  BY <1>2, <1>5, <1>6 DEF Requests
<1>. QED  BY <1>1, <1>3, <1>4, <1>5

LEMMA StartStep ==
  ASSUME I2cInv, NEW c \in I2cCalls, Start(c)
  PROVE  I2cInv'
<1>1. /\ i2c_pc = "idle" \/ (i2c_pc = "armed" /\ en)
      /\ isrpc = "off" /\ request' = c /\ i2c_pc' = "begin" /\ status' = "SUCCESS"
      /\ phase' = IF c.op = "rx" THEN "receive" ELSE "transmit"
      /\ buf' = IF c.shared THEN [i \in 1..c.tx |-> i] ELSE <<>>
      /\ sent' = 0 /\ i2c_got' = 0
      /\ UNCHANGED <<cmds, rxf, device_heard, replied, en, i2c_isr, iser, callback, irq_busy, irq_left, irqbuf,
                     isrpc, saved>>
  BY DEF Start, I2cAt, i2cHardware, control, irqs
<1>2. ~InHand /\ ~ArmedNow
  BY <1>1 DEF InHand, ArmedNow
<1>3. ~Restart' /\ ~InHand' /\ ~AwaitsIrq' /\ ~ArmedNow'
  BY <1>1 DEF Restart, InHand, AwaitsIrq, ArmedNow
<1>4. I2cTypes'
  <2>1. buf' \in Seq(Int) /\ (c.shared => Len(buf') >= c.tx)
    <3>1. c.tx \in Nat
      BY CallTypes DEF Requests
    <3>2. [i \in 1..c.tx |-> i] \in Seq(Int) /\ Len([i \in 1..c.tx |-> i]) = c.tx
      BY <3>1
    <3>. QED  BY <1>1, <3>1, <3>2, EmptySeq
  <2>2. sent' \in Nat /\ i2c_got' \in Nat
    BY <1>1
  <2>. QED  BY <1>1, <2>1, <2>2, CallTypes DEF I2cInv, I2cTypes
<1>5. I2cControl'
  <2>1. irq_busy # 0 => en
    BY <1>1, <1>2 DEF I2cInv, I2cControl, AwaitsIrq
  <2>. QED  BY <1>1, <1>2, <1>3, <2>1 DEF I2cInv, I2cControl
<1>6. I2cPlaces' /\ I2cQueue'
  BY <1>1, <1>3 DEF I2cPlaces, I2cQueue
<1>7. I2cPending'
  BY <1>1, <1>2, <1>3, SameArriving DEF I2cInv, I2cPending
<1>8. I2cResults'
  BY <1>1, <1>3 DEF I2cResults
<1>. QED  BY <1>4, <1>5, <1>6, <1>7, <1>8 DEF I2cInv

LEMMA RegisterStep ==
  ASSUME I2cInv, RegisterCallback
  PROVE  I2cInv'
<1>1. /\ i2c_pc = "idle" /\ isrpc = "off" /\ ~callback /\ callback' = TRUE /\ irq_busy' = 0
      /\ UNCHANGED <<cmds, rxf, device_heard, replied, en, i2c_isr, iser, irq_left, irqbuf, isrpc, saved,
                     request, i2c_pc, phase, sent, i2c_got, status, buf>>
  BY DEF RegisterCallback, I2cAt, i2cHardware, control, i2cDriver
<1>2. irq_busy = 0
  BY <1>1 DEF I2cInv, I2cControl
<1>3. ~InHand /\ ~InHand' /\ ~AwaitsIrq' /\ ~ArmedNow' /\ ~AwaitsIrq /\ ~ArmedNow
  BY <1>1 DEF InHand, AwaitsIrq, ArmedNow
<1>4. I2cTypes' /\ I2cControl'
  BY <1>1, <1>2, <1>3 DEF I2cInv, I2cTypes, I2cControl
<1>5. I2cPlaces' /\ I2cQueue'
  BY <1>1, <1>3 DEF I2cPlaces, I2cQueue
<1>6. I2cPending'
  BY <1>1, <1>2, <1>3, SameArriving DEF I2cInv, I2cPending
<1>7. I2cResults'
  BY <1>1, <1>3, SameReplies DEF I2cInv, I2cResults
<1>. QED  BY <1>4, <1>5, <1>6, <1>7 DEF I2cInv

LEMMA AgainStep ==
  ASSUME I2cInv, Again
  PROVE  I2cInv'
<1>1. /\ i2c_pc = "retry" /\ isrpc = "off" /\ status \in {"ARB_LOST_ERR", "NACK_ERR", "BUSY"}
      /\ phase' = FirstPhase /\ i2c_pc' = "begin" /\ sent' = 0 /\ i2c_got' = 0
      /\ UNCHANGED <<cmds, rxf, device_heard, replied, en, i2c_isr, iser, callback, irq_busy, irq_left, irqbuf,
                     isrpc, saved,
                     request, status, buf>>
  BY DEF Again, I2cAt, i2cHardware, control, irqs, Retriable
<1>2. ~InHand /\ ~ArmedNow /\ ~AwaitsIrq
  BY <1>1 DEF InHand, ArmedNow, AwaitsIrq
<1>3. phase' \in {"transmit", "receive"} /\ (phase' = "receive" <=> request.op = "rx")
  BY <1>1 DEF FirstPhase
<1>4. ~Restart' /\ ~InHand' /\ ~AwaitsIrq' /\ ~ArmedNow'
  BY <1>1, <1>3 DEF Restart, InHand, AwaitsIrq, ArmedNow
<1>5. I2cTypes'
  <2>1. sent' \in Nat /\ i2c_got' \in Nat
    BY <1>1
  <2>. QED  BY <1>1, <1>3, <2>1 DEF I2cInv, I2cTypes
<1>6. I2cControl'
  BY <1>1, <1>2, <1>4 DEF I2cInv, I2cControl
<1>7. I2cPlaces' /\ I2cQueue'
  BY <1>1, <1>4 DEF I2cPlaces, I2cQueue
<1>8. I2cPending'
  BY <1>1, <1>2, <1>4, SameArriving DEF I2cInv, I2cPending
<1>9. I2cResults'
  BY <1>1, <1>4 DEF I2cResults
<1>. QED  BY <1>5, <1>6, <1>7, <1>8, <1>9 DEF I2cInv

LEMMA ReturnStep ==
  ASSUME I2cInv, I2cReturn
  PROVE  I2cInv'
<1>1. /\ i2c_pc = "retry" /\ isrpc = "off" /\ (status = "SUCCESS" => Stop) /\ (status = "TIMEOUT" => Stop)
      /\ i2c_pc' = IF status = "SUCCESS" THEN (IF request.ints THEN "armed" ELSE "idle")
                   ELSE IF request.ints /\ status # "TIMEOUT" THEN "idle" ELSE "hang"
      /\ UNCHANGED <<cmds, rxf, device_heard, replied, en, i2c_isr, iser, callback, irq_busy, irq_left, irqbuf,
                     isrpc, saved,
                     request, phase, sent, i2c_got, status, buf>>
  BY DEF I2cReturn, I2cAt, i2cHardware, control, irqs, Retriable
<1>2. ~InHand /\ ~AwaitsIrq /\ (ArmedNow <=> status = "SUCCESS" /\ request.ints)
  BY <1>1 DEF InHand, ArmedNow, AwaitsIrq
<1>3. ~InHand' /\ (AwaitsIrq' <=> status = "SUCCESS" /\ request.ints) /\ ~ArmedNow'
  BY <1>1 DEF InHand, AwaitsIrq, ArmedNow
<1>4. I2cTypes'
  BY <1>1 DEF I2cInv, I2cTypes
<1>5. I2cControl'
  BY <1>1, <1>2, <1>3 DEF I2cInv, I2cControl
<1>6. I2cPlaces' /\ I2cQueue'
  BY <1>1, <1>3 DEF I2cPlaces, I2cQueue
<1>7. I2cPending'
  BY <1>1, <1>2, <1>3, SameArriving DEF I2cInv, I2cPending
<1>8. I2cResults'
  BY <1>1, <1>2, <1>3, SameReplies, SameArriving DEF I2cInv, I2cResults
<1>. QED  BY <1>4, <1>5, <1>6, <1>7, <1>8 DEF I2cInv

LEMMA BeginStep ==
  ASSUME I2cInv, Begin
  PROVE  I2cInv'
<1>1. /\ i2c_pc = "begin" /\ isrpc = "off" /\ sent' = 0 /\ i2c_got' = 0 /\ sent = 0 /\ i2c_got = 0
      /\ UNCHANGED <<cmds, rxf, device_heard, replied, iser, callback, irq_left, irqbuf, isrpc, saved,
                     request, phase, buf>>
  BY DEF Begin, I2cAt, i2cHardware, I2cGoto, I2cInv, I2cPlaces
<1>2. ~ArmedNow /\ ~AwaitsIrq /\ (InHand <=> Restart) /\ UNCHANGED <<Restart, Stop, Total, Size, Address,
                                                                     Sequel, TxCommands>>
  BY <1>1, SameCall DEF InHand, ArmedNow, AwaitsIrq
<1>3. irq_busy # 0 => en /\ ~Restart
  BY <1>2 DEF I2cInv, I2cControl
<1>4. I2cTypes /\ sent' \in Nat /\ i2c_got' \in Nat
  BY <1>1 DEF I2cInv
<1>5. ASSUME request.ints, ~callback, status' = "BAD_ARG", i2c_pc' = "retry", UNCHANGED <<en, i2c_isr, irq_busy>>
      PROVE  I2cInv'
  <2>1. irq_busy = 0 /\ ~en
    BY <1>1, <1>2, <1>5 DEF I2cInv, I2cControl
  <2>2. rxf = <<>>
    BY <1>1, <1>2, <2>1 DEF I2cInv, I2cQueue, I2cPending
  <2>3. ~InHand' /\ ~AwaitsIrq' /\ ~ArmedNow'
    BY <1>5 DEF InHand, AwaitsIrq, ArmedNow
  <2>4. I2cTypes' /\ I2cControl'
    BY <1>1, <1>4, <1>5, <2>1, <2>3 DEF I2cInv, I2cTypes, I2cControl
  <2>5. I2cPlaces' /\ I2cQueue'
    BY <1>5, <2>3 DEF I2cPlaces, I2cQueue
  <2>6. I2cPending' /\ I2cResults'
    BY <1>1, <1>5, <2>1, <2>2, <2>3 DEF I2cPending, I2cResults
  <2>. QED  BY <2>4, <2>5, <2>6 DEF I2cInv
<1>6. ASSUME request.ints => callback, Restart, status' = "SUCCESS", i2c_pc' = "cmd", UNCHANGED <<en, i2c_isr, irq_busy>>
      PROVE  I2cInv'
  <2>1. irq_busy = 0 /\ InHand /\ InHand' /\ ~AwaitsIrq' /\ ~ArmedNow'
    BY <1>2, <1>3, <1>6 DEF InHand, AwaitsIrq, ArmedNow
  <2>2. phase = "receive" /\ request.op = "txrx"
    BY <1>6 DEF Restart
  <2>3. Total \in Nat /\ Total >= 1
    BY <1>4, Sizes
  <2>4. I2cTypes' /\ I2cControl'
    BY <1>1, <1>4, <1>6, <2>1 DEF I2cInv, I2cTypes, I2cControl
  <2>5. I2cPlaces'
    BY <1>1, <1>2, <1>6, <2>1, <2>2, <2>3 DEF I2cPlaces
  <2>6. I2cQueue'
    <3>1. Flushing' = Flushing
      BY <1>6 DEF Flushing
    <3>2. ASSUME en, ~Flushing
          PROVE  \E k \in Nat : QueuedAt(k)'
      <4>1. PICK k \in Nat : QueuedAt(k)
        BY <2>1, <3>2 DEF I2cInv, I2cQueue
      <4>2. status = "SUCCESS"
        BY <1>1, <1>6, <2>1, <3>2 DEF I2cInv, I2cPlaces
      <4>3. QueuedAt(k)'
        BY <1>1, <1>6, <4>1, <4>2, SameQueue
      <4>. QED  BY <4>3
    <3>3. ~en \/ Flushing => cmds = <<>> /\ rxf = <<>>
      BY <2>1 DEF I2cInv, I2cQueue
    <3>4. Len(buf) >= 0
      BY <1>4, LenProperties DEF I2cTypes
    <3>. QED  BY <1>1, <1>6, <3>1, <3>2, <3>3, <3>4 DEF I2cQueue
  <2>7. I2cPending' /\ I2cResults'
    BY <1>1, <1>6, <2>1 DEF I2cPending, I2cResults
  <2>. QED  BY <2>4, <2>5, <2>6, <2>7 DEF I2cInv
<1>7. ASSUME request.ints => callback, ~Restart, en, status' = "BUSY", i2c_pc' = "retry", UNCHANGED <<en, i2c_isr, irq_busy>>
      PROVE  I2cInv'
  <2>1. ~InHand /\ ~InHand' /\ ~AwaitsIrq' /\ ~ArmedNow'
    BY <1>2, <1>7 DEF InHand, AwaitsIrq, ArmedNow
  <2>2. I2cTypes' /\ I2cControl'
    BY <1>1, <1>4, <1>7, <2>1 DEF I2cInv, I2cTypes, I2cControl
  <2>3. I2cPlaces' /\ I2cQueue'
    BY <1>7, <2>1 DEF I2cPlaces, I2cQueue
  <2>4. I2cPending'
    BY <1>1, <1>7, <2>1, SameArriving DEF I2cInv, I2cPending
  <2>5. I2cResults'
    BY <1>7, <2>1 DEF I2cResults
  <2>. QED  BY <2>2, <2>3, <2>4, <2>5 DEF I2cInv
<1>8. ASSUME request.ints => callback, ~Restart, alt_avalon_i2c_enable, alt_avalon_i2c_int_clear,
             status' = "SUCCESS", i2c_pc' = "cmd"
      PROVE  I2cInv'
  <2>1. ~en /\ en' = TRUE /\ irq_busy = 0 /\ irq_busy' = 0 /\ i2c_isr' = i2c_isr \ Clearable
    BY <1>3, <1>8 DEF alt_avalon_i2c_enable, alt_avalon_i2c_int_clear
  <2>2. cmds = <<>> /\ iser = {} /\ ~InHand /\ InHand' /\ ~AwaitsIrq' /\ ~ArmedNow' /\ ~Flushing'
    BY <1>2, <1>8, <2>1 DEF I2cInv, I2cControl, InHand, AwaitsIrq, ArmedNow, Flushing, Clearable
  <2>3. rxf = <<>>
    BY <1>1, <2>1, <2>2 DEF I2cInv, I2cPending
  <2>4. Total \in Nat /\ Total >= 1 /\ Sequel \in Nat /\ TxCommands \in Nat
        /\ (Sequel = 0 \/ (request.op = "rx" /\ Sequel = 0 /\ TxCommands = 0))
    <3>1. phase = "receive" => request.op = "rx"
      BY <1>4, <1>8, Sizes DEF I2cTypes, Requests
    <3>. QED  BY <1>4, <3>1, Sizes DEF I2cTypes
  <2>5. i2c_isr' \subseteq Clearable
    BY <1>4, <2>1 DEF I2cTypes
  <2>6. I2cTypes' /\ I2cControl'
    BY <1>1, <1>4, <1>8, <2>1, <2>2, <2>5 DEF I2cInv, I2cTypes, I2cControl
  <2>7. I2cPlaces'
    BY <1>1, <1>2, <1>8, <2>1, <2>4 DEF I2cPlaces
  <2>8. QueuedAt(0)'
    <3>1. Len(cmds') = 0 /\ cmds' = <<>> /\ rxf' = <<>>
      BY <1>1, <2>2, <2>3, EmptySeq
    <3>2. WrittenTo(0)' /\ InOrder(0)'
      BY <1>1, <1>2, <2>4, <3>1 DEF WrittenTo, InOrder
    <3>3. Heard(0)' /\ Answered(0)'
      BY <1>1, <1>2, <2>4, <3>1 DEF Heard, Answered
    <3>. QED  BY <3>2, <3>3 DEF QueuedAt
  <2>9. I2cQueue'
    <3>1. Len(buf) >= 0
      BY <1>4, LenProperties DEF I2cTypes
    <3>2. 0 \in Nat
      OBVIOUS
    <3>. QED  BY <1>1, <2>1, <2>2, <2>8, <3>1, <3>2 DEF I2cQueue
  <2>10. I2cPending' /\ I2cResults'
    BY <1>1, <1>8, <2>1, <2>2 DEF I2cPending, I2cResults
  <2>. QED  BY <2>6, <2>7, <2>9, <2>10 DEF I2cInv
<1>. QED  BY <1>5, <1>6, <1>7, <1>8 DEF Begin, I2cGoto

(***************************************************************************)
(* interrupt_transaction_status                                            *)
(***************************************************************************)
LEMMA StatusGetStep ==
  ASSUME I2cInv, StatusGet
  PROVE  I2cInv'
<1>1. /\ i2c_pc = "armed" /\ isrpc = "off" /\ i2c_pc' = "status" /\ saved' = iser
      /\ UNCHANGED <<cmds, rxf, device_heard, replied, en, i2c_isr, iser, callback, irq_busy, irq_left, irqbuf, isrpc,
                     request, phase, sent, i2c_got, status, buf>>
  BY DEF StatusGet, I2cAt, i2cHardware, control
<1>2. ~InHand /\ ~InHand' /\ AwaitsIrq /\ AwaitsIrq' /\ ~ArmedNow /\ ~ArmedNow'
  BY <1>1 DEF InHand, AwaitsIrq, ArmedNow
<1>3. I2cTypes' /\ I2cControl'
  BY <1>1, <1>2 DEF I2cInv, I2cTypes, I2cControl
<1>4. I2cPlaces' /\ I2cQueue'
  BY <1>1, <1>2 DEF I2cPlaces, I2cQueue
<1>5. I2cPending'
  BY <1>1, <1>2, SameArriving DEF I2cInv, I2cPending
<1>6. I2cResults'
  BY <1>1, <1>2, SameArriving, SameReplies DEF I2cInv, I2cResults
<1>. QED  BY <1>3, <1>4, <1>5, <1>6 DEF I2cInv

LEMMA StatusCheckStep ==
  ASSUME I2cInv, StatusCheck
  PROVE  I2cInv'
<1>1. /\ i2c_pc = "status" /\ isrpc = "off" /\ iser' = iser \ saved /\ status' \in {"SUCCESS", "NACK_ERR"}
      /\ i2c_pc' = IF status' # "SUCCESS" THEN (IF irq_busy # 0 THEN "abort" ELSE "idle")
                   ELSE IF irq_busy # 0 THEN "busy" ELSE "idle"
      /\ UNCHANGED <<cmds, rxf, device_heard, replied, en, i2c_isr, callback, irq_busy, irq_left, irqbuf, isrpc, saved,
                     request, phase, sent, i2c_got, buf>>
  BY DEF StatusCheck, I2cAt, i2cHardware, irqs, alt_avalon_i2c_int_disable, CheckNack
<1>2. ~InHand /\ ~InHand' /\ AwaitsIrq /\ (AwaitsIrq' <=> irq_busy # 0) /\ ~ArmedNow /\ ~ArmedNow'
  BY <1>1 DEF InHand, AwaitsIrq, ArmedNow
<1>3. iser' = {} /\ request.ints
  BY <1>1, <1>2 DEF I2cInv, I2cControl
<1>4. I2cTypes'
  BY <1>1, <1>3 DEF I2cInv, I2cTypes
<1>5. I2cControl'
  BY <1>1, <1>2, <1>3 DEF I2cInv, I2cControl
<1>6. I2cPlaces' /\ I2cQueue'
  BY <1>1, <1>2 DEF I2cPlaces, I2cQueue
<1>7. I2cPending'
  BY <1>1, <1>2, SameArriving DEF I2cInv, I2cPending
<1>8. I2cResults'
  BY <1>1, <1>2, <1>3, SameArriving, SameReplies DEF I2cInv, I2cResults
<1>. QED  BY <1>4, <1>5, <1>6, <1>7, <1>8 DEF I2cInv

LEMMA StatusBusyStep ==
  ASSUME I2cInv, StatusBusy
  PROVE  I2cInv'
<1>1. /\ i2c_pc = "busy" /\ isrpc = "off" /\ iser' = iser \cup saved /\ status' = "BUSY" /\ i2c_pc' = "armed"
      /\ UNCHANGED <<cmds, rxf, device_heard, replied, en, i2c_isr, callback, irq_busy, irq_left, irqbuf, isrpc, saved,
                     request, phase, sent, i2c_got, buf>>
  BY DEF StatusBusy, I2cAt, i2cHardware, irqs, alt_avalon_i2c_int_enable
<1>2. ~InHand /\ ~InHand' /\ AwaitsIrq /\ AwaitsIrq' /\ ~ArmedNow /\ ~ArmedNow'
  BY <1>1 DEF InHand, AwaitsIrq, ArmedNow
<1>3. iser' = saved /\ irq_busy # 0
  BY <1>1 DEF I2cInv, I2cControl
<1>4. I2cTypes'
  BY <1>1, <1>3 DEF I2cInv, I2cTypes
<1>5. I2cControl'
  BY <1>1, <1>2, <1>3 DEF I2cInv, I2cControl
<1>6. I2cPlaces' /\ I2cQueue'
  BY <1>1, <1>2 DEF I2cPlaces, I2cQueue
<1>7. I2cPending'
  BY <1>1, <1>2, SameArriving DEF I2cInv, I2cPending
<1>8. I2cResults'
  BY <1>1, <1>2, SameArriving, SameReplies DEF I2cInv, I2cResults
<1>. QED  BY <1>4, <1>5, <1>6, <1>7, <1>8 DEF I2cInv

LEMMA AbortStep ==
  ASSUME I2cInv, Abort
  PROVE  I2cInv'
<1>1. /\ i2c_pc = "abort" /\ isrpc = "off" /\ (status' = status \/ status' = "TIMEOUT")
      /\ en' = FALSE /\ iser' = iser \ {"TX_READY"} /\ cmds' = <<>> /\ rxf' = <<>> /\ irq_busy' = 0
      /\ i2c_pc' = IF status' = "TIMEOUT" THEN "hang" ELSE "idle"
      /\ UNCHANGED <<device_heard, replied, i2c_isr, callback, irq_left, irqbuf, isrpc, saved,
                     request, phase, sent, i2c_got, buf>>
  BY DEF Abort, I2cAt
<1>2. ~InHand /\ ~InHand' /\ ~AwaitsIrq' /\ ~ArmedNow'
  BY <1>1 DEF InHand, AwaitsIrq, ArmedNow
<1>3. iser' = {} /\ status' # "SUCCESS"
  BY <1>1 DEF I2cInv, I2cControl, I2cPlaces
<1>4. I2cTypes'
  <2>1. cmds' \in Seq(Commands) /\ rxf' \in Seq(Int)
    BY <1>1, EmptySeq, Zenon
  <2>2. en' \in BOOLEAN
    BY <1>1, Zenon
  <2>3. iser' \subseteq AllInts
    BY <1>3
  <2>4. irq_busy' \in 0 .. 2
    BY <1>1
  <2>. QED  BY <1>1, <2>1, <2>2, <2>3, <2>4 DEF I2cInv, I2cTypes
<1>5. I2cControl'
  BY <1>1, <1>2, <1>3 DEF I2cInv, I2cControl
<1>6. I2cPlaces' /\ I2cQueue'
  BY <1>1, <1>2 DEF I2cPlaces, I2cQueue
<1>7. I2cPending' /\ I2cResults'
  BY <1>1, <1>2, <1>3 DEF I2cPending, I2cResults
<1>. QED  BY <1>4, <1>5, <1>6, <1>7 DEF I2cInv

(***************************************************************************)
(* The interrupt.                                                          *)
(***************************************************************************)
LEMMA IrqEnterStep ==
  ASSUME I2cInv, IrqEnter
  PROVE  I2cInv'
<1>1. /\ isrpc = "off" /\ iser # {} /\ iser' = iser \ AllInts /\ i2c_isr' = i2c_isr \ Clearable
      /\ isrpc' = IF callback THEN "callback" ELSE "off"
      /\ UNCHANGED <<cmds, rxf, device_heard, replied, en, callback, irq_busy, irq_left, irqbuf, saved,
                     request, i2c_pc, phase, sent, i2c_got, status, buf>>
  BY DEF IrqEnter, i2cHardware, i2cDriver, alt_avalon_i2c_int_disable, alt_avalon_i2c_int_clear
<1>2. /\ ~InHand /\ irq_busy # 0 /\ callback
      /\ ~((i2c_pc = "idle" \/ (i2c_pc = "retry" /\ Stop)) /\ status = "SUCCESS" /\ ~request.ints)
      /\ ~(i2c_pc = "idle" /\ status = "SUCCESS")
  BY <1>1, InterruptRuns
<1>3. UNCHANGED <<AwaitsIrq, ArmedNow, InHand, Stop, Restart>>
  BY <1>1, SameCall DEF AwaitsIrq, ArmedNow, InHand
<1>4. iser' = {} /\ isrpc' = "callback" /\ i2c_pc \notin {"busy", "abort", "stop", "cmd", "check", "read"}
  BY <1>1, <1>2 DEF I2cInv, I2cTypes, I2cControl, InHand
<1>5. I2cTypes'
  BY <1>1, <1>4 DEF I2cInv, I2cTypes
<1>6. I2cControl'
  <2>1. i2c_pc = "status" /\ irq_busy = 2 => "RX_READY" \in saved
    BY <1>1 DEF I2cInv, I2cControl
  <2>. QED  BY <1>1, <1>2, <1>3, <1>4, <2>1 DEF I2cInv, I2cControl
<1>7. I2cPlaces' /\ I2cQueue'
  BY <1>1, <1>2, <1>3, <1>4 DEF I2cInv, I2cPlaces, I2cQueue
<1>8. I2cPending'
  BY <1>1, <1>2, <1>3, <1>4, SameArriving DEF I2cInv, I2cPending
<1>9. I2cResults'
  BY <1>1, <1>2, <1>3, SameArriving DEF I2cInv, I2cResults
<1>. QED  BY <1>5, <1>6, <1>7, <1>8, <1>9 DEF I2cInv

LEMMA IrqTransmitStep ==
  ASSUME I2cInv, IrqTransmit
  PROVE  I2cInv'
<1>1. /\ isrpc = "callback" /\ irq_busy # 2 /\ isrpc' = "end"
      /\ UNCHANGED <<cmds, rxf, device_heard, replied, en, i2c_isr, iser, callback, irq_busy, irq_left, irqbuf, saved,
                     request, i2c_pc, phase, sent, i2c_got, status, buf>>
  BY DEF IrqTransmit, i2cHardware, control, i2cDriver
<1>2. /\ ~InHand /\ irq_busy # 0
      /\ ~((i2c_pc = "idle" \/ (i2c_pc = "retry" /\ Stop)) /\ status = "SUCCESS" /\ ~request.ints)
      /\ ~(i2c_pc = "idle" /\ status = "SUCCESS")
  BY <1>1, InterruptRuns
<1>3. UNCHANGED <<AwaitsIrq, ArmedNow, InHand, Stop, Restart, Flushing>>
  BY <1>1, SameCall DEF AwaitsIrq, ArmedNow, InHand, Flushing
<1>4. I2cTypes' /\ I2cControl'
  BY <1>1, <1>2, <1>3 DEF I2cInv, I2cTypes, I2cControl
<1>5. I2cPlaces' /\ I2cQueue'
  BY <1>1, <1>2, <1>3 DEF I2cInv, I2cPlaces, I2cQueue, InHand
<1>6. I2cPending'
  BY <1>1, <1>2, <1>3, SameArriving DEF I2cInv, I2cPending
<1>7. I2cResults'
  BY <1>1, <1>2, <1>3, SameArriving DEF I2cInv, I2cResults
<1>. QED  BY <1>4, <1>5, <1>6, <1>7 DEF I2cInv

\* the bytes there are, but no more than are due
LEMMA IrqReceiveStep ==
  ASSUME I2cInv, IrqReceive
  PROVE  I2cInv'
<1>. DEFINE n == Min2(Len(rxf), irq_left)
<1>1. /\ isrpc = "callback" /\ irq_busy = 2
      /\ rxf' = SubSeq(rxf, n + 1, Len(rxf)) /\ irqbuf' = irqbuf \o SubSeq(rxf, 1, n) /\ irq_left' = irq_left - n
      /\ \/ irq_left' > 0 /\ i2c_isr' = i2c_isr \ Clearable /\ iser' = iser \cup {"RX_READY"} /\ isrpc' = "off"
         \/ ~(irq_left' > 0) /\ i2c_isr' = i2c_isr /\ iser' = iser /\ isrpc' = "end"
      /\ UNCHANGED <<cmds, device_heard, replied, en, callback, irq_busy, saved,
                     request, i2c_pc, phase, sent, i2c_got, status, buf>>
  BY DEF IrqReceive, i2cDriver, alt_avalon_i2c_int_clear, alt_avalon_i2c_int_enable
<1>2. /\ ~InHand /\ irq_busy # 0
      /\ ~((i2c_pc = "idle" \/ (i2c_pc = "retry" /\ Stop)) /\ status = "SUCCESS" /\ ~request.ints)
      /\ ~(i2c_pc = "idle" /\ status = "SUCCESS")
  BY <1>1, InterruptRuns
<1>3. UNCHANGED <<AwaitsIrq, ArmedNow, InHand, Stop, Restart>>
  BY <1>1, SameCall DEF AwaitsIrq, ArmedNow, InHand
<1>4. iser = {} /\ i2c_pc \notin {"busy", "abort", "stop", "cmd", "check", "read"}
  BY <1>1, <1>2 DEF I2cInv, I2cControl, InHand
<1>5. rxf \in Seq(Int) /\ irqbuf \in Seq(Int) /\ irq_left \in Nat /\ Len(rxf) \in Nat /\ Len(irqbuf) \in Nat
  BY LenProperties DEF I2cInv, I2cTypes
<1>6. n \in Nat /\ n <= Len(rxf) /\ n <= irq_left /\ (rxf = <<>> => n = 0)
  BY <1>5, EmptySeq DEF Min2
<1>. HIDE DEF n
<1>7. /\ rxf' \in Seq(Int) /\ Len(rxf') = Len(rxf) - n
      /\ \A i \in 1 .. Len(rxf') : rxf'[i] = rxf[i + n]
  <2>1. /\ rxf' \in Seq(Int)
        /\ Len(rxf') = IF n + 1 <= Len(rxf) THEN (Len(rxf) - (n + 1)) + 1 ELSE 0
    BY <1>1, <1>5, <1>6
  <2>2. Len(rxf') = Len(rxf) - n
    BY <1>5, <1>6, <2>1
  <2>3. \A i \in 1 .. Len(rxf') : rxf'[i] = rxf[i + n]
    BY <1>1, <1>5, <1>6, <2>2
  <2>. QED  BY <2>1, <2>2, <2>3
<1>8. /\ irqbuf' \in Seq(Int) /\ Len(irqbuf') = Len(irqbuf) + n
      /\ \A i \in 1 .. Len(irqbuf) : irqbuf'[i] = irqbuf[i]
      /\ \A i \in Len(irqbuf) + 1 .. Len(irqbuf) + n : irqbuf'[i] = rxf[i - Len(irqbuf)]
  <2>. DEFINE s == SubSeq(rxf, 1, n)
  <2>1. s \in Seq(Int) /\ Len(s) = n /\ \A i \in 1 .. n : s[i] = rxf[i]
    BY <1>5, <1>6
  <2>. HIDE DEF s
  <2>2. irqbuf' = irqbuf \o s
    BY <1>1 DEF s
  <2>3. /\ irqbuf' \in Seq(Int) /\ Len(irqbuf') = Len(irqbuf) + Len(s)
        /\ \A i \in 1 .. Len(irqbuf) + Len(s) :
             irqbuf'[i] = IF i <= Len(irqbuf) THEN irqbuf[i] ELSE s[i - Len(irqbuf)]
    BY <1>5, <2>1, <2>2, ConcatProperties
  <2>4. ASSUME NEW i \in 1 .. Len(irqbuf) PROVE irqbuf'[i] = irqbuf[i]
    <3>1. i \in 1 .. Len(irqbuf) + Len(s) /\ i <= Len(irqbuf)
      BY <1>5, <1>6, <2>1
    <3>. QED  BY <2>3, <3>1
  <2>5. ASSUME NEW i \in Len(irqbuf) + 1 .. Len(irqbuf) + n PROVE irqbuf'[i] = rxf[i - Len(irqbuf)]
    <3>1. i \in 1 .. Len(irqbuf) + Len(s) /\ ~(i <= Len(irqbuf)) /\ i - Len(irqbuf) \in 1 .. n
      BY <1>5, <1>6, <2>1
    <3>. QED  BY <2>1, <2>3, <3>1
  <2>. QED  BY <2>1, <2>3, <2>4, <2>5
<1>9. Due' = Due
  <2>1. Len(irqbuf') = Len(irqbuf) + n /\ irq_left' = irq_left - n
    BY <1>1, <1>8
  <2>. QED  BY <1>5, <1>6, <2>1 DEF Due
<1>10. I2cTypes'
  <2>1. irq_left' \in Nat
    BY <1>1, <1>5, <1>6
  <2>2. i2c_isr' \subseteq Clearable /\ iser' \subseteq AllInts /\ isrpc' \in {"off", "end"}
    BY <1>1 DEF I2cInv, I2cTypes, AllInts
  <2>. QED  BY <1>1, <1>7, <1>8, <2>1, <2>2 DEF I2cInv, I2cTypes
<1>11. I2cControl'
  <2>1. i2c_pc = "status" => "RX_READY" \in saved
    BY <1>1 DEF I2cInv, I2cControl
  <2>2. iser' \subseteq {"RX_READY"} /\ (isrpc' # "off" => iser' = {}) /\ isrpc' # "callback"
    BY <1>1, <1>4
  <2>. QED  BY <1>1, <1>2, <1>3, <1>4, <2>1, <2>2 DEF I2cInv, I2cControl
<1>12. I2cPlaces' /\ I2cQueue'
  BY <1>1, <1>2, <1>3, <1>4 DEF I2cInv, I2cPlaces, I2cQueue
<1>13. ASSUME Lost PROVE Lost'
  <2>1. rxf = <<>> /\ irqbuf = <<>> /\ cmds = <<>> /\ irq_left >= 1 /\ n = 0 /\ Len(rxf) = 0 /\ Len(irqbuf) = 0
    BY <1>6, <1>13, EmptySeq DEF Lost
  <2>2. Len(rxf') = 0 /\ Len(irqbuf') = 0 /\ irq_left' = irq_left
    <3>1. irq_left - 0 = irq_left
      BY <1>5
    <3>. QED  BY <1>1, <1>7, <1>8, <2>1, <3>1
  <2>3. rxf' = <<>> /\ irqbuf' = <<>>
    BY <1>7, <1>8, <2>2, EmptySeq
  <2>. QED  BY <1>1, <2>1, <2>2, <2>3 DEF Lost
<1>14. ASSUME Arriving PROVE Arriving'
  <2>1. Due \in Nat /\ Len(cmds) \in Nat /\ replied \in Nat
    BY <1>5, LenProperties DEF Due, I2cInv, I2cTypes
  <2>2. ASSUME Len(cmds) <= Due
        PROVE  /\ replied = Due - Len(cmds) /\ Len(rxf') = replied - Len(irqbuf')
               /\ \A i \in 1 .. Len(rxf') : rxf'[i] = Reply(Len(irqbuf') + i)
               /\ \A i \in 1 .. Len(irqbuf') : irqbuf'[i] = Reply(i)
    <3>1. /\ replied = Due - Len(cmds) /\ Len(rxf) = replied - Len(irqbuf)
          /\ \A i \in 1 .. Len(rxf) : rxf[i] = Reply(Len(irqbuf) + i)
          /\ \A i \in 1 .. Len(irqbuf) : irqbuf[i] = Reply(i)
      BY <1>14, <2>2 DEF Arriving
    <3>2. Len(rxf') = replied - Len(irqbuf')
      <4>1. Len(rxf') = Len(rxf) - n /\ Len(irqbuf') = Len(irqbuf) + n /\ Len(rxf) = replied - Len(irqbuf)
        BY <1>7, <1>8, <3>1
      <4>. QED  BY <1>5, <1>6, <2>1, <4>1
    <3>3. \A i \in 1 .. Len(rxf') : rxf'[i] = Reply(Len(irqbuf') + i)
      <4>. TAKE i \in 1 .. Len(rxf')
      <4>1. i \in Nat /\ i + n \in 1 .. Len(rxf) /\ Len(irqbuf) + (i + n) = Len(irqbuf') + i
        BY <1>5, <1>6, <1>7, <1>8
      <4>2. rxf'[i] = rxf[i + n] /\ rxf[i + n] = Reply(Len(irqbuf) + (i + n))
        BY <1>7, <3>1, <4>1
      <4>. QED  BY <4>1, <4>2
    <3>4. \A i \in 1 .. Len(irqbuf') : irqbuf'[i] = Reply(i)
      <4>. TAKE i \in 1 .. Len(irqbuf')
      <4>1. CASE i \in 1 .. Len(irqbuf)
        BY <1>8, <3>1, <4>1
      <4>2. CASE i \in Len(irqbuf) + 1 .. Len(irqbuf) + n
        <5>1. i - Len(irqbuf) \in 1 .. Len(rxf) /\ Len(irqbuf) + (i - Len(irqbuf)) = i
          BY <1>5, <1>6, <4>2
        <5>2. irqbuf'[i] = rxf[i - Len(irqbuf)]
          BY <1>8, <4>2
        <5>3. rxf[i - Len(irqbuf)] = Reply(Len(irqbuf) + (i - Len(irqbuf)))
          BY <3>1, <5>1
        <5>. QED  BY <5>1, <5>2, <5>3
      <4>3. i \in 1 .. Len(irqbuf) \/ i \in Len(irqbuf) + 1 .. Len(irqbuf) + n
        <5>1. i \in 1 .. Len(irqbuf) + n
          BY <1>8
        <5>. QED  BY <1>5, <1>6, <5>1
      <4>. QED  BY <4>1, <4>2, <4>3
    <3>. QED  BY <3>1, <3>2, <3>3, <3>4
  <2>3. ASSUME Len(cmds) > Due
        PROVE  rxf' = <<>> /\ irqbuf' = <<>> /\ Len(irqbuf') = 0
    <3>1. rxf = <<>> /\ irqbuf = <<>>
      BY <1>14, <2>3 DEF Arriving
    <3>2. Len(rxf) = 0 /\ Len(irqbuf) = 0 /\ n = 0
      BY <1>6, <3>1, EmptySeq
    <3>3. Len(rxf') = 0 /\ Len(irqbuf') = 0
      BY <1>7, <1>8, <3>2
    <3>. QED  BY <1>7, <1>8, <3>3, EmptySeq
  <2>4. Len(cmds) <= Due \/ Len(cmds) > Due
    BY <2>1
  <2>5. \A i \in 1 .. Len(irqbuf') : irqbuf'[i] = Reply(i)
    <3>1. CASE Len(cmds) <= Due
      BY <2>2, <3>1
    <3>2. CASE Len(cmds) > Due
      BY <2>3, <3>2
    <3>. QED  BY <2>4, <3>1, <3>2
  <2>6. /\ Due \in 1 .. Depth
        /\ \A i \in 1 .. Len(cmds) : /\ cmds[i].read <=> i >= Len(cmds) - Due
                                     /\ cmds[i].read => (cmds[i].address <=> i = Len(cmds) - Due)
    BY <1>14 DEF Arriving
  <2>7. Arriving'
    BY <1>1, <1>9, <2>2, <2>3, <2>5, <2>6 DEF Arriving
  <2>. QED  BY <2>7
<1>15. I2cPending'
  <2>1. Lost \/ Arriving
    BY <1>1 DEF I2cInv, I2cPending
  <2>2. Lost' \/ Arriving'
    BY <1>13, <1>14, <2>1
  <2>3. isrpc' = "end" => irq_left' = 0
    <3>1. irq_left' \in Nat
      BY <1>10 DEF I2cTypes
    <3>. QED  BY <1>1, <3>1
  <2>. QED  BY <1>1, <2>2, <2>3 DEF I2cPending
<1>16. I2cResults'
  BY <1>1, <1>2, <1>3, <1>9 DEF I2cInv, I2cResults
<1>. QED  BY <1>10, <1>11, <1>12, <1>15, <1>16 DEF I2cInv

\* the end of the transaction finds every byte fetched, and nothing left over
LEMMA IrqEndStep ==
  ASSUME I2cInv, IrqEnd
  PROVE  I2cInv'
<1>1. /\ isrpc = "end" /\ isrpc' = "off" /\ irq_busy' = 0 /\ en' = FALSE /\ iser' = iser \ {"TX_READY"}
      /\ cmds' = <<>> /\ (rxf' = rxf \/ rxf' = <<>>)
      /\ UNCHANGED <<device_heard, replied, i2c_isr, callback, irq_left, irqbuf, saved,
                     request, i2c_pc, phase, sent, i2c_got, status, buf>>
  BY DEF IrqEnd, Disable, i2cDriver
<1>2. /\ ~InHand /\ irq_busy # 0 /\ irq_busy \in {1, 2}
      /\ ~((i2c_pc = "idle" \/ (i2c_pc = "retry" /\ Stop)) /\ status = "SUCCESS" /\ ~request.ints)
      /\ ~(i2c_pc = "idle" /\ status = "SUCCESS")
  <2>1. irq_busy \in 0 .. 2
    BY DEF I2cInv, I2cTypes
  <2>. QED  BY <1>1, <2>1, InterruptRuns
<1>3. UNCHANGED <<AwaitsIrq, ArmedNow, InHand, Stop, Restart, Flushing>>
  BY <1>1, SameCall DEF AwaitsIrq, ArmedNow, InHand, Flushing
<1>4. iser' = {} /\ i2c_pc \notin {"busy", "abort"}
  BY <1>1 DEF I2cInv, I2cControl
<1>5. rxf \in Seq(Int) /\ irqbuf \in Seq(Int) /\ Len(rxf) \in Nat /\ Len(irqbuf) \in Nat /\ replied \in Nat
      /\ Len(cmds) \in Nat
  BY LenProperties DEF I2cInv, I2cTypes
<1>6. irq_busy = 2 => Arriving /\ Due = Len(irqbuf)
  <2>1. irq_busy = 2 => (Lost \/ Arriving) /\ irq_left = 0
    BY <1>1 DEF I2cInv, I2cPending
  <2>2. irq_busy = 2 => Arriving
    BY <2>1 DEF Lost
  <2>. QED  BY <1>5, <2>1, <2>2 DEF Due
<1>7. rxf = <<>>
  <2>1. CASE irq_busy = 1
    BY <2>1 DEF I2cInv, I2cPending
  <2>2. CASE irq_busy = 2
    <3>1. CASE Len(cmds) > Due
      BY <1>6, <2>2, <3>1 DEF Arriving
    <3>2. CASE Len(cmds) <= Due
      <4>1. replied = Len(irqbuf) - Len(cmds) /\ Len(rxf) = replied - Len(irqbuf)
        BY <1>6, <2>2, <3>2 DEF Arriving
      <4>2. Len(rxf) = 0
        BY <1>5, <4>1
      <4>. QED  BY <1>5, <4>2, EmptySeq
    <3>. QED  BY <1>5, <1>6, <2>2, <3>1, <3>2
  <2>. QED  BY <1>2, <2>1, <2>2
<1>8. I2cTypes'
  <2>1. cmds' \in Seq(Commands) /\ rxf' \in Seq(Int)
    BY <1>1, <1>7, EmptySeq, Zenon
  <2>2. en' \in BOOLEAN
    BY <1>1, Zenon
  <2>3. iser' \subseteq AllInts
    BY <1>4
  <2>4. irq_busy' \in 0 .. 2
    BY <1>1
  <2>. QED  BY <1>1, <2>1, <2>2, <2>3, <2>4 DEF I2cInv, I2cTypes
<1>9. I2cControl'
  BY <1>1, <1>2, <1>3, <1>4 DEF I2cInv, I2cControl
<1>10. I2cPlaces' /\ I2cQueue'
  BY <1>1, <1>2, <1>3 DEF I2cInv, I2cPlaces, I2cQueue, InHand
<1>11. I2cPending'
  BY <1>1, <1>7 DEF I2cPending
<1>12. I2cResults'
  <2>1. ASSUME AwaitsIrq \/ ArmedNow, request.op # "tx"
        PROVE  Len(irqbuf) = request.rx /\ HasReplies(irqbuf)
    <3>1. irq_busy = 2 /\ Due = request.rx
      BY <1>2, <2>1 DEF I2cInv, I2cResults
    <3>2. \A i \in 1 .. Len(irqbuf) : irqbuf[i] = Reply(i)
      BY <1>6, <3>1 DEF Arriving
    <3>3. Len(irqbuf) = request.rx
      BY <1>6, <3>1
    <3>. QED  BY <1>5, <3>2, <3>3 DEF HasReplies
  <2>. QED  BY <1>1, <1>2, <1>3, <2>1, SameReplies DEF I2cInv, I2cResults
<1>. QED  BY <1>8, <1>9, <1>10, <1>11, <1>12 DEF I2cInv

(***************************************************************************)
(* The call, with the core in its hands.                                   *)
(***************************************************************************)
LEMMA InHandIs ==
  ASSUME I2cInv, InHand
  PROVE  /\ irq_busy = 0 /\ iser = {} /\ isrpc = "off" /\ sent \in 0 .. Total /\ I2cTypes /\ Total \in Nat /\ Total >= 1
         /\ (en /\ ~Flushing => \E k \in Nat : QueuedAt(k))
         /\ (~en \/ Flushing => cmds = <<>> /\ rxf = <<>> /\ (status = "SUCCESS" => i2c_got = 0))
<1>1. I2cTypes /\ I2cPlaces /\ I2cControl /\ I2cQueue
  BY DEF I2cInv
<1>2. irq_busy = 0 /\ iser = {} /\ isrpc = "off"
  BY <1>1 DEF I2cControl
<1>3. sent \in 0 .. Total /\ Total \in Nat /\ Total >= 1
  BY <1>1, Sizes, SentBound
<1>. QED  BY <1>1, <1>2, <1>3 DEF I2cQueue

\* the command that is written is the next of the call
LEMMA CommandFits ==
  ASSUME I2cTypes, sent \in Nat, sent < Total
  PROVE  /\ Command(sent + 1) \in Commands
         /\ Fits(Command(sent + 1), (Sequel + sent) + 1)
<1>. DEFINE c == Command(sent + 1)
<1>1. /\ Address \in {1, 2} /\ TxCommands \in Nat /\ Sequel \in Nat /\ Size \in Nat
         /\ Total = Address + Size /\ Total \in Nat
      /\ request.tx \in Nat
      /\ phase = "transmit" => Sequel = 0 /\ Total = TxCommands /\ Size = request.tx
      /\ phase = "receive" => Sequel = TxCommands /\ Address = 1
  BY Sizes
<1>2. phase \in {"transmit", "receive"}
  BY DEF I2cTypes
<1>3. /\ c.address = (sent + 1 <= Address) /\ c.read = (phase = "receive") /\ c.stop = (Stop /\ sent + 1 = Total)
      /\ c.val = IF sent + 1 > Address /\ phase = "transmit" THEN TxBuffer[(sent + 1) - Address] ELSE 0
      /\ c = [address |-> c.address, read |-> c.read, stop |-> c.stop, val |-> c.val]
  BY DEF Command
<1>4. ASSUME phase = "transmit", sent + 1 > Address
      PROVE  /\ c.val \in Int
             /\ ~request.shared => c.val = (sent + 1) - Address
  <2>1. (sent + 1) - Address \in 1 .. request.tx
    BY <1>1, <1>4
  <2>2. CASE request.shared
    <3>1. buf \in Seq(Int) /\ Len(buf) >= request.tx /\ Len(buf) \in Nat
      BY <2>2, LenProperties DEF I2cTypes
    <3>2. (sent + 1) - Address \in 1 .. Len(buf)
      BY <1>1, <2>1, <3>1
    <3>3. buf[(sent + 1) - Address] \in Int
      BY <3>1, <3>2, ElementOfSeq
    <3>. QED  BY <1>3, <1>4, <2>2, <3>3 DEF TxBuffer
  <2>3. CASE ~request.shared
    <3>1. TxBuffer[(sent + 1) - Address] = (sent + 1) - Address
      BY <2>1, <2>3 DEF TxBuffer
    <3>. QED  BY <1>1, <1>3, <1>4, <3>1
  <2>. QED  BY <2>2, <2>3
<1>5. c \in Commands
  <2>1. c.address \in BOOLEAN /\ c.read \in BOOLEAN /\ c.stop \in BOOLEAN
    <3>1. (sent + 1 <= Address) \in BOOLEAN /\ (phase = "receive") \in BOOLEAN
      OBVIOUS
    <3>2. (Stop /\ sent + 1 = Total) \in BOOLEAN
      BY DEF Stop
    <3>. QED  BY <1>3, <3>1, <3>2, Zenon
  <2>2. c.val \in Int
    <3>1. 0 \in Int
      OBVIOUS
    <3>. QED  BY <1>3, <1>4, <3>1, Zenon
  <2>. HIDE DEF c
  <2>. QED  BY <1>3, <2>1, <2>2, Zenon DEF Commands
<1>6. Fits(c, (Sequel + sent) + 1)
  <2>1. (c.address <=> sent + 1 <= Address) /\ (c.read <=> phase = "receive")
    BY <1>3
  <2>2. CASE phase = "transmit"
    <3>1. (Sequel + sent) + 1 = sent + 1 /\ ~(sent + 1 > TxCommands)
      BY <1>1, <2>2
    <3>2. sent + 1 \in Address + 1 .. TxCommands /\ ~request.shared => c.val = (sent + 1) - Address
      <4>1. sent + 1 \in Address + 1 .. TxCommands => sent + 1 > Address
        BY <1>1
      <4>. QED  BY <1>4, <2>2, <4>1
    <3>. HIDE DEF c
    <3>. QED  BY <2>1, <2>2, <3>1, <3>2 DEF Fits
  <2>3. CASE phase = "receive"
    <3>1. (Sequel + sent) + 1 > TxCommands /\ (sent + 1 <= Address <=> (Sequel + sent) + 1 = TxCommands + 1)
          /\ (Sequel + sent) + 1 \notin Address + 1 .. TxCommands
      BY <1>1, <2>3
    <3>. HIDE DEF c
    <3>. QED  BY <2>1, <2>3, <3>1 DEF Fits
  <2>. QED  BY <1>2, <2>2, <2>3
<1>. QED  BY <1>5, <1>6

LEMMA CmdWriteQueue ==
  ASSUME NEW k \in Nat, I2cTypes, QueuedAt(k), status = "SUCCESS", status' = status,
         sent \in Nat, sent < Total, sent' = sent + 1, cmds' = Append(cmds, Command(sent + 1)),
         UNCHANGED <<rxf, device_heard, replied, request, phase, i2c_got>>
  PROVE  QueuedAt(k)'
<1>1. UNCHANGED <<TxCommands, Sequel, Address>> /\ Sequel \in Nat
  BY SameCall, Sizes
<1>2. Command(sent + 1) \in Commands /\ Fits(Command(sent + 1), (Sequel + sent) + 1)
  BY CommandFits
<1>3. /\ Len(cmds) \in Nat /\ Len(cmds') = Len(cmds) + 1
      /\ \A i \in 1 .. Len(cmds) : cmds'[i] = cmds[i]
      /\ cmds'[Len(cmds) + 1] = Command(sent + 1)
  BY <1>2, AppendProperties, LenProperties DEF I2cTypes
<1>4. k + Len(cmds) = Sequel + sent
  BY DEF QueuedAt, WrittenTo
<1>5. WrittenTo(k)'
  <2>1. k + Len(cmds') = Sequel + sent'
    BY <1>1, <1>3, <1>4
  <2>. QED  BY <1>1, <2>1 DEF WrittenTo
<1>6. \A i \in 1 .. Len(cmds') : Fits(cmds'[i], k + i)
  <2>. TAKE i \in 1 .. Len(cmds')
  <2>1. CASE i \in 1 .. Len(cmds)
    BY <1>3, <2>1 DEF QueuedAt, InOrder
  <2>2. CASE i = Len(cmds) + 1
    <3>1. k + i = (Sequel + sent) + 1
      BY <1>1, <1>3, <1>4, <2>2
    <3>. QED  BY <1>2, <1>3, <2>2, <3>1
  <2>. QED  BY <1>3, <2>1, <2>2
<1>7. InOrder(k)'
  BY <1>1, <1>6 DEF InOrder, Fits
<1>8. Heard(k)' /\ Answered(k)'
  BY <1>1 DEF QueuedAt, Heard, HeardOf, HasHeard, Answered
<1>. QED  BY <1>5, <1>7, <1>8 DEF QueuedAt

LEMMA CmdWriteStep ==
  ASSUME I2cInv, CmdWrite
  PROVE  I2cInv'
<1>1. /\ i2c_pc = "cmd" /\ isrpc = "off" /\ sent' = sent + 1 /\ status = "SUCCESS" /\ sent < Total
      /\ UNCHANGED <<rxf, device_heard, replied, en, i2c_isr, iser, callback, irq_busy, irq_left, irqbuf, isrpc, saved,
                     request, phase, i2c_got, buf>>
  BY DEF CmdWrite, I2cAt, control, irqs, I2cGoto, I2cInv, I2cPlaces
<1>2. InHand
  BY <1>1 DEF InHand
<1>3. /\ irq_busy = 0 /\ iser = {} /\ sent \in 0 .. Total /\ I2cTypes /\ Total \in Nat
      /\ (en /\ ~Flushing => \E k \in Nat : QueuedAt(k))
      /\ (~en \/ Flushing => cmds = <<>> /\ rxf = <<>> /\ i2c_got = 0)
  BY <1>1, <1>2, InHandIs
<1>4. UNCHANGED <<Restart, Stop, Total, Size, Flushing>> /\ sent' \in 1 .. Total /\ sent \in Nat
  BY <1>1, <1>3, SameCall DEF Flushing
<1>5. \/ /\ TxReady /\ i2c_pc' = "check" /\ status' = "SUCCESS"
         /\ cmds' = IF en /\ ~Flushing THEN Append(cmds, Command(sent + 1)) ELSE cmds
      \/ /\ i2c_pc' = "stop" /\ status' = "TIMEOUT" /\ cmds' = cmds
  <2>1. ASSUME Overwritten(sent + 1) PROVE TxReady
    <3>1. sent = 0 /\ request.ten
      BY <1>3, <2>1 DEF Overwritten
    <3>2. phase = "transmit"
      BY <1>3, <3>1 DEF I2cTypes
    <3>3. cmds = <<>>
      <4>1. CASE ~en \/ Flushing
        BY <1>3, <4>1
      <4>2. CASE en /\ ~Flushing
        <5>1. PICK k \in Nat : QueuedAt(k)
          BY <1>3, <4>2
        <5>2. k + Len(cmds) = 0 /\ Len(cmds) \in Nat /\ cmds \in Seq(Commands)
          BY <1>1, <1>3, <3>1, <3>2, <5>1, Sizes, LenProperties DEF QueuedAt, WrittenTo, I2cTypes
        <5>3. Len(cmds) = 0
          BY <5>2
        <5>. QED  BY <5>2, <5>3, EmptySeq
      <4>. QED  BY <4>1, <4>2
    <3>4. Len(cmds) = 0 /\ Depth - 1 >= 0
      BY <3>3, EmptySeq, I2cAssumption
    <3>. QED  BY <3>4 DEF TxReady
  <2>. QED  BY <1>1, <2>1 DEF CmdWrite, I2cGoto
<1>6. InHand' /\ ~AwaitsIrq' /\ ~ArmedNow'
  BY <1>5 DEF InHand, AwaitsIrq, ArmedNow
<1>7. cmds' \in Seq(Commands)
  <2>1. Command(sent + 1) \in Commands
    BY <1>1, <1>3, <1>4, CommandFits
  <2>2. Append(cmds, Command(sent + 1)) \in Seq(Commands)
    BY <1>3, <2>1, AppendProperties DEF I2cTypes
  <2>. QED  BY <1>3, <1>5, <2>2 DEF I2cTypes
<1>8. I2cTypes'
  <2>1. sent' \in Nat
    BY <1>1, <1>4
  <2>. QED  BY <1>1, <1>3, <1>7, <2>1 DEF I2cTypes
<1>9. I2cControl'
  BY <1>1, <1>2, <1>3, <1>5, <1>6 DEF I2cInv, I2cControl
<1>10. I2cPlaces'
  <2>1. sent' <= Total /\ (InHand /\ (request.ints \/ phase = "transmit") => i2c_got = 0)
        /\ (InHand /\ ~en => phase = "receive" /\ request.op = "txrx")
    BY <1>4 DEF I2cInv, I2cPlaces
  <2>. QED  BY <1>1, <1>2, <1>4, <1>5, <1>6, <2>1 DEF I2cPlaces
<1>11. I2cQueue'
  <2>1. ASSUME en, ~Flushing
        PROVE  \E k \in Nat : QueuedAt(k)'
    <3>1. PICK k \in Nat : QueuedAt(k)
      BY <1>3, <2>1
    <3>2. CASE status' = "SUCCESS"
      BY <1>1, <1>3, <1>4, <1>5, <2>1, <3>1, <3>2, CmdWriteQueue
    <3>3. CASE status' = "TIMEOUT"
      <4>1. cmds' = cmds /\ UNCHANGED <<TxCommands, Sequel, Address>> /\ Sequel \in Nat /\ Len(cmds) \in Nat
        BY <1>1, <1>3, <1>5, <3>3, SameCall, Sizes, LenProperties DEF I2cTypes
      <4>2. WrittenTo(k)'
        <5>1. k + Len(cmds) <= Sequel + sent
          BY <3>1 DEF QueuedAt, WrittenTo
        <5>2. k + Len(cmds') <= Sequel + sent'
          BY <1>1, <1>4, <4>1, <5>1
        <5>. QED  BY <3>3, <4>1, <5>2 DEF WrittenTo
      <4>3. InOrder(k)' /\ Heard(k)' /\ Answered(k)'
        BY <1>1, <3>1, <3>3, <4>1 DEF QueuedAt, InOrder, Fits, Heard, HeardOf, HasHeard, Answered
      <4>4. QueuedAt(k)'
        BY <4>2, <4>3 DEF QueuedAt
      <4>. QED  BY <4>4
    <3>. QED  BY <1>5, <3>2, <3>3
  <2>2. ~en \/ Flushing => cmds' = <<>>
    BY <1>3, <1>5
  <2>3. Len(buf) >= i2c_got /\ \A i \in 1 .. i2c_got : buf[i] = Reply(i)
    BY <1>1, <1>2 DEF I2cInv, I2cQueue
  <2>. QED  BY <1>1, <1>3, <1>4, <1>6, <2>1, <2>2, <2>3 DEF I2cQueue
<1>12. I2cPending' /\ I2cResults'
  BY <1>1, <1>3, <1>5, <1>6 DEF I2cPending, I2cResults
<1>. QED  BY <1>8, <1>9, <1>10, <1>11, <1>12 DEF I2cInv

\* what Take does to the two sequences
LEMMA TakeIs ==
  ASSUME NEW n \in Nat, NEW have \in Nat, rxf \in Seq(Int), buf \in Seq(Int), n <= Len(rxf), have <= Len(buf), Take(n, have)
  PROVE  /\ rxf' \in Seq(Int) /\ Len(rxf') = Len(rxf) - n
         /\ \A i \in 1 .. Len(rxf') : rxf'[i] = rxf[i + n]
         /\ buf' \in Seq(Int) /\ Len(buf') \in Nat /\ Len(buf') >= have + n /\ Len(buf') >= Len(buf)
         /\ \A i \in 1 .. have : buf'[i] = buf[i]
         /\ \A i \in have + 1 .. have + n : buf'[i] = rxf[i - have]
<1>1. Len(rxf) \in Nat /\ Len(buf) \in Nat
  BY LenProperties
<1>. DEFINE m == IF have + n > Len(buf) THEN have + n ELSE Len(buf)
            f(i) == IF i \in have + 1..have + n THEN rxf[i - have] ELSE buf[i]
<1>2. rxf' = SubSeq(rxf, n + 1, Len(rxf)) /\ buf' = [i \in 1 .. m |-> f(i)]
  BY DEF Take
<1>3. /\ rxf' \in Seq(Int)
      /\ Len(rxf') = IF n + 1 <= Len(rxf) THEN (Len(rxf) - (n + 1)) + 1 ELSE 0
  BY <1>1, <1>2
<1>4. Len(rxf') = Len(rxf) - n
  BY <1>1, <1>3
<1>5. \A i \in 1 .. Len(rxf') : rxf'[i] = rxf[i + n]
  BY <1>1, <1>2, <1>4
<1>6. m \in Nat /\ m >= have + n /\ m >= Len(buf)
  BY <1>1
<1>7. \A i \in 1 .. m : f(i) \in Int
  <2>. TAKE i \in 1 .. m
  <2>1. CASE i \in have + 1 .. have + n
    <3>1. i - have \in 1 .. Len(rxf)
      BY <1>1, <2>1
    <3>2. rxf[i - have] \in Int
      BY <3>1, ElementOfSeq
    <3>. QED  BY <2>1, <3>2
  <2>2. CASE i \notin have + 1 .. have + n
    <3>1. i \in 1 .. Len(buf)
      BY <1>1, <2>2
    <3>2. buf[i] \in Int
      BY <3>1, ElementOfSeq
    <3>. QED  BY <2>2, <3>2
  <2>. QED  BY <2>1, <2>2
<1>. HIDE DEF m, f
<1>8. buf' \in Seq(Int) /\ Len(buf') = m /\ \A i \in 1 .. m : buf'[i] = f(i)
  BY <1>2, <1>6, <1>7
<1>9. ASSUME NEW i \in 1 .. have PROVE buf'[i] = buf[i]
  <2>1. i \in 1 .. m /\ i \notin have + 1 .. have + n
    BY <1>6
  <2>. QED  BY <1>8, <2>1 DEF f
<1>10. ASSUME NEW i \in have + 1 .. have + n PROVE buf'[i] = rxf[i - have]
  <2>1. i \in 1 .. m
    BY <1>6
  <2>. QED  BY <1>8, <2>1 DEF f
<1>. QED  BY <1>3, <1>4, <1>5, <1>6, <1>8, <1>9, <1>10

\* taking what there is from a queue in order keeps the count of it
LEMMA TakeQueue ==
  ASSUME NEW k \in Nat, NEW n \in Nat, I2cTypes, QueuedAt(k), n <= Len(rxf), i2c_got <= Len(buf), Take(n, i2c_got),
         status = "SUCCESS", status' = "SUCCESS", i2c_got' = i2c_got + n,
         UNCHANGED <<cmds, device_heard, replied, request, phase, sent>>
  PROVE  QueuedAt(k)'
<1>1. rxf \in Seq(Int) /\ buf \in Seq(Int) /\ i2c_got \in Nat /\ Len(rxf) \in Nat /\ TxCommands \in Nat /\ replied \in Nat
  BY Sizes, LenProperties DEF I2cTypes
<1>2. UNCHANGED <<TxCommands, Sequel, Address>>
  BY SameCall
<1>3. WrittenTo(k)' /\ InOrder(k)' /\ Heard(k)'
  BY <1>2 DEF QueuedAt, WrittenTo, InOrder, Fits, Heard, HeardOf, HasHeard
<1>4. /\ rxf' \in Seq(Int) /\ Len(rxf') = Len(rxf) - n
      /\ \A i \in 1 .. Len(rxf') : rxf'[i] = rxf[i + n]
  BY <1>1, TakeIs
<1>5. ASSUME k <= TxCommands PROVE rxf' = <<>> /\ i2c_got' = 0
  <2>1. rxf = <<>> /\ i2c_got = 0
    BY <1>5 DEF QueuedAt, Answered
  <2>2. Len(rxf) = 0 /\ n = 0 /\ Len(rxf') = 0
    BY <1>4, <2>1, EmptySeq
  <2>. QED  BY <1>4, <2>1, <2>2, EmptySeq
<1>6. ASSUME k > TxCommands
      PROVE  /\ replied = (k - TxCommands) - 1 /\ Len(rxf') = replied - i2c_got'
             /\ \A i \in 1 .. Len(rxf') : rxf'[i] = Reply(i2c_got' + i)
  <2>1. /\ replied = (k - TxCommands) - 1 /\ Len(rxf) = replied - i2c_got
        /\ \A i \in 1 .. Len(rxf) : rxf[i] = Reply(i2c_got + i)
    BY <1>6 DEF QueuedAt, Answered
  <2>2. Len(rxf') = replied - i2c_got'
    <3>1. Len(rxf') = Len(rxf) - n /\ Len(rxf) = replied - i2c_got
      BY <1>4, <2>1
    <3>. QED  BY <1>1, <3>1
  <2>3. ASSUME NEW i \in 1 .. Len(rxf') PROVE rxf'[i] = Reply(i2c_got' + i)
    <3>1. i + n \in 1 .. Len(rxf) /\ i2c_got + (i + n) = i2c_got' + i
      BY <1>1, <1>4
    <3>2. rxf'[i] = rxf[i + n] /\ rxf[i + n] = Reply(i2c_got + (i + n))
      BY <1>4, <2>1, <3>1
    <3>. QED  BY <3>1, <3>2
  <2>. QED  BY <2>1, <2>2, <2>3
<1>7. Answered(k)'
  BY <1>2, <1>5, <1>6 DEF Answered
<1>. QED  BY <1>3, <1>7 DEF QueuedAt

\* the buffer holds the answer as far as it was taken
LEMMA TakeBuffer ==
  ASSUME NEW n \in Nat, I2cTypes, n <= Len(rxf), i2c_got <= Len(buf), Take(n, i2c_got), i2c_got' = i2c_got + n,
         \A i \in 1 .. i2c_got : buf[i] = Reply(i),
         \A i \in 1 .. n : rxf[i] = Reply(i2c_got + i)
  PROVE  Len(buf') >= i2c_got' /\ \A i \in 1 .. i2c_got' : buf'[i] = Reply(i)
<1>1. rxf \in Seq(Int) /\ buf \in Seq(Int) /\ i2c_got \in Nat
  BY DEF I2cTypes
<1>2. /\ Len(buf') >= i2c_got + n
      /\ \A i \in 1 .. i2c_got : buf'[i] = buf[i]
      /\ \A i \in i2c_got + 1 .. i2c_got + n : buf'[i] = rxf[i - i2c_got]
  BY <1>1, TakeIs
<1>3. ASSUME NEW i \in 1 .. i2c_got' PROVE buf'[i] = Reply(i)
  <2>1. CASE i \in 1 .. i2c_got
    BY <1>2, <2>1
  <2>2. CASE i \in i2c_got + 1 .. i2c_got + n
    <3>1. i - i2c_got \in 1 .. n /\ i2c_got + (i - i2c_got) = i
      BY <1>1, <2>2
    <3>2. rxf[i - i2c_got] = Reply(i2c_got + (i - i2c_got))
      BY <3>1
    <3>. QED  BY <1>2, <2>2, <3>1, <3>2
  <2>3. i \in 1 .. i2c_got \/ i \in i2c_got + 1 .. i2c_got + n
    BY <1>1
  <2>. QED  BY <2>1, <2>2, <2>3
<1>. QED  BY <1>2, <1>3

LEMMA CheckStep ==
  ASSUME I2cInv, Check
  PROVE  I2cInv'
<1>1. /\ i2c_pc = "check" /\ isrpc = "off" /\ status = "SUCCESS" /\ sent \in 1 .. Total
      /\ UNCHANGED <<cmds, device_heard, replied, en, i2c_isr, iser, callback, irq_busy, irq_left, irqbuf, isrpc, saved,
                     request, phase, sent>>
  BY DEF Check, I2cAt, control, irqs, I2cGoto, I2cInv, I2cPlaces
<1>2. InHand
  BY <1>1 DEF InHand
<1>3. /\ irq_busy = 0 /\ iser = {} /\ I2cTypes /\ Total \in Nat
      /\ (en /\ ~Flushing => \E k \in Nat : QueuedAt(k))
      /\ (~en \/ Flushing => cmds = <<>> /\ rxf = <<>> /\ i2c_got = 0)
  BY <1>1, <1>2, InHandIs
<1>4. UNCHANGED <<Restart, Stop, Total, Size, Flushing>>
  BY <1>1, SameCall DEF Flushing
<1>5. /\ \/ status' # "SUCCESS" /\ Flushing /\ i2c_pc' = "stop"
         \/ status' = "SUCCESS" /\ i2c_pc' = IF sent < Total THEN "cmd" ELSE
              IF phase = "receive" /\ ~request.ints THEN "read" ELSE "stop"
      /\ \/ /\ status' = "SUCCESS" /\ ~request.ints /\ phase = "receive" /\ ~Flushing
            /\ Take(Len(rxf), i2c_got) /\ i2c_got' = i2c_got + Len(rxf)
         \/ UNCHANGED <<rxf, buf, i2c_got>>
  <2>1. (Overwritten(sent) => phase = "transmit") /\ (Checked = "SUCCESS" <=> ~Flushing)
    <3>1. Overwritten(sent) => phase = "transmit"
      BY <1>3 DEF Overwritten, I2cTypes
    <3>2. Checked = "SUCCESS" <=> ~Flushing
      BY DEF Checked, CheckNack, CheckArbLost, Flushing
    <3>. QED  BY <3>1, <3>2
  <2>2. phase = "receive" => phase # "transmit"
    OBVIOUS
  <2>. QED  BY <2>1, <2>2 DEF Check, I2cGoto, Drains
<1>6. InHand' /\ ~AwaitsIrq' /\ ~ArmedNow'
  BY <1>5 DEF InHand, AwaitsIrq, ArmedNow
<1>7. i2c_got <= Len(buf) /\ Len(rxf) \in Nat /\ (\A i \in 1 .. i2c_got : buf[i] = Reply(i)) /\ i2c_got \in Nat /\ Len(rxf) <= Len(rxf)
  <2>1. Len(buf) >= i2c_got /\ \A i \in 1 .. i2c_got : buf[i] = Reply(i)
    BY <1>1, <1>2 DEF I2cInv, I2cQueue
  <2>2. Len(buf) \in Nat /\ i2c_got \in Nat /\ Len(rxf) \in Nat
    BY <1>3, LenProperties DEF I2cTypes
  <2>. QED  BY <2>1, <2>2
<1>8. /\ rxf' \in Seq(Int) /\ buf' \in Seq(Int) /\ i2c_got' \in Nat /\ Len(buf') >= Len(buf)
  <2>1. CASE UNCHANGED <<rxf, buf, i2c_got>>
    <3>1. Len(buf) \in Nat /\ Len(buf) >= Len(buf)
      BY <1>3, LenProperties DEF I2cTypes
    <3>. QED  BY <1>3, <2>1, <3>1 DEF I2cTypes
  <2>2. CASE Take(Len(rxf), i2c_got) /\ i2c_got' = i2c_got + Len(rxf)
    <3>1. rxf' \in Seq(Int) /\ buf' \in Seq(Int) /\ Len(buf') >= Len(buf)
      BY <1>3, <1>7, <2>2, TakeIs DEF I2cTypes
    <3>. QED  BY <1>7, <2>2, <3>1
  <2>. QED  BY <1>5, <2>1, <2>2
<1>9. I2cTypes'
  <2>1. request.shared => request.op = "txrx" /\ Len(buf') >= request.tx
    <3>1. request.tx \in Nat /\ Len(buf) \in Nat /\ Len(buf') \in Nat
      BY <1>3, <1>8, Sizes, LenProperties DEF I2cTypes
    <3>. QED  BY <1>3, <1>8, <3>1 DEF I2cTypes
  <2>. QED  BY <1>1, <1>3, <1>8, <2>1 DEF I2cTypes
<1>10. I2cControl'
  BY <1>1, <1>2, <1>3, <1>5, <1>6 DEF I2cInv, I2cControl
<1>11. I2cPlaces'
  <2>1. sent <= Total /\ (~(sent < Total) => sent = Total)
    BY <1>1, <1>3
  <2>2. (request.ints \/ phase = "transmit") => i2c_got' = 0
    <3>1. (request.ints \/ phase = "transmit") => i2c_got = 0
      BY <1>2 DEF I2cInv, I2cPlaces
    <3>. QED  BY <1>5, <3>1
  <2>3. ~en => phase = "receive" /\ request.op = "txrx"
    BY <1>2 DEF I2cInv, I2cPlaces
  <2>. QED  BY <1>1, <1>4, <1>5, <1>6, <2>1, <2>2, <2>3 DEF I2cPlaces
<1>12. I2cQueue'
  <2>1. CASE UNCHANGED <<rxf, buf, i2c_got>>
    <3>1. ASSUME en, ~Flushing
          PROVE  \E k \in Nat : QueuedAt(k)'
      <4>1. PICK k \in Nat : QueuedAt(k)
        BY <1>3, <3>1
      <4>2. QueuedAt(k)'
        BY <1>1, <2>1, <4>1, SameQueue
      <4>. QED  BY <4>2
    <3>. QED  BY <1>1, <1>3, <1>4, <1>7, <2>1, <3>1 DEF I2cQueue
  <2>2. CASE /\ status' = "SUCCESS" /\ phase = "receive" /\ ~Flushing
             /\ Take(Len(rxf), i2c_got) /\ i2c_got' = i2c_got + Len(rxf)
    <3>1. \A i \in 1 .. Len(rxf) : rxf[i] = Reply(i2c_got + i)
      <4>1. CASE rxf = <<>>
        <5>1. Len(rxf) = 0
          BY <4>1, EmptySeq
        <5>. QED  BY <5>1
      <4>2. CASE rxf # <<>>
        <5>1. PICK k \in Nat : QueuedAt(k)
          BY <1>3, <4>2
        <5>2. TxCommands \in Nat
          BY <1>3, Sizes
        <5>. QED  BY <1>1, <4>2, <5>1, <5>2 DEF QueuedAt, Answered
      <4>. QED  BY <4>1, <4>2
    <3>2. Len(buf') >= i2c_got' /\ \A i \in 1 .. i2c_got' : buf'[i] = Reply(i)
      BY <1>3, <1>7, <2>2, <3>1, TakeBuffer
    <3>3. ASSUME en, ~Flushing
          PROVE  \E k \in Nat : QueuedAt(k)'
      <4>1. PICK k \in Nat : QueuedAt(k)
        BY <1>3, <3>3
      <4>2. QueuedAt(k)'
        BY <1>1, <1>3, <1>7, <2>2, <4>1, TakeQueue
      <4>. QED  BY <4>2
    <3>4. ASSUME ~en
          PROVE  cmds' = <<>> /\ rxf' = <<>> /\ i2c_got' = 0
      <4>1. cmds = <<>> /\ Len(rxf) = 0 /\ i2c_got = 0
        BY <1>3, <3>4, EmptySeq
      <4>2. rxf' \in Seq(Int) /\ Len(rxf') = Len(rxf) - Len(rxf)
        BY <1>3, <1>7, <2>2, TakeIs DEF I2cTypes
      <4>. QED  BY <1>1, <2>2, <4>1, <4>2, EmptySeq
    <3>. QED  BY <1>1, <1>4, <2>2, <3>2, <3>3, <3>4 DEF I2cQueue
  <2>. QED  BY <1>5, <2>1, <2>2
<1>13. I2cPending' /\ I2cResults'
  BY <1>1, <1>3, <1>5, <1>6 DEF I2cPending, I2cResults
<1>. QED  BY <1>9, <1>10, <1>11, <1>12, <1>13 DEF I2cInv

LEMMA RxReadStep ==
  ASSUME I2cInv, RxRead
  PROVE  I2cInv'
<1>1. /\ i2c_pc = "read" /\ isrpc = "off" /\ status = "SUCCESS" /\ sent = Total /\ phase = "receive" /\ ~request.ints
      /\ UNCHANGED <<cmds, device_heard, replied, en, i2c_isr, iser, callback, irq_busy, irq_left, irqbuf, isrpc, saved,
                     request, phase, sent>>
  BY DEF RxRead, I2cAt, control, irqs, I2cGoto, I2cInv, I2cPlaces
<1>2. InHand
  BY <1>1 DEF InHand
<1>3. /\ irq_busy = 0 /\ iser = {} /\ I2cTypes /\ Total \in Nat
      /\ (en /\ ~Flushing => \E k \in Nat : QueuedAt(k))
      /\ (~en \/ Flushing => cmds = <<>> /\ rxf = <<>> /\ i2c_got = 0)
  BY <1>1, <1>2, InHandIs
<1>4. UNCHANGED <<Restart, Stop, Total, Size, Flushing>>
  BY <1>1, SameCall DEF Flushing
<1>5. \/ i2c_got = Size /\ i2c_pc' = "stop" /\ status' = "SUCCESS" /\ UNCHANGED <<rxf, buf, i2c_got>>
      \/ rxf # <<>> /\ Take(1, i2c_got) /\ i2c_got' = i2c_got + 1 /\ i2c_pc' = "read" /\ status' = "SUCCESS"
      \/ /\ i2c_got' = i2c_got + 1 /\ i2c_pc' = "stop" /\ status' = "TIMEOUT" /\ rxf' = rxf
         /\ buf' = [i \in 1..(IF i2c_got + 1 > Len(buf) THEN i2c_got + 1 ELSE Len(buf)) |->
                     IF i = i2c_got + 1 THEN Garbage ELSE buf[i]]
  BY <1>1 DEF RxRead, I2cGoto
<1>6. InHand' /\ ~AwaitsIrq' /\ ~ArmedNow'
  BY <1>5 DEF InHand, AwaitsIrq, ArmedNow
<1>7. /\ i2c_got <= Len(buf) /\ Len(rxf) \in Nat /\ (\A i \in 1 .. i2c_got : buf[i] = Reply(i))
      /\ i2c_got \in Nat /\ Len(buf) \in Nat /\ (rxf # <<>> => 1 <= Len(rxf))
  <2>1. Len(buf) >= i2c_got /\ \A i \in 1 .. i2c_got : buf[i] = Reply(i)
    BY <1>1, <1>2 DEF I2cInv, I2cQueue
  <2>2. Len(buf) \in Nat /\ i2c_got \in Nat /\ Len(rxf) \in Nat /\ rxf \in Seq(Int)
    BY <1>3, LenProperties DEF I2cTypes
  <2>3. rxf # <<>> => Len(rxf) # 0
    BY <2>2, EmptySeq
  <2>. QED  BY <2>1, <2>2, <2>3
<1>8. rxf' \in Seq(Int) /\ buf' \in Seq(Int) /\ i2c_got' \in Nat /\ Len(buf') >= Len(buf)
  <2>1. CASE UNCHANGED <<rxf, buf, i2c_got>>
    <3>1. Len(buf) >= Len(buf)
      BY <1>7
    <3>. QED  BY <1>3, <2>1, <3>1 DEF I2cTypes
  <2>2. CASE rxf # <<>> /\ Take(1, i2c_got) /\ i2c_got' = i2c_got + 1
    <3>1. rxf' \in Seq(Int) /\ buf' \in Seq(Int) /\ Len(buf') >= Len(buf)
      BY <1>3, <1>7, <2>2, TakeIs DEF I2cTypes
    <3>. QED  BY <1>7, <2>2, <3>1
  <2>3. CASE /\ i2c_got' = i2c_got + 1 /\ rxf' = rxf
             /\ buf' = [i \in 1..(IF i2c_got + 1 > Len(buf) THEN i2c_got + 1 ELSE Len(buf)) |->
                          IF i = i2c_got + 1 THEN Garbage ELSE buf[i]]
    <3>. DEFINE m == IF i2c_got + 1 > Len(buf) THEN i2c_got + 1 ELSE Len(buf)
                f(i) == IF i = i2c_got + 1 THEN Garbage ELSE buf[i]
    <3>1. m \in Nat /\ m >= Len(buf)
      BY <1>7
    <3>2. \A i \in 1 .. m : f(i) \in Int
      <4>. TAKE i \in 1 .. m
      <4>1. CASE i = i2c_got + 1
        BY <4>1 DEF Garbage
      <4>2. CASE i # i2c_got + 1
        <5>1. i \in 1 .. Len(buf)
          BY <1>7, <4>2
        <5>2. buf[i] \in Int
          BY <1>3, <5>1, ElementOfSeq DEF I2cTypes
        <5>. QED  BY <4>2, <5>2
      <4>. QED  BY <4>1, <4>2
    <3>3. buf' = [i \in 1 .. m |-> f(i)]
      BY <2>3
    <3>. HIDE DEF m, f
    <3>4. buf' \in Seq(Int) /\ Len(buf') = m
      BY <3>1, <3>2, <3>3
    <3>. QED  BY <1>3, <1>7, <2>3, <3>1, <3>4 DEF I2cTypes
  <2>. QED  BY <1>5, <2>1, <2>2, <2>3
<1>9. I2cTypes'
  <2>1. request.shared => request.op = "txrx" /\ Len(buf') >= request.tx
    <3>1. request.tx \in Nat /\ Len(buf') \in Nat
      BY <1>3, <1>8, Sizes, LenProperties DEF I2cTypes
    <3>. QED  BY <1>3, <1>7, <1>8, <3>1 DEF I2cTypes
  <2>. QED  BY <1>1, <1>3, <1>8, <2>1 DEF I2cTypes
<1>10. I2cControl'
  BY <1>1, <1>2, <1>3, <1>5, <1>6 DEF I2cInv, I2cControl
<1>11. I2cPlaces'
  <2>1. sent <= Total
    BY <1>1, <1>3
  <2>2. ~en => phase = "receive" /\ request.op = "txrx"
    BY <1>2 DEF I2cInv, I2cPlaces
  <2>. QED  BY <1>1, <1>4, <1>5, <1>6, <2>1, <2>2 DEF I2cPlaces
<1>12. I2cQueue'
  <2>1. CASE status' = "SUCCESS" /\ UNCHANGED <<rxf, buf, i2c_got>>
    <3>1. ASSUME en, ~Flushing
          PROVE  \E k \in Nat : QueuedAt(k)'
      <4>1. PICK k \in Nat : QueuedAt(k)
        BY <1>3, <3>1
      <4>2. QueuedAt(k)'
        BY <1>1, <2>1, <4>1, SameQueue
      <4>. QED  BY <4>2
    <3>. QED  BY <1>1, <1>3, <1>4, <1>7, <2>1, <3>1 DEF I2cQueue
  <2>2. CASE status' = "SUCCESS" /\ rxf # <<>> /\ Take(1, i2c_got) /\ i2c_got' = i2c_got + 1
    <3>1. en /\ ~Flushing
      BY <1>3, <2>2
    <3>2. PICK k \in Nat : QueuedAt(k)
      BY <1>3, <3>1
    <3>3. QueuedAt(k)'
      BY <1>1, <1>3, <1>7, <2>2, <3>2, TakeQueue
    <3>4. \A i \in 1 .. 1 : rxf[i] = Reply(i2c_got + i)
      <4>1. TxCommands \in Nat /\ 1 \in 1 .. Len(rxf)
        BY <1>3, <1>7, <2>2, Sizes
      <4>2. \A i \in 1 .. Len(rxf) : rxf[i] = Reply(i2c_got + i)
        BY <1>1, <2>2, <3>2, <4>1 DEF QueuedAt, Answered
      <4>. QED  BY <4>1, <4>2
    <3>5. Len(buf') >= i2c_got' /\ \A i \in 1 .. i2c_got' : buf'[i] = Reply(i)
      BY <1>3, <1>7, <2>2, <3>4, TakeBuffer
    <3>6. \E j \in Nat : QueuedAt(j)'
      BY <3>3
    <3>. QED  BY <1>1, <1>4, <3>1, <3>5, <3>6 DEF I2cQueue
  <2>3. CASE status' = "TIMEOUT" /\ rxf' = rxf
    <3>1. ASSUME en, ~Flushing
          PROVE  \E k \in Nat : QueuedAt(k)'
      <4>1. PICK k \in Nat : QueuedAt(k)
        BY <1>3, <3>1
      <4>2. QueuedAt(k)'
        BY <1>1, <2>3, <4>1, SameQueue
      <4>. QED  BY <4>2
    <3>. QED  BY <1>1, <1>3, <1>4, <2>3, <3>1 DEF I2cQueue
  <2>. QED  BY <1>5, <2>1, <2>2, <2>3
<1>13. I2cPending' /\ I2cResults'
  BY <1>1, <1>3, <1>5, <1>6 DEF I2cPending, I2cResults
<1>. QED  BY <1>9, <1>10, <1>11, <1>12, <1>13 DEF I2cInv

\* a polled call that succeeds: the queue has gone through to its end
LEMMA PolledResults ==
  ASSUME I2cInv, i2c_pc = "stop", status = "SUCCESS", Stop, ~request.ints, en, ~Flushing, cmds = <<>>
  PROVE  /\ rxf = <<>>
         /\ ~request.shared /\ request.op # "rx" => HasHeard(request.tx)
         /\ request.op # "tx" => HasReplies(buf)
<1>1. InHand
  BY DEF InHand
<1>2. I2cTypes /\ (\E k \in Nat : QueuedAt(k))
  BY <1>1, InHandIs
<1>3. PICK k \in Nat : QueuedAt(k)
  BY <1>2
<1>4. sent = Total /\ (phase = "receive" => i2c_got = Size)
  BY DEF I2cInv, I2cPlaces
<1>5. /\ Address \in {1, 2} /\ TxCommands \in Nat /\ Sequel \in Nat /\ Size \in Nat /\ Total = Address + Size
      /\ request.tx \in Nat /\ request.rx \in Nat /\ request.op \in {"tx", "rx", "txrx"} /\ phase \in {"transmit", "receive"}
      /\ request.op # "rx" => TxCommands = Address + request.tx
      /\ phase = "transmit" => Sequel = 0 /\ Total = TxCommands /\ request.op = "tx"
      /\ phase = "receive" => Sequel = TxCommands /\ Address = 1 /\ Size = request.rx /\ request.op # "tx"
  BY <1>2, Sizes DEF I2cTypes, Requests
<1>6. k = Sequel + Total
  <2>1. k + Len(cmds) = Sequel + sent /\ Len(cmds) = 0
    BY <1>3, EmptySeq DEF QueuedAt, WrittenTo
  <2>. QED  BY <1>4, <2>1
<1>7. rxf = <<>>
  <2>1. CASE phase = "transmit"
    <3>1. k <= TxCommands
      BY <1>5, <1>6, <2>1
    <3>. QED  BY <1>3, <3>1 DEF QueuedAt, Answered
  <2>2. CASE phase = "receive"
    <3>1. k > TxCommands /\ (k - TxCommands) - 1 = Size /\ Size - Size = 0
      BY <1>5, <1>6, <2>2
    <3>2. Len(rxf) = 0
      BY <1>3, <1>4, <2>2, <3>1 DEF QueuedAt, Answered
    <3>. QED  BY <1>2, <3>2, EmptySeq DEF I2cTypes
  <2>. QED  BY <1>5, <2>1, <2>2
<1>8. ASSUME ~request.shared, request.op # "rx"
      PROVE  HasHeard(request.tx)
  <2>1. HeardOf(k) = request.tx /\ k >= 1
    <3>1. k >= 1 /\ k >= TxCommands /\ TxCommands = Address + request.tx
      BY <1>5, <1>6, <1>8
    <3>. QED  BY <1>5, <3>1 DEF HeardOf
  <2>. QED  BY <1>3, <1>8, <2>1 DEF QueuedAt, Heard
<1>9. ASSUME request.op # "tx"
      PROVE  HasReplies(buf)
  <2>1. phase = "receive" /\ i2c_got = request.rx
    BY <1>4, <1>5, <1>9
  <2>2. Len(buf) >= i2c_got /\ \A i \in 1 .. i2c_got : buf[i] = Reply(i)
    BY <1>1 DEF I2cInv, I2cQueue
  <2>. QED  BY <2>1, <2>2 DEF HasReplies
<1>. QED  BY <1>7, <1>8, <1>9

LEMMA FinishStep ==
  ASSUME I2cInv, Finish
  PROVE  I2cInv'
<1>1. /\ i2c_pc = "stop" /\ isrpc = "off" /\ (status # "SUCCESS" \/ (Stop /\ ~request.ints)) /\ i2c_pc' = "retry"
      /\ en' = FALSE /\ iser' = iser \ {"TX_READY"} /\ cmds' = <<>> /\ (rxf' = rxf \/ rxf' = <<>>)
      /\ UNCHANGED <<device_heard, replied, i2c_isr, callback, irq_busy, irq_left, irqbuf, isrpc, saved,
                     request, phase, sent, i2c_got, buf>>
  BY DEF Finish, I2cAt, Disable, irqs, I2cGoto
<1>2. /\ status' = "SUCCESS" => status = "SUCCESS" /\ ~IsBusy /\ Stop /\ ~request.ints /\ "NACK_DET" \notin i2c_isr
      /\ status = "TIMEOUT" /\ ~Flushing => status' = "TIMEOUT"
      /\ IsBusy /\ ~Flushing => status' = "TIMEOUT"
  BY <1>1 DEF Finish, AtEnd, CheckNack, Flushing
<1>3. InHand /\ UNCHANGED <<Stop, Restart, Flushing>>
  BY <1>1, SameCall DEF InHand, Flushing
<1>4. /\ irq_busy = 0 /\ iser = {} /\ sent \in 0 .. Total /\ I2cTypes /\ Total \in Nat
      /\ (en /\ ~Flushing => \E k \in Nat : QueuedAt(k))
      /\ (~en \/ Flushing => cmds = <<>> /\ rxf = <<>> /\ (status = "SUCCESS" => i2c_got = 0))
  BY <1>3, InHandIs
<1>5. ~InHand' /\ ~AwaitsIrq' /\ ~ArmedNow'
  BY <1>1, <1>2, <1>3 DEF InHand, AwaitsIrq, ArmedNow
<1>6. I2cTypes'
  <2>1. cmds' \in Seq(Commands) /\ rxf' \in Seq(Int)
    <3>1. rxf \in Seq(Int)
      BY <1>4 DEF I2cTypes
    <3>. QED  BY <1>1, <3>1, EmptySeq, Zenon
  <2>2. en' \in BOOLEAN
    BY <1>1, Zenon
  <2>3. iser' \subseteq AllInts
    BY <1>1, <1>4
  <2>. QED  BY <1>1, <1>4, <2>1, <2>2, <2>3 DEF I2cTypes
<1>7. I2cControl'
  BY <1>1, <1>3, <1>4, <1>5 DEF I2cInv, I2cControl
<1>8. I2cPlaces' /\ I2cQueue'
  BY <1>1, <1>5 DEF I2cPlaces, I2cQueue
<1>9. ASSUME status' = "SUCCESS", "ARBLOST_DET" \notin i2c_isr
      PROVE  /\ rxf = <<>>
             /\ ~request.shared /\ request.op # "rx" => HasHeard(request.tx)
             /\ request.op # "tx" => HasReplies(buf)
  <2>1. status = "SUCCESS" /\ Stop /\ ~request.ints /\ ~Flushing
    BY <1>2, <1>9 DEF Flushing
  <2>2. sent = Total /\ (phase = "receive" => i2c_got = Size)
    BY <1>1, <2>1 DEF I2cInv, I2cPlaces
  <2>3. en
    <3>. SUFFICES ASSUME ~en PROVE FALSE
      OBVIOUS
    <3>1. phase = "receive" /\ i2c_got = 0
      BY <1>3, <1>4, <2>1 DEF I2cInv, I2cPlaces
    <3>2. Size \in 1 .. Depth /\ Depth \in Nat
      BY <1>4, <3>1, Sizes, I2cAssumption
    <3>. QED  BY <2>2, <3>1, <3>2
  <2>4. cmds = <<>>
    BY <1>2, <1>9, <2>3 DEF IsBusy
  <2>. QED  BY <1>1, <2>1, <2>3, <2>4, PolledResults
<1>10. I2cPending'
  <2>1. rxf' = <<>> \/ (status' = "TIMEOUT" /\ Stop)
    <3>. SUFFICES ASSUME rxf # <<>> PROVE status' = "TIMEOUT" /\ Stop
      BY <1>1
    <3>1. en /\ ~Flushing
      BY <1>4
    <3>2. PICK k \in Nat : QueuedAt(k)
      BY <1>4, <3>1
    <3>3. k > TxCommands /\ TxCommands \in Nat /\ cmds \in Seq(Commands)
      BY <1>4, <3>2, Sizes DEF QueuedAt, Answered, I2cTypes
    <3>4. phase = "receive"
      <4>. SUFFICES ASSUME phase = "transmit" PROVE FALSE
        BY <1>4 DEF I2cTypes
      <4>1. k + Len(cmds) <= sent /\ Len(cmds) \in Nat /\ Total = TxCommands
        <5>1. Sequel = 0 /\ Total = TxCommands /\ k + Len(cmds) <= Sequel + sent
          BY <1>4, <3>2, Sizes DEF QueuedAt, WrittenTo
        <5>2. Len(cmds) \in Nat
          BY <3>3, LenProperties
        <5>. QED  BY <1>4, <5>1, <5>2
      <4>. QED  BY <1>4, <3>3, <4>1
    <3>5. Stop
      BY <1>4, <3>4, Sizes
    <3>6. CASE status # "SUCCESS"
      <4>1. status = "TIMEOUT"
        BY <1>1, <3>1, <3>6 DEF I2cInv, I2cPlaces
      <4>. QED  BY <1>2, <3>1, <3>5, <4>1
    <3>7. CASE status = "SUCCESS" /\ cmds = <<>>
      <4>1. ~request.ints
        BY <1>1, <3>7
      <4>2. rxf = <<>>
        BY <1>1, <3>1, <3>5, <3>7, <4>1, PolledResults
      <4>. QED  BY <4>2
    <3>8. CASE cmds # <<>>
      BY <1>2, <3>1, <3>5, <3>8 DEF IsBusy
    <3>. QED  BY <3>6, <3>7, <3>8
  <2>. QED  BY <1>1, <1>3, <1>4, <2>1 DEF I2cPending
<1>11. I2cResults'
  <2>1. HasHeard(request.tx) => Len(device_heard) = request.tx /\ \A i \in 1 .. request.tx : device_heard[i] = i
    BY DEF HasHeard
  <2>. QED  BY <1>1, <1>5, <1>9, <2>1, SameReplies DEF I2cResults
<1>. QED  BY <1>6, <1>7, <1>8, <1>10, <1>11 DEF I2cInv

\* what is queued is what the interrupt will find
LEMMA ArmArriving ==
  ASSUME I2cInv, InHand, status = "SUCCESS", sent = Total, phase = "receive", request.ints,
         irq_left' = Size, irqbuf' = <<>>, UNCHANGED <<cmds, rxf, replied>>
  PROVE  (Lost' \/ Arriving') /\ Due' = Size
<1>1. /\ I2cTypes /\ (en /\ ~Flushing => \E k \in Nat : QueuedAt(k))
      /\ (~en \/ Flushing => cmds = <<>> /\ rxf = <<>>)
  BY InHandIs
<1>2. /\ Size \in 1 .. Depth /\ Size \in Nat /\ Size >= 1 /\ TxCommands \in Nat /\ Sequel = TxCommands /\ Total = 1 + Size
      /\ Depth \in Nat
  BY <1>1, Sizes, I2cAssumption
<1>3. Due' = Size /\ Len(irqbuf') = 0
  BY <1>2, EmptySeq DEF Due
<1>4. i2c_got = 0
  BY DEF I2cInv, I2cPlaces
<1>5. CASE ~en \/ Flushing
  BY <1>1, <1>2, <1>3, <1>5 DEF Lost
<1>6. CASE en /\ ~Flushing
  <2>1. PICK k \in Nat : QueuedAt(k)
    BY <1>1, <1>6
  <2>2. k + Len(cmds) = (TxCommands + 1) + Size /\ Len(cmds) \in Nat
    <3>1. Len(cmds) \in Nat
      BY <1>1, LenProperties DEF I2cTypes
    <3>2. k + Len(cmds) = Sequel + Total
      BY <2>1 DEF QueuedAt, WrittenTo
    <3>. QED  BY <1>2, <3>1, <3>2
  <2>3. ASSUME NEW i \in 1 .. Len(cmds)
        PROVE  /\ cmds[i].read <=> i >= Len(cmds) - Size
               /\ cmds[i].read => (cmds[i].address <=> i = Len(cmds) - Size)
    <3>1. (cmds[i].read <=> k + i > TxCommands)
          /\ (cmds[i].address <=> IF k + i > TxCommands THEN k + i = TxCommands + 1 ELSE k + i <= Address)
      BY <2>1 DEF QueuedAt, InOrder, Fits
    <3>2. (k + i > TxCommands <=> i >= Len(cmds) - Size) /\ (k + i = TxCommands + 1 <=> i = Len(cmds) - Size)
      BY <1>2, <2>2
    <3>. QED  BY <3>1, <3>2
  <2>4. ASSUME Len(cmds) <= Size
        PROVE  replied = Size - Len(cmds) /\ Len(rxf) = replied /\ \A i \in 1 .. Len(rxf) : rxf[i] = Reply(i)
    <3>1. k > TxCommands /\ (k - TxCommands) - 1 = Size - Len(cmds)
      BY <1>2, <2>2, <2>4
    <3>2. replied = (k - TxCommands) - 1 /\ Len(rxf) = replied - 0 /\ \A i \in 1 .. Len(rxf) : rxf[i] = Reply(0 + i)
      BY <1>4, <2>1, <3>1 DEF QueuedAt, Answered
    <3>3. replied \in Nat /\ \A i \in 1 .. Len(rxf) : 0 + i = i
      BY <1>1 DEF I2cTypes
    <3>. QED  BY <3>1, <3>2, <3>3
  <2>5. ASSUME Len(cmds) > Size
        PROVE  rxf = <<>>
    <3>1. k <= TxCommands
      BY <1>2, <2>2, <2>5
    <3>. QED  BY <2>1, <3>1 DEF QueuedAt, Answered
  <2>6. \A i \in 1 .. Len(rxf) : Len(irqbuf') + i = i
    BY <1>3
  <2>7. replied - Len(irqbuf') = replied
    BY <1>1, <1>3 DEF I2cTypes
  <2>8. Arriving'
    <3>1. /\ Len(cmds') <= Due' => replied' = Due' - Len(cmds') /\ Len(rxf') = replied' - Len(irqbuf')
                                   /\ \A i \in 1 .. Len(rxf') : rxf'[i] = Reply(Len(irqbuf') + i)
          /\ Len(cmds') > Due' => rxf' = <<>> /\ irqbuf' = <<>>
      BY <1>3, <2>4, <2>5, <2>6, <2>7
    <3>2. \A i \in 1 .. Len(irqbuf') : irqbuf'[i] = Reply(i)
      BY <1>3
    <3>3. \A i \in 1 .. Len(cmds') : /\ cmds'[i].read <=> i >= Len(cmds') - Due'
                                     /\ cmds'[i].read => (cmds'[i].address <=> i = Len(cmds') - Due')
      BY <1>3, <2>3
    <3>. QED  BY <1>2, <1>3, <3>1, <3>2, <3>3 DEF Arriving
  <2>. QED  BY <1>3, <2>8
<1>. QED  BY <1>5, <1>6

\* a transmission leaves nothing that reads, and nothing read
LEMMA ArmTransmit ==
  ASSUME I2cInv, InHand, status = "SUCCESS", sent = Total, phase = "transmit"
  PROVE  rxf = <<>> /\ \A i \in 1 .. Len(cmds) : ~cmds[i].read
<1>1. /\ I2cTypes /\ (en /\ ~Flushing => \E k \in Nat : QueuedAt(k))
      /\ (~en \/ Flushing => cmds = <<>> /\ rxf = <<>>)
  BY InHandIs
<1>2. Sequel = 0 /\ Total = TxCommands /\ TxCommands \in Nat
  BY <1>1, Sizes
<1>3. CASE ~en \/ Flushing
  <2>1. Len(cmds) = 0
    BY <1>1, <1>3, EmptySeq
  <2>. QED  BY <1>1, <1>3, <2>1
<1>4. CASE en /\ ~Flushing
  <2>1. PICK k \in Nat : QueuedAt(k)
    BY <1>1, <1>4
  <2>2. k + Len(cmds) = TxCommands /\ Len(cmds) \in Nat
    <3>1. Len(cmds) \in Nat
      BY <1>1, LenProperties DEF I2cTypes
    <3>2. k + Len(cmds) = Sequel + Total
      BY <2>1 DEF QueuedAt, WrittenTo
    <3>. QED  BY <1>2, <3>1, <3>2
  <2>3. k <= TxCommands
    BY <1>2, <2>2
  <2>4. ASSUME NEW i \in 1 .. Len(cmds) PROVE ~cmds[i].read
    <3>1. cmds[i].read <=> k + i > TxCommands
      BY <2>1 DEF QueuedAt, InOrder, Fits
    <3>2. ~(k + i > TxCommands)
      BY <1>2, <2>2
    <3>. QED  BY <3>1, <3>2
  <2>. QED  BY <2>1, <2>3, <2>4 DEF QueuedAt, Answered
<1>. QED  BY <1>3, <1>4

LEMMA ArmStep ==
  ASSUME I2cInv, Arm
  PROVE  I2cInv'
<1>1. /\ i2c_pc = "stop" /\ isrpc = "off" /\ status = "SUCCESS" /\ Stop /\ request.ints /\ i2c_pc' = "retry"
      /\ i2c_isr' = i2c_isr \ Clearable
      /\ UNCHANGED <<cmds, rxf, device_heard, replied, en, callback, isrpc, saved,
                     request, phase, sent, i2c_got, status, buf>>
  BY DEF Arm, I2cAt, i2cHardware, I2cGoto, alt_avalon_i2c_int_clear
<1>2. \/ /\ phase = "transmit" /\ irq_busy' = 1 /\ iser' = iser \cup {"TX_READY"} /\ UNCHANGED <<irq_left, irqbuf>>
      \/ /\ phase # "transmit" /\ irq_busy' = 2 /\ iser' = iser \cup {"RX_READY"} /\ irq_left' = Size /\ irqbuf' = <<>>
  BY DEF Arm, alt_avalon_i2c_int_enable
<1>3. InHand /\ UNCHANGED <<Stop, Restart, Size>>
  BY <1>1, SameCall DEF InHand
<1>4. ~InHand' /\ ~AwaitsIrq' /\ ArmedNow'
  BY <1>1, <1>3 DEF InHand, AwaitsIrq, ArmedNow
<1>5. irq_busy = 0 /\ iser = {} /\ I2cTypes /\ sent = Total /\ callback /\ phase \in {"transmit", "receive"}
  <2>1. irq_busy = 0 /\ iser = {} /\ I2cTypes
    BY <1>3, InHandIs
  <2>2. sent = Total /\ callback
    BY <1>1, <1>3 DEF I2cInv, I2cPlaces, I2cControl
  <2>. QED  BY <2>1, <2>2 DEF I2cTypes
<1>6. /\ Size \in Nat /\ request.op \in {"tx", "rx", "txrx"}
      /\ phase = "transmit" => request.op = "tx"
      /\ phase = "receive" => request.op # "tx" /\ Size = request.rx
  BY <1>1, <1>5, Sizes DEF I2cTypes, Requests
<1>7. I2cTypes'
  <2>1. iser' \subseteq AllInts /\ i2c_isr' \subseteq Clearable /\ irq_busy' \in 0 .. 2
    BY <1>1, <1>2, <1>5 DEF I2cTypes, AllInts
  <2>2. irq_left' \in Nat /\ irqbuf' \in Seq(Int)
    BY <1>2, <1>5, <1>6, EmptySeq DEF I2cTypes
  <2>. QED  BY <1>1, <1>5, <2>1, <2>2 DEF I2cTypes
<1>8. I2cControl'
  <2>1. (irq_busy' = 1 /\ iser' = {"TX_READY"}) \/ (irq_busy' = 2 /\ iser' = {"RX_READY"})
    BY <1>2, <1>5
  <2>. QED  BY <1>1, <1>4, <1>5, <2>1 DEF I2cInv, I2cControl
<1>9. I2cPlaces' /\ I2cQueue'
  BY <1>1, <1>4 DEF I2cPlaces, I2cQueue
<1>10. CASE phase = "transmit"
  <2>1. rxf = <<>> /\ \A i \in 1 .. Len(cmds) : ~cmds[i].read
    BY <1>1, <1>3, <1>5, <1>10, ArmTransmit
  <2>2. I2cPending'
    BY <1>1, <1>2, <1>10, <2>1 DEF I2cPending
  <2>3. I2cResults'
    BY <1>1, <1>2, <1>4, <1>6, <1>10 DEF I2cResults
  <2>. QED  BY <1>7, <1>8, <1>9, <2>2, <2>3 DEF I2cInv
<1>11. CASE phase = "receive"
  <2>1. irq_busy' = 2 /\ irq_left' = Size /\ irqbuf' = <<>>
    BY <1>2, <1>11
  <2>2. (Lost' \/ Arriving') /\ Due' = Size
    BY <1>1, <1>3, <1>5, <1>11, <2>1, ArmArriving
  <2>3. I2cPending'
    BY <1>1, <2>1, <2>2 DEF I2cPending
  <2>4. I2cResults'
    BY <1>1, <1>4, <1>6, <1>11, <2>1, <2>2 DEF I2cResults
  <2>. QED  BY <1>7, <1>8, <1>9, <2>3, <2>4 DEF I2cInv
<1>. QED  BY <1>5, <1>10, <1>11

\* between the two halves of master_tx_rx: the queue stays as it is
LEMMA KeepBusStep ==
  ASSUME I2cInv, KeepBus
  PROVE  I2cInv'
<1>1. /\ i2c_pc = "stop" /\ isrpc = "off" /\ status = "SUCCESS" /\ ~Stop /\ i2c_pc' = "retry"
      /\ UNCHANGED <<cmds, rxf, device_heard, replied, en, i2c_isr, iser, callback, irq_busy, irq_left, irqbuf,
                     isrpc, saved,
                     request, phase, sent, i2c_got, status, buf>>
  BY DEF KeepBus, I2cAt, i2cHardware, control, irqs, I2cGoto
<1>2. UNCHANGED <<TxCommands, Sequel, Restart, Stop, Size, Address, Total, Flushing>>
  BY <1>1, SameCall DEF Flushing
<1>3. InHand /\ InHand' /\ ~AwaitsIrq' /\ ~ArmedNow'
  BY <1>1, <1>2 DEF InHand, AwaitsIrq, ArmedNow
<1>4. irq_busy = 0 /\ iser = {} /\ I2cTypes /\ sent = Total
  <2>1. irq_busy = 0 /\ iser = {} /\ I2cTypes
    BY <1>3, InHandIs
  <2>. QED  BY <1>1, <2>1 DEF I2cInv, I2cPlaces
<1>5. I2cTypes' /\ I2cControl'
  BY <1>1, <1>2, <1>3, <1>4 DEF I2cInv, I2cTypes, I2cControl
<1>6. I2cPlaces'
  BY <1>1, <1>2, <1>3, <1>4 DEF I2cInv, I2cPlaces
<1>7. I2cQueue'
  <2>1. ASSUME en, ~Flushing
        PROVE  \E k \in Nat : QueuedAt(k)'
    <3>1. PICK k \in Nat : QueuedAt(k)
      BY <1>3, <2>1, InHandIs
    <3>2. QueuedAt(k)'
      BY <1>1, <3>1, SameQueue
    <3>. QED  BY <3>2
  <2>. QED  BY <1>1, <1>2, <1>3, <2>1 DEF I2cInv, I2cQueue
<1>8. I2cPending'
  <2>1. irq_busy' = 0 /\ InHand'
    BY <1>1, <1>3, <1>4
  <2>. QED  BY <2>1 DEF I2cPending
<1>9. I2cResults'
  BY <1>1, <1>2, <1>3 DEF I2cResults
<1>. QED  BY <1>5, <1>6, <1>7, <1>8, <1>9 DEF I2cInv

\* the second half begins where the commands of the first one end, or with a
\* core that the first one has given up
LEMMA ThenReceiveStep ==
  ASSUME I2cInv, ThenReceive
  PROVE  I2cInv'
<1>1. /\ i2c_pc = "retry" /\ isrpc = "off" /\ status \notin {"ARB_LOST_ERR", "NACK_ERR", "BUSY"} /\ ~Stop
      /\ phase' = "receive" /\ i2c_pc' = "begin" /\ sent' = 0 /\ i2c_got' = 0
      /\ UNCHANGED <<cmds, rxf, device_heard, replied, en, i2c_isr, iser, callback, irq_busy, irq_left, irqbuf,
                     isrpc, saved,
                     request, status, buf>>
  BY DEF ThenReceive, I2cAt, i2cHardware, control, irqs, Retriable
<1>2. phase = "transmit" /\ request.op = "txrx" /\ (InHand <=> status = "SUCCESS") /\ ~AwaitsIrq /\ ~ArmedNow
  BY <1>1 DEF Stop, InHand, AwaitsIrq, ArmedNow
<1>3. Restart' /\ InHand' /\ ~AwaitsIrq' /\ ~ArmedNow' /\ UNCHANGED <<Flushing, TxCommands, Address>>
  BY <1>1, <1>2 DEF Restart, InHand, AwaitsIrq, ArmedNow, Flushing, TxCommands, Address
<1>4. irq_busy = 0 /\ iser = {} /\ I2cTypes /\ (status # "SUCCESS" => ~en)
  BY <1>1, <1>2 DEF I2cInv, I2cControl
<1>5. I2cTypes'
  <2>1. sent' \in Nat /\ i2c_got' \in Nat
    BY <1>1
  <2>. QED  BY <1>1, <1>2, <1>4, <2>1 DEF I2cTypes
<1>6. I2cControl'
  BY <1>1, <1>2, <1>3, <1>4 DEF I2cInv, I2cControl
<1>7. I2cPlaces'
  BY <1>1, <1>2, <1>3, <1>4 DEF I2cPlaces
<1>8. I2cQueue'
  <2>1. ASSUME en, ~Flushing
        PROVE  \E k \in Nat : QueuedAt(k)'
    <3>1. PICK k \in Nat : QueuedAt(k)
      BY <1>2, <1>4, <2>1, InHandIs
    <3>2. sent = Total /\ status = "SUCCESS"
      BY <1>1, <1>2, <1>4, <2>1 DEF I2cInv, I2cPlaces
    <3>3. Sequel = 0 /\ Total = TxCommands /\ TxCommands \in Nat /\ Len(cmds) \in Nat
      BY <1>2, <1>4, Sizes, LenProperties DEF I2cTypes
    <3>4. k + Len(cmds) = TxCommands
      <4>1. k + Len(cmds) = Sequel + sent
        BY <3>1, <3>2 DEF QueuedAt, WrittenTo
      <4>. QED  BY <3>2, <3>3, <4>1
    <3>5. Sequel' + sent' = TxCommands
      BY <1>1, <1>3, <3>3 DEF Sequel
    <3>6. WrittenTo(k)'
      BY <1>1, <3>3, <3>4, <3>5 DEF WrittenTo
    <3>7. InOrder(k)'
      BY <1>1, <1>3, <3>1 DEF QueuedAt, InOrder, Fits
    <3>8. Heard(k)'
      BY <1>1, <1>3, <3>1 DEF QueuedAt, Heard, HeardOf, HasHeard
    <3>9. Answered(k)'
      <4>1. k <= TxCommands /\ ~(k > TxCommands)
        BY <3>3, <3>4
      <4>. QED  BY <1>1, <1>3, <3>1, <4>1 DEF QueuedAt, Answered
    <3>10. QueuedAt(k)'
      BY <3>6, <3>7, <3>8, <3>9 DEF QueuedAt
    <3>. QED  BY <3>10
  <2>2. ASSUME ~en \/ Flushing
        PROVE  cmds = <<>> /\ rxf = <<>>
    <3>1. CASE InHand
      BY <2>2, <3>1, InHandIs
    <3>2. CASE ~InHand
      BY <1>1, <1>2, <1>4, <3>2 DEF I2cInv, I2cControl, I2cPending
    <3>. QED  BY <3>1, <3>2
  <2>3. Len(buf') >= i2c_got' /\ \A i \in 1 .. i2c_got' : buf'[i] = Reply(i)
    <3>1. Len(buf) >= 0
      BY <1>4, LenProperties DEF I2cTypes
    <3>. QED  BY <1>1, <3>1
  <2>4. /\ en' /\ ~Flushing' => \E k \in Nat : QueuedAt(k)'
        /\ ~en' \/ Flushing' => cmds' = <<>> /\ rxf' = <<>> /\ i2c_got' = 0
    BY <1>1, <1>3, <2>1, <2>2
  <2>. QED  BY <2>3, <2>4 DEF I2cQueue
<1>9. I2cPending' /\ I2cResults'
  BY <1>1, <1>3, <1>4 DEF I2cPending, I2cResults
<1>. QED  BY <1>5, <1>6, <1>7, <1>8, <1>9 DEF I2cInv

(***************************************************************************)
(* Every step, and what it comes to.                                       *)
(***************************************************************************)
LEMMA I2cStutter ==
  ASSUME I2cInv, UNCHANGED i2cVars
  PROVE  I2cInv'
<1>1. UNCHANGED <<cmds, rxf, device_heard, replied, en, i2c_isr, iser, callback, irq_busy, irq_left, irqbuf, isrpc, saved,
                  request, i2c_pc, phase, sent, i2c_got, status, tries, buf>>
  BY DEF i2cVars, i2cHardware, control, irqs, i2cDriver
<1>2. UNCHANGED <<TxCommands, Sequel, Restart, Stop, Size, Address, Total, Flushing, InHand, AwaitsIrq, ArmedNow, Due>>
  BY <1>1 DEF TxCommands, Sequel, Restart, Stop, Size, Address, Total, Flushing, InHand, AwaitsIrq, ArmedNow, Due
<1>3. I2cTypes' /\ I2cControl' /\ I2cPlaces'
  BY <1>1, <1>2 DEF I2cInv, I2cTypes, I2cControl, I2cPlaces
<1>4. \A k \in Nat : QueuedAt(k) => QueuedAt(k)'
  BY <1>1, SameQueue
<1>5. I2cQueue'
  BY <1>1, <1>2, <1>4 DEF I2cInv, I2cQueue
<1>6. I2cPending'
  BY <1>1, <1>2, SameArriving DEF I2cInv, I2cPending
<1>7. I2cResults'
  BY <1>1, <1>2, SameReplies DEF I2cInv, I2cResults
<1>. QED  BY <1>3, <1>5, <1>6, <1>7 DEF I2cInv

LEMMA I2cStart == I2cInit => I2cInv
<1>. SUFFICES ASSUME I2cInit PROVE I2cInv
  OBVIOUS
<1>1. ~InHand /\ ~AwaitsIrq /\ ~ArmedNow
  BY DEF I2cInit, InHand, AwaitsIrq, ArmedNow
<1>2. I2cTypes
  <2>1. <<>> \in Seq(Commands) /\ <<>> \in Seq(Int)
    BY EmptySeq
  <2>2. request \in Requests
    BY DEF I2cInit, Requests
  <2>3. en \in BOOLEAN /\ callback \in BOOLEAN
    BY Zenon DEF I2cInit
  <2>4. i2c_isr \subseteq Clearable /\ iser \subseteq AllInts /\ saved \subseteq AllInts
    BY DEF I2cInit
  <2>5. /\ cmds \in Seq(Commands) /\ rxf \in Seq(Int) /\ device_heard \in Seq(Int) /\ irqbuf \in Seq(Int)
           /\ buf \in Seq(Int)
        /\ replied \in Nat /\ irq_left \in Nat /\ sent \in Nat /\ i2c_got \in Nat /\ irq_busy \in 0 .. 2
    BY <2>1 DEF I2cInit
  <2>6. /\ isrpc \in {"off", "callback", "end"} /\ phase \in {"transmit", "receive"}
        /\ request.op = "tx" /\ phase = "transmit" /\ ~request.shared
    BY DEF I2cInit
  <2>. QED  BY <2>2, <2>3, <2>4, <2>5, <2>6 DEF I2cTypes
<1>3. I2cControl
  BY <1>1 DEF I2cInit, I2cControl
<1>4. I2cPlaces /\ I2cQueue /\ I2cPending /\ I2cResults
  BY <1>1 DEF I2cInit, I2cPlaces, I2cQueue, I2cPending, I2cResults
<1>. QED  BY <1>2, <1>3, <1>4 DEF I2cInv

LEMMA I2cStep == I2cInv /\ [I2cNext]_i2cVars => I2cInv'
<1>. SUFFICES ASSUME I2cInv, I2cNext \/ UNCHANGED i2cVars PROVE I2cInv'
  OBVIOUS
<1>1. CASE Core
  BY <1>1, CoreStep
<1>2. CASE Begin \/ CmdWrite \/ Check \/ RxRead
  BY <1>2, BeginStep, CmdWriteStep, CheckStep, RxReadStep
<1>3. CASE Finish \/ Arm \/ KeepBus
  BY <1>3, FinishStep, ArmStep, KeepBusStep
<1>4. CASE Again \/ ThenReceive \/ I2cReturn
  BY <1>4, AgainStep, ThenReceiveStep, ReturnStep
<1>5. CASE StatusGet \/ StatusCheck \/ StatusBusy \/ Abort
  BY <1>5, StatusGetStep, StatusCheckStep, StatusBusyStep, AbortStep
<1>6. CASE IrqEnter \/ IrqReceive \/ IrqTransmit \/ IrqEnd
  BY <1>6, IrqEnterStep, IrqReceiveStep, IrqTransmitStep, IrqEndStep
<1>7. CASE RegisterCallback
  BY <1>7, RegisterStep
<1>8. ASSUME NEW c \in I2cCalls, Start(c) PROVE I2cInv'
  BY <1>8, StartStep
<1>9. CASE Hang \/ UNCHANGED i2cVars
  BY <1>9, I2cStutter DEF Hang
<1>. QED  BY <1>1, <1>2, <1>3, <1>4, <1>5, <1>6, <1>7, <1>8, <1>9 DEF I2cNext, I2cDriver

LEMMA I2cKeeps == I2cInv => I2cDone
<1>. SUFFICES ASSUME I2cInv PROVE I2cDone
  OBVIOUS
<1>1. request \in Requests /\ request.tx \in Nat /\ request.rx \in Nat
  BY DEF I2cInv, I2cTypes, Requests
<1>2. device_heard \in Seq(Int) /\ buf \in Seq(Int) /\ irqbuf \in Seq(Int)
  BY DEF I2cInv, I2cTypes
<1>3. I2cReleased
  BY DEF I2cInv, I2cControl, I2cReleased, InHand, AwaitsIrq
<1>4. ASSUME Len(device_heard) = request.tx, \A i \in 1 .. request.tx : device_heard[i] = i
      PROVE  device_heard = I2cAsked
  BY <1>1, <1>2, <1>4 DEF I2cAsked
<1>5. ASSUME HasReplies(buf)
      PROVE  SubSeq(buf, 1, request.rx) = Replies
  <2>1. Len(buf) >= request.rx /\ \A i \in 1 .. request.rx : buf[i] = Reply(i)
    BY <1>5 DEF HasReplies
  <2>. QED  BY <1>1, <1>2, <2>1 DEF Replies
<1>6. ASSUME Len(irqbuf) = request.rx, HasReplies(irqbuf)
      PROVE  irqbuf = Replies
  <2>1. \A i \in 1 .. request.rx : irqbuf[i] = Reply(i)
    BY <1>6 DEF HasReplies
  <2>. QED  BY <1>1, <1>2, <1>6, <2>1 DEF Replies
<1>7. I2cDelivered
  BY <1>4, <1>5, <1>6 DEF I2cInv, I2cResults, I2cDelivered, Succeeded
<1>. QED  BY <1>3, <1>7 DEF I2cDone

(***************************************************************************)
(* The rest of the types: neither FIFO takes more than it holds, and no    *)
(* counter goes beyond what it counts.                                     *)
(***************************************************************************)
FlagTypes ==
  /\ txEmpty \in BOOLEAN /\ rxFull \in BOOLEAN /\ i2c_core \in {"idle", "busy", "stopping"}
  /\ status \in Statuses /\ tries \in 1 .. Tries
FifoTypes == Len(cmds) <= Depth /\ Len(rxf) <= Depth
CountTypes == sent \in 0 .. Total /\ i2c_got \in 0 .. Size + 1

LEMMA FlagsStep ==
  ASSUME FlagTypes, I2cNext \/ UNCHANGED i2cVars
  PROVE  FlagTypes'
<1>1. ASSUME UNCHANGED <<txEmpty, rxFull, tries>>, i2c_core' \in {i2c_core, "idle", "busy", "stopping"},
             status' \in Statuses
      PROVE  FlagTypes'
  BY <1>1 DEF FlagTypes
<1>2. status \in Statuses /\ {"SUCCESS", "TIMEOUT", "BAD_ARG", "NACK_ERR", "BUSY", "ARB_LOST_ERR"} \subseteq Statuses
      /\ tries \in 1 .. Tries
  BY DEF FlagTypes, Statuses
<1>3. CASE Core
  <2>1. UNCHANGED <<txEmpty, rxFull, tries, status>>
    BY <1>3 DEF Core, AckAddress, AckData, SendData, Nack, LoseArbitration, StopSent, Works, control, i2cDriver
  <2>2. i2c_core' \in {"idle", "busy", "stopping"}
    BY <1>3 DEF Core, AckAddress, AckData, SendData, Nack, LoseArbitration, StopSent, After
  <2>. QED  BY <1>1, <1>2, <2>1, <2>2
<1>4. CASE Begin
  <2>1. UNCHANGED <<txEmpty, rxFull, tries, i2c_core>> /\ status' \in {"SUCCESS", "BAD_ARG", "BUSY"}
    BY <1>4 DEF Begin, I2cGoto, i2cHardware
  <2>. QED  BY <1>1, <1>2, <2>1
<1>5. CASE CmdWrite
  <2>1. UNCHANGED <<txEmpty, rxFull, tries, i2c_core>> /\ status' \in {status, "TIMEOUT"}
    BY <1>5 DEF CmdWrite, I2cGoto, control
  <2>. QED  BY <1>1, <1>2, <2>1
<1>6. CASE Check
  <2>1. UNCHANGED <<txEmpty, rxFull, tries, i2c_core>> /\ status' \in {"SUCCESS", "NACK_ERR", "ARB_LOST_ERR"}
    BY <1>6 DEF Check, I2cGoto, control, Checked, CheckNack, CheckArbLost
  <2>. QED  BY <1>1, <1>2, <2>1
<1>7. CASE RxRead
  <2>1. UNCHANGED <<txEmpty, rxFull, tries, i2c_core>> /\ status' \in {status, "TIMEOUT"}
    BY <1>7 DEF RxRead, I2cGoto, control
  <2>. QED  BY <1>1, <1>2, <2>1
<1>8. CASE Finish
  <2>1. UNCHANGED <<txEmpty, rxFull, tries>> /\ i2c_core' = "idle" /\ status' \in {status, "TIMEOUT", "NACK_ERR"}
    BY <1>8 DEF Finish, I2cGoto, Disable, AtEnd, CheckNack
  <2>. QED  BY <1>1, <1>2, <2>1
<1>9. CASE Arm
  <2>1. UNCHANGED <<tries, i2c_core, status>>
    BY <1>9 DEF Arm, I2cGoto, i2cHardware
  <2>2. (txEmpty' = TRUE \/ txEmpty' = txEmpty) /\ (rxFull' = FALSE \/ rxFull' = rxFull)
    BY <1>9 DEF Arm, tfr_cmd_fifo_threshold_set, rx_fifo_threshold_set
  <2>3. txEmpty' \in BOOLEAN /\ rxFull' \in BOOLEAN
    BY <2>2, Zenon DEF FlagTypes
  <2>. QED  BY <2>1, <2>3 DEF FlagTypes
<1>10. CASE KeepBus \/ I2cReturn \/ ThenReceive
  <2>1. UNCHANGED <<txEmpty, rxFull, tries, i2c_core, status>>
    BY <1>10 DEF KeepBus, I2cReturn, ThenReceive, I2cGoto, i2cHardware, control
  <2>. QED  BY <1>1, <1>2, <2>1
<1>11. CASE Again
  <2>1. UNCHANGED <<txEmpty, rxFull, i2c_core, status>> /\ tries > 1 /\ tries' = tries - 1
    BY <1>11 DEF Again, i2cHardware, control
  <2>2. tries' \in 1 .. Tries
    BY <1>2, <2>1, I2cAssumption
  <2>. QED  BY <2>1, <2>2 DEF FlagTypes
<1>12. CASE StatusGet \/ StatusCheck \/ StatusBusy \/ Abort
  <2>1. UNCHANGED <<txEmpty, rxFull, tries>> /\ i2c_core' \in {i2c_core, "idle"}
    BY <1>12 DEF StatusGet, StatusCheck, StatusBusy, Abort, i2cHardware, control
  <2>2. status' \in {status, "SUCCESS", "NACK_ERR", "BUSY", "TIMEOUT"}
    BY <1>12 DEF StatusGet, StatusCheck, StatusBusy, Abort, CheckNack
  <2>. QED  BY <1>1, <1>2, <2>1, <2>2
<1>13. CASE IrqEnter \/ IrqReceive \/ IrqTransmit \/ IrqEnd
  <2>1. UNCHANGED <<txEmpty, rxFull, tries, status>> /\ i2c_core' \in {i2c_core, "idle"}
    BY <1>13 DEF IrqEnter, IrqReceive, IrqTransmit, IrqEnd, Disable, i2cHardware, control, i2cDriver
  <2>. QED  BY <1>1, <1>2, <2>1
<1>14. CASE RegisterCallback \/ Hang \/ UNCHANGED i2cVars
  <2>1. UNCHANGED <<txEmpty, rxFull, tries, status, i2c_core>>
    BY <1>14 DEF RegisterCallback, Hang, i2cVars, i2cHardware, control, i2cDriver
  <2>. QED  BY <1>1, <1>2, <2>1
<1>15. ASSUME NEW c \in I2cCalls, Start(c) PROVE FlagTypes'
  <2>1. UNCHANGED <<txEmpty, rxFull, i2c_core>> /\ status' = "SUCCESS" /\ tries' = Tries
    BY <1>15 DEF Start, i2cHardware, control
  <2>2. Tries \in 1 .. Tries
    BY I2cAssumption
  <2>. QED  BY <1>2, <2>1, <2>2 DEF FlagTypes
<1>. QED  BY <1>3, <1>4, <1>5, <1>6, <1>7, <1>8, <1>9, <1>10, <1>11, <1>12, <1>13, <1>14, <1>15 DEF I2cNext, I2cDriver

\* of the bytes received, those behind the first n
LEMMA RestIsShorter ==
  ASSUME NEW s \in Seq(Int), NEW n \in Nat
  PROVE  Len(SubSeq(s, n + 1, Len(s))) <= Len(s)
<1>1. Len(s) \in Nat
  BY LenProperties
<1>2. Len(SubSeq(s, n + 1, Len(s))) = IF n + 1 <= Len(s) THEN (Len(s) - (n + 1)) + 1 ELSE 0
  BY <1>1
<1>. QED  BY <1>1, <1>2

\* cmd_write waits for room, and the core counts what it has no room for
LEMMA FifosStep ==
  ASSUME I2cTypes, FifoTypes, I2cNext \/ UNCHANGED i2cVars
  PROVE  FifoTypes'
<1>1. cmds \in Seq(Commands) /\ rxf \in Seq(Int) /\ Len(cmds) \in Nat /\ Len(rxf) \in Nat /\ irq_left \in Nat
      /\ Len(cmds) <= Depth /\ Len(rxf) <= Depth /\ Depth \in Nat \ {0} /\ i2c_got \in Nat
  BY LenProperties, I2cAssumption DEF I2cTypes, FifoTypes
<1>2. ASSUME cmds' = cmds \/ cmds' = <<>>, rxf' = rxf \/ rxf' = <<>>
      PROVE  FifoTypes'
  <2>1. Len(<<>>) = 0
    OBVIOUS
  <2>. QED  BY <1>1, <1>2, <2>1 DEF FifoTypes
<1>3. ASSUME cmds' = cmds, NEW n \in Nat, rxf' = SubSeq(rxf, n + 1, Len(rxf))
      PROVE  FifoTypes'
  <2>1. Len(rxf') <= Len(rxf) /\ Len(rxf') \in Nat
    <3>1. Len(SubSeq(rxf, n + 1, Len(rxf))) \in Nat
      BY <1>1
    <3>. QED  BY <1>1, <1>3, <3>1, RestIsShorter
  <2>. QED  BY <1>1, <1>3, <2>1 DEF FifoTypes
<1>4. CASE CoreWorks
  <2>1. Len(cmds') <= Depth
    <3>1. cmds # <<>> /\ (cmds' = Tail(cmds) \/ cmds' = <<>>)
      BY <1>4 DEF CoreWorks, AckAddress, AckData, SendData, Nack, LoseArbitration, Works
    <3>2. Len(Tail(cmds)) = Len(cmds) - 1 /\ Len(<<>>) = 0
      BY <1>1, <3>1, TailCommands
    <3>. QED  BY <1>1, <3>1, <3>2
  <2>2. Len(rxf') <= Depth
    <3>1. rxf' = rxf \/ (Len(rxf) < Depth /\ rxf' = Append(rxf, Reply(replied + 1)))
      BY <1>4 DEF CoreWorks, AckAddress, AckData, SendData, Nack, LoseArbitration
    <3>2. Len(Append(rxf, Reply(replied + 1))) = Len(rxf) + 1
      BY <1>1
    <3>. QED  BY <1>1, <3>1, <3>2
  <2>. QED  BY <2>1, <2>2 DEF FifoTypes
<1>5. CASE CmdWrite
  <2>1. rxf' = rxf /\ (cmds' = cmds \/ (TxReady /\ cmds' = Append(cmds, Command(sent + 1))))
    BY <1>5 DEF CmdWrite
  <2>2. TxReady => Len(cmds) + 1 <= Depth
    BY <1>1 DEF TxReady
  <2>3. Len(Append(cmds, Command(sent + 1))) = Len(cmds) + 1
    BY <1>1
  <2>. QED  BY <1>1, <2>1, <2>2, <2>3 DEF FifoTypes
<1>6. CASE Check
  <2>1. cmds' = cmds /\ (rxf' = rxf \/ rxf' = SubSeq(rxf, Len(rxf) + 1, Len(rxf)))
    BY <1>6 DEF Check, Take
  <2>. QED  BY <1>1, <1>2, <1>3, <2>1
<1>7. CASE RxRead
  <2>1. cmds' = cmds /\ (rxf' = rxf \/ rxf' = SubSeq(rxf, 1 + 1, Len(rxf)))
    BY <1>7 DEF RxRead, Take
  <2>. QED  BY <1>2, <1>3, <2>1
<1>8. CASE IrqReceive
  <2>1. cmds' = cmds /\ rxf' = SubSeq(rxf, Min2(Len(rxf), irq_left) + 1, Len(rxf))
    BY <1>8 DEF IrqReceive
  <2>2. Min2(Len(rxf), irq_left) \in Nat
    BY <1>1 DEF Min2
  <2>. QED  BY <1>3, <2>1, <2>2
<1>9. CASE Finish \/ Abort \/ IrqEnd
  <2>1. cmds' = <<>> /\ (rxf' = rxf \/ rxf' = <<>>)
    BY <1>9 DEF Finish, Abort, IrqEnd, Disable
  <2>. QED  BY <1>2, <2>1
<1>10. CASE Begin \/ Arm \/ KeepBus \/ Again \/ ThenReceive \/ I2cReturn
  <2>1. UNCHANGED <<cmds, rxf>>
    BY <1>10 DEF Begin, Arm, KeepBus, Again, ThenReceive, I2cReturn, i2cHardware
  <2>. QED  BY <1>2, <2>1
<1>11. CASE StatusGet \/ StatusCheck \/ StatusBusy \/ IrqEnter \/ IrqTransmit \/ RegisterCallback
  <2>1. UNCHANGED <<cmds, rxf>>
    BY <1>11 DEF StatusGet, StatusCheck, StatusBusy, IrqEnter, IrqTransmit, RegisterCallback, i2cHardware
  <2>. QED  BY <1>2, <2>1
<1>12. ASSUME NEW c \in I2cCalls, Start(c) PROVE FifoTypes'
  <2>1. UNCHANGED <<cmds, rxf>>
    BY <1>12 DEF Start, i2cHardware
  <2>. QED  BY <1>2, <2>1
<1>13. CASE StopSent \/ Hang \/ UNCHANGED i2cVars
  <2>1. UNCHANGED <<cmds, rxf>>
    BY <1>13 DEF StopSent, Hang, i2cVars, i2cHardware
  <2>. QED  BY <1>2, <2>1
<1>. QED  BY <1>4, <1>5, <1>6, <1>7, <1>8, <1>9, <1>10, <1>11, <1>12, <1>13
          DEF I2cNext, I2cDriver, Core, CoreWorks

\* what a reception has, and what waits in the FIFO, is not more than was asked for
LEMMA ReceivedBound ==
  ASSUME I2cInv, InHand, status = "SUCCESS", CountTypes, phase = "receive"
  PROVE  i2c_got + Len(rxf) <= Size + 1
<1>1. /\ I2cTypes /\ sent \in 0 .. Total /\ Total \in Nat /\ Size \in Nat /\ Total = 1 + Size /\ Sequel = TxCommands
      /\ TxCommands \in Nat /\ i2c_got \in Nat /\ i2c_got <= Size + 1
      /\ (en /\ ~Flushing => \E k \in Nat : QueuedAt(k))
      /\ (~en \/ Flushing => rxf = <<>>)
  <2>1. I2cTypes
    BY DEF I2cInv
  <2>. QED  BY <2>1, InHandIs, Sizes DEF CountTypes
<1>2. CASE rxf = <<>>
  BY <1>1, <1>2, EmptySeq
<1>3. CASE rxf # <<>>
  <2>1. PICK k \in Nat : QueuedAt(k)
    BY <1>1, <1>3
  <2>2. k > TxCommands
    BY <1>1, <1>3, <2>1 DEF QueuedAt, Answered
  <2>3. Len(rxf) = ((k - TxCommands) - 1) - i2c_got
    BY <2>1, <2>2 DEF QueuedAt, Answered
  <2>4. k + Len(cmds) <= TxCommands + sent /\ Len(cmds) \in Nat
    <3>1. Len(cmds) \in Nat
      BY <1>1, LenProperties DEF I2cTypes
    <3>. QED  BY <1>1, <2>1, <3>1 DEF QueuedAt, WrittenTo
  <2>. QED  BY <1>1, <2>2, <2>3, <2>4
<1>. QED  BY <1>2, <1>3

LEMMA CountsStep ==
  ASSUME I2cInv, CountTypes, I2cTypes', I2cNext \/ UNCHANGED i2cVars
  PROVE  CountTypes'
<1>1. /\ I2cTypes /\ Total \in Nat /\ Size \in Nat /\ Total' \in Nat /\ Size' \in Nat
      /\ sent \in Nat /\ sent <= Total /\ i2c_got \in Nat /\ i2c_got <= Size + 1
  <2>1. I2cTypes
    BY DEF I2cInv
  <2>2. Total \in Nat /\ Size \in Nat
    BY <2>1, Sizes
  <2>3. Size' \in Nat
    BY DEF I2cTypes, Requests, Size
  <2>4. Total' \in Nat
    <3>1. Address' \in Nat
      BY DEF Address
    <3>2. Total' = Address' + Size'
      BY DEF Total
    <3>3. \A a, b \in Nat : a + b \in Nat
      OBVIOUS
    <3>. QED  BY <2>3, <3>1, <3>2, <3>3, Zenon
  <2>. QED  BY <2>1, <2>2, <2>3, <2>4 DEF CountTypes
<1>2. ASSUME sent' = 0, i2c_got' = 0
      PROVE  CountTypes'
  <2>1. sent' \in 0 .. Total'
    BY <1>1, <1>2
  <2>2. i2c_got' \in 0 .. Size' + 1
    <3>1. \A n \in Nat : 0 \in 0 .. n + 1
      OBVIOUS
    <3>. QED  BY <1>1, <1>2, <3>1, Zenon
  <2>. QED  BY <2>1, <2>2 DEF CountTypes
<1>3. ASSUME UNCHANGED <<request, phase, sent, i2c_got>>
      PROVE  CountTypes'
  BY <1>3, SameCall DEF CountTypes
<1>4. CASE Core
  <2>1. UNCHANGED <<request, phase, sent, i2c_got>>
    BY <1>4 DEF Core, AckAddress, AckData, SendData, Nack, LoseArbitration, StopSent, Works, i2cDriver
  <2>. QED  BY <1>3, <2>1
<1>5. CASE Begin \/ Again \/ ThenReceive
  <2>1. sent' = 0 /\ i2c_got' = 0
    BY <1>5 DEF Begin, Again, ThenReceive
  <2>. QED  BY <1>2, <2>1
<1>6. ASSUME NEW c \in I2cCalls, Start(c) PROVE CountTypes'
  <2>1. sent' = 0 /\ i2c_got' = 0
    BY <1>6 DEF Start
  <2>. QED  BY <1>2, <2>1
<1>7. CASE CmdWrite
  <2>1. sent' = sent + 1 /\ sent < Total /\ UNCHANGED <<request, phase, i2c_got>>
    BY <1>7 DEF CmdWrite, I2cAt, I2cGoto, I2cInv, I2cPlaces
  <2>2. UNCHANGED <<Total, Size>>
    BY <2>1, SameCall
  <2>. QED  BY <1>1, <2>1, <2>2 DEF CountTypes
<1>8. CASE Check
  <2>1. /\ i2c_pc = "check" /\ status = "SUCCESS" /\ UNCHANGED <<request, phase, sent>>
        /\ \/ phase = "receive" /\ i2c_got' = i2c_got + Len(rxf)
           \/ i2c_got' = i2c_got
    BY <1>8 DEF Check, I2cAt, I2cGoto, Drains, I2cInv, I2cPlaces
  <2>2. UNCHANGED <<Total, Size>> /\ Len(rxf) \in Nat
    BY <1>1, <2>1, SameCall, LenProperties DEF I2cTypes
  <2>3. phase = "receive" => i2c_got + Len(rxf) <= Size + 1
    BY <2>1, ReceivedBound DEF InHand
  <2>. QED  BY <1>1, <2>1, <2>2, <2>3 DEF CountTypes
<1>9. CASE RxRead
  <2>1. UNCHANGED <<request, phase, sent>> /\ (i2c_got' = i2c_got \/ (i2c_got < Size /\ i2c_got' = i2c_got + 1))
    BY <1>9 DEF RxRead, I2cGoto
  <2>2. UNCHANGED <<Total, Size>>
    BY <2>1, SameCall
  <2>. QED  BY <1>1, <2>1, <2>2 DEF CountTypes
<1>10. CASE Finish \/ Arm \/ KeepBus \/ I2cReturn \/ StatusGet
  <2>1. UNCHANGED <<request, phase, sent, i2c_got>>
    BY <1>10 DEF Finish, Arm, KeepBus, I2cReturn, I2cGoto, StatusGet
  <2>. QED  BY <1>3, <2>1
<1>11. CASE StatusCheck \/ StatusBusy \/ Abort
  <2>1. UNCHANGED <<request, phase, sent, i2c_got>>
    BY <1>11 DEF StatusCheck, StatusBusy, Abort
  <2>. QED  BY <1>3, <2>1
<1>12. CASE IrqEnter \/ IrqReceive \/ IrqTransmit \/ IrqEnd
  <2>1. UNCHANGED <<request, phase, sent, i2c_got>>
    BY <1>12 DEF IrqEnter, IrqReceive, IrqTransmit, IrqEnd, i2cDriver
  <2>. QED  BY <1>3, <2>1
<1>13. CASE RegisterCallback \/ Hang \/ UNCHANGED i2cVars
  <2>1. UNCHANGED <<request, phase, sent, i2c_got>>
    BY <1>13 DEF RegisterCallback, Hang, i2cVars, i2cDriver
  <2>. QED  BY <1>3, <2>1
<1>. QED  BY <1>4, <1>5, <1>6, <1>7, <1>8, <1>9, <1>10, <1>11, <1>12, <1>13 DEF I2cNext, I2cDriver

I2cWhole == I2cInv /\ FlagTypes /\ FifoTypes /\ CountTypes

LEMMA I2cWholeStarts == I2cInit => I2cWhole
<1>. SUFFICES ASSUME I2cInit PROVE I2cWhole
  OBVIOUS
<1>1. I2cInv
  BY I2cStart
<1>2. FlagTypes
  <2>1. txEmpty \in BOOLEAN /\ rxFull \in BOOLEAN
    BY Zenon DEF I2cInit
  <2>. QED  BY <2>1, I2cAssumption DEF I2cInit, FlagTypes, Statuses
<1>3. FifoTypes
  BY I2cAssumption, EmptySeq DEF I2cInit, FifoTypes
<1>4. CountTypes
  <2>1. Total \in Nat /\ Size \in Nat /\ sent = 0 /\ i2c_got = 0
    BY <1>1, Sizes DEF I2cInv, I2cInit
  <2>. QED  BY <2>1 DEF CountTypes
<1>. QED  BY <1>1, <1>2, <1>3, <1>4 DEF I2cWhole

LEMMA I2cWholeSteps == I2cWhole /\ [I2cNext]_i2cVars => I2cWhole'
<1>. SUFFICES ASSUME I2cWhole, I2cNext \/ UNCHANGED i2cVars PROVE I2cWhole'
  OBVIOUS
<1>1. I2cInv' /\ I2cTypes' /\ I2cTypes
  BY I2cStep DEF I2cWhole, I2cInv
<1>. QED  BY <1>1, FlagsStep, FifosStep, CountsStep DEF I2cWhole

LEMMA I2cWholeTypes == I2cWhole => I2cTypeOK
<1>1. I2cTypes => irq_left \in Nat
  BY DEF I2cTypes
<1>. QED  BY <1>1 DEF I2cWhole, I2cInv, I2cTypes, FlagTypes, FifoTypes, CountTypes, I2cTypeOK

(* Whatever the device refuses, however often a call is tried again and    *)
(* whenever an interrupt ends it: a call that returns with success has     *)
(* sent every byte in its order and has the answer, and the IP is left     *)
(* disabled and empty; no FIFO is over its depth, and no count over what   *)
(* was asked for (altera_avalon_i2c.c:614-967).                            *)
THEOREM I2cDoneTheorem == I2cSpec => [](I2cTypeOK /\ I2cDone)
<1>1. I2cWhole => I2cTypeOK /\ I2cDone
  BY I2cWholeTypes, I2cKeeps DEF I2cWhole
<1>. QED  BY I2cWholeStarts, I2cWholeSteps, <1>1, PTL DEF I2cSpec
=============================================================================
