---------------------------- MODULE SerialProofs ----------------------------
(***************************************************************************)
(* Proofs about the UART driver, log lines and the panic handler, for      *)
(* every SPIN_LIMIT, queue size and number of lines.                       *)
(*                                                                         *)
(* The inductive invariant SInv says how far init has brought the UART's   *)
(* registers (Prepared) and where the probe byte is (UartInv); that what   *)
(* has left the UART and what is queued are together what was sent         *)
(* (WireInv); which part of a line the bytes sent last are (TextInv); and  *)
(* where a panic's line has been (PanicInv).                               *)
(***************************************************************************)
EXTENDS Serial, TLAPS

Bytes == {"L", "P", "CR", "LF", PROBE}

\* s ends with these bytes.
Ends1(s, a) == Len(s) >= 1 /\ s[Len(s)] = a
Ends2(s, a, b) == Len(s) >= 2 /\ s[Len(s) - 1] = a /\ s[Len(s)] = b
Ends3(s, a, b, c) ==
  Len(s) >= 3 /\ s[Len(s) - 2] = a /\ s[Len(s) - 1] = b /\ s[Len(s)] = c

Probing == {"init", "probe", "probe_data", "loopback_off"}
Printing == {"serial", "poll", "out"}

UartType ==
  [dlab : BOOLEAN, loopback : BOOLEAN, divisor : [1..2 -> Nat], ier : Nat,
   tx : Seq(Bytes), rx : Seq(Bytes)]

STypeOK ==
  /\ device \in {"16550", "absent", "other"}
  /\ uart \in UartType
  /\ wire \in Seq(Bytes) /\ sent \in Seq(Bytes) /\ console \in Seq({"L", "P"})
  /\ READY \in BOOLEAN /\ PANICKING \in BOOLEAN /\ disturbed \in BOOLEAN
  /\ pc \in Probing \cup Printing \cup {"run", "console", "panic_console", "halted"}
  /\ step \in 1..9 /\ spins \in Nat

(* How far init has come, and what it has made of a 16550.                 *)
ProbeInv ==
  /\ pc = "init" => step \in 1..8
  /\ pc \in Probing => /\ result = "None" /\ ~READY /\ sent = <<>> /\ text = <<>>
                       /\ wire = <<>> /\ ~PANICKING
  /\ pc \notin Probing => \/ result = "Ok" /\ READY /\ device = "16550"
                          \/ result = "LoopbackFailed" /\ ~READY /\ sent = <<>>
  /\ pc = "init" \/ (pc = "probe") => received = "None"
  /\ device # "16550" => received # PROBE

(* A 16550's registers before init's k-th write (after the last, k = 9).   *)
Prepared(u, k) ==
  /\ u.tx = IF k = 9 THEN <<PROBE>> ELSE <<>>
  /\ u.dlab <=> k \in 3..5
  /\ u.loopback <=> k >= 8
  /\ k >= 2 => u.ier = 0
  /\ k >= 4 => u.divisor[1] = 1
  /\ k >= 5 => u.divisor[2] = 0

(* The registers of a 16550, and the probe byte's way through it.          *)
UartInv == device = "16550" =>
  /\ pc = "init" =>
       /\ Prepared(uart, step)
       /\ step >= 7 /\ ~disturbed => uart.rx = <<>>
  /\ pc # "init" => /\ ~uart.dlab /\ uart.ier = 0
                    /\ uart.divisor[1] = 1 /\ uart.divisor[2] = 0
                    /\ uart.loopback <=> pc \in {"probe", "probe_data", "loopback_off"}
  /\ pc = "probe" /\ ~disturbed => \/ uart.tx = <<PROBE>> /\ uart.rx = <<>>
                                   \/ uart.tx = <<>> /\ uart.rx = <<PROBE>>
  /\ pc = "probe_data" /\ ~disturbed => uart.tx = <<>> /\ uart.rx = <<PROBE>>
  /\ pc = "loopback_off" /\ ~disturbed => uart.tx = <<>> /\ received = PROBE
  /\ result = "LoopbackFailed" => disturbed

(* Bytes on their way out of a 16550 that keeps up.                        *)
WireInv == result = "Ok" /\ ~disturbed =>
  /\ wire \o uart.tx = sent
  /\ pc = "out" => uart.tx = <<>>
  /\ Len(uart.tx) <= 1

(* The line being printed: what is left of it, and what has been sent.     *)
TextInv ==
  LET c == IF PANICKING THEN "P" ELSE "L" IN
  /\ \/ text = <<c, "CR", "LF">>
     \/ text = <<"CR", "LF">> /\ (READY => Ends1(sent, c))
     \/ text = <<"LF">> /\ (READY => Ends2(sent, c, "CR"))
     \/ text = <<>> /\ (READY /\ pc \in {"serial", "panic_console"} => Ends3(sent, c, "CR", "LF"))
  /\ pc \in {"poll", "out"} => READY /\ text # <<>>
  /\ pc \in {"run", "panic_console"} => text = <<>>
  /\ pc = "console" => text = <<"L", "CR", "LF">>
  /\ ReturnsPaired(sent)

(* Where a panic's line has been.                                          *)
PanicInv ==
  /\ ~PANICKING => /\ ~Occurs("P", sent) /\ ~Occurs("P", console)
                   /\ pc \notin {"panic_console", "halted"}
  /\ PANICKING => /\ pc \in Printing \cup {"panic_console", "halted"}
                  /\ pc \in Printing => ~Occurs("P", console)
                  /\ text = <<"P", "CR", "LF">> => ~Occurs("P", sent)
  /\ AtMostOnce("P", sent) /\ AtMostOnce("P", console)
  /\ Occurs("P", console) /\ READY => Ends3(sent, "P", "CR", "LF")

SInv == STypeOK /\ ProbeInv /\ UartInv /\ WireInv /\ TextInv /\ PanicInv

-----------------------------------------------------------------------------
(* Writing a line-control byte opens or closes the divisor latch.          *)
LEMMA OutLineControl ==
  ASSUME NEW u \in UartType, NEW v
  PROVE  LET n == Outb(u, "LINE_CONTROL", v) IN
         /\ n \in UartType
         /\ n.dlab <=> v = "LINE_DLAB"
         /\ n.loopback = u.loopback /\ n.divisor = u.divisor /\ n.ier = u.ier
         /\ n.tx = u.tx /\ n.rx = u.rx
<1>1. Outb(u, "LINE_CONTROL", v) = [u EXCEPT !.dlab = (v = "LINE_DLAB")]
  BY DEF Outb
<1>2. PICK b \in BOOLEAN : b <=> v = "LINE_DLAB"
  BY Zenon
<1>3. (v = "LINE_DLAB") = b
  BY <1>2, Zenon
<1>4. Outb(u, "LINE_CONTROL", v) = [u EXCEPT !.dlab = b]
  BY <1>1, <1>3, Zenon
<1>5. LET n == [u EXCEPT !.dlab = b] IN
         /\ n \in UartType
         /\ n.dlab = b
         /\ n.loopback = u.loopback /\ n.divisor = u.divisor /\ n.ier = u.ier
         /\ n.tx = u.tx /\ n.rx = u.rx
  BY SMTT(30) DEF UartType
<1> QED
  BY <1>2, <1>4, <1>5, Zenon

(* A data byte with the latch open sets the speed's low half.              *)
LEMMA OutDivisorLow ==
  ASSUME NEW u \in UartType, u.dlab, NEW v \in Nat
  PROVE  LET n == Outb(u, "DATA", v) IN
         /\ n \in UartType
         /\ n.divisor[1] = v /\ n.divisor[2] = u.divisor[2]
         /\ n.dlab = u.dlab /\ n.loopback = u.loopback /\ n.ier = u.ier
         /\ n.tx = u.tx /\ n.rx = u.rx
<1>1. Outb(u, "DATA", v) = [u EXCEPT !.divisor[1] = v]
  BY DEF Outb
<1>2. PICK d : d = [u.divisor EXCEPT ![1] = v]
  BY Zenon
<1>3. d \in [1..2 -> Nat] /\ d[1] = v /\ d[2] = u.divisor[2]
  BY <1>2 DEF UartType
<1>4. Outb(u, "DATA", v) = [u EXCEPT !.divisor = d]
  BY <1>1, <1>2
<1> QED
  BY <1>3, <1>4, Zenon DEF UartType

(* An interrupt-enable byte with the latch open sets its high half.        *)
LEMMA OutDivisorHigh ==
  ASSUME NEW u \in UartType, u.dlab, NEW v \in Nat
  PROVE  LET n == Outb(u, "INTERRUPT_ENABLE", v) IN
         /\ n \in UartType
         /\ n.divisor[2] = v /\ n.divisor[1] = u.divisor[1]
         /\ n.dlab = u.dlab /\ n.loopback = u.loopback /\ n.ier = u.ier
         /\ n.tx = u.tx /\ n.rx = u.rx
<1>1. Outb(u, "INTERRUPT_ENABLE", v) = [u EXCEPT !.divisor[2] = v]
  BY DEF Outb
<1>2. PICK d : d = [u.divisor EXCEPT ![2] = v]
  BY Zenon
<1>3. d \in [1..2 -> Nat] /\ d[2] = v /\ d[1] = u.divisor[1]
  BY <1>2 DEF UartType
<1>4. Outb(u, "INTERRUPT_ENABLE", v) = [u EXCEPT !.divisor = d]
  BY <1>1, <1>2
<1> QED
  BY <1>3, <1>4, Zenon DEF UartType

(* With it closed, it sets which interrupts the UART raises.               *)
LEMMA OutInterrupts ==
  ASSUME NEW u \in UartType, ~u.dlab, NEW v \in Nat
  PROVE  LET n == Outb(u, "INTERRUPT_ENABLE", v) IN
         /\ n \in UartType
         /\ n.ier = v
         /\ n.dlab = u.dlab /\ n.loopback = u.loopback /\ n.divisor = u.divisor
         /\ n.tx = u.tx /\ n.rx = u.rx
<1>1. Outb(u, "INTERRUPT_ENABLE", v) = [u EXCEPT !.ier = v]
  BY DEF Outb
<1> QED
  BY <1>1 DEF UartType

(* A data byte is queued, if there is room.                                *)
LEMMA OutData ==
  ASSUME NEW u \in UartType, ~u.dlab, NEW v \in Bytes
  PROVE  LET n == Outb(u, "DATA", v) IN
         /\ n \in UartType
         /\ u.tx = <<>> => n.tx = <<v>>
         /\ n.dlab = u.dlab /\ n.loopback = u.loopback /\ n.divisor = u.divisor
         /\ n.ier = u.ier /\ n.rx = u.rx
<1>1. CASE Len(u.tx) < FIFO_SIZE
  <2>1. Outb(u, "DATA", v) = [u EXCEPT !.tx = Append(u.tx, v)]
    BY <1>1 DEF Outb
  <2>2. PICK t : t = Append(u.tx, v)
    BY Zenon
  <2>3. t \in Seq(Bytes)
    BY <2>2 DEF UartType
  <2>4. Append(<<>>, v) = <<v>>
    OBVIOUS
  <2> QED
    BY <2>1, <2>2, <2>3, <2>4, Zenon DEF UartType
<1>2. CASE ~(Len(u.tx) < FIFO_SIZE)
  <2>1. Outb(u, "DATA", v) = u
    BY <1>2 DEF Outb
  <2>2. u.tx # <<>>
    BY <1>2, OutputAssumption
  <2> QED
    BY <2>1, <2>2
<1> QED
  BY <1>1, <1>2

(* FIFO control empties both queues.                                       *)
LEMMA OutFifo ==
  ASSUME NEW u \in UartType, NEW v
  PROVE  LET n == Outb(u, "FIFO_CONTROL", v) IN
         /\ n \in UartType
         /\ n.tx = <<>> /\ n.rx = <<>>
         /\ n.dlab = u.dlab /\ n.loopback = u.loopback /\ n.divisor = u.divisor
         /\ n.ier = u.ier
<1>1. Outb(u, "FIFO_CONTROL", v) = [u EXCEPT !.tx = <<>>, !.rx = <<>>]
  BY DEF Outb
<1>2. <<>> \in Seq(Bytes)
  OBVIOUS
<1>3. PICK e : e = <<>>
  OBVIOUS
<1>4. Outb(u, "FIFO_CONTROL", v) = [[u EXCEPT !.tx = e] EXCEPT !.rx = e] /\ e \in Seq(Bytes)
  BY <1>1, <1>2, <1>3
<1> QED
  BY <1>3, <1>4, Zenon DEF UartType

(* Modem control turns loopback on or off.                                 *)
LEMMA OutModem ==
  ASSUME NEW u \in UartType, NEW v
  PROVE  LET n == Outb(u, "MODEM_CONTROL", v) IN
         /\ n \in UartType
         /\ n.loopback <=> v = "LOOPBACK"
         /\ n.dlab = u.dlab /\ n.divisor = u.divisor /\ n.ier = u.ier
         /\ n.tx = u.tx /\ n.rx = u.rx
<1>1. Outb(u, "MODEM_CONTROL", v) = [u EXCEPT !.loopback = (v = "LOOPBACK")]
  BY DEF Outb
<1>2. PICK b \in BOOLEAN : b <=> v = "LOOPBACK"
  BY Zenon
<1>3. (v = "LOOPBACK") = b
  BY <1>2, Zenon
<1>4. Outb(u, "MODEM_CONTROL", v) = [u EXCEPT !.loopback = b]
  BY <1>1, <1>3, Zenon
<1>5. LET n == [u EXCEPT !.loopback = b] IN
         /\ n \in UartType
         /\ n.loopback = b
         /\ n.dlab = u.dlab /\ n.divisor = u.divisor /\ n.ier = u.ier
         /\ n.tx = u.tx /\ n.rx = u.rx
  BY SMTT(30) DEF UartType
<1> QED
  BY <1>2, <1>4, <1>5, Zenon

(* Sequences of bytes: two are equal when they have the same elements.     *)
LEMMA SameBytes ==
  ASSUME NEW S, NEW s \in Seq(S), NEW t \in Seq(S),
         Len(s) = Len(t), \A i \in 1..Len(s) : s[i] = t[i]
  PROVE  s = t
OBVIOUS

(* Only the empty one has no length.                                       *)
LEMMA NoBytes ==
  ASSUME NEW S, NEW s \in Seq(S)
  PROVE  s = <<>> \/ Len(s) \in Nat \ {0}
OBVIOUS

(* Two sequences joined.                                                   *)
LEMMA Joined ==
  ASSUME NEW S, NEW s \in Seq(S), NEW t \in Seq(S)
  PROVE  /\ s \o t \in Seq(S) /\ Len(s \o t) = Len(s) + Len(t)
         /\ \A i \in 1..Len(s) + Len(t) :
              (s \o t)[i] = IF i <= Len(s) THEN s[i] ELSE t[i - Len(s)]
OBVIOUS

(* Nothing joined to a sequence, and one byte.                             *)
LEMMA JoinedToNone ==
  ASSUME NEW S, NEW s \in Seq(S)
  PROVE  s \o <<>> = s
OBVIOUS

LEMMA JoinedToOne ==
  ASSUME NEW S, NEW s \in Seq(S), NEW x \in S
  PROVE  s \o <<x>> = Append(s, x)
OBVIOUS

(* Taking the first byte of a queue.                                       *)
LEMMA Dequeue ==
  ASSUME NEW S, NEW s \in Seq(S), s # <<>>
  PROVE  Head(s) \in S /\ Tail(s) \in Seq(S) /\ Len(Tail(s)) = Len(s) - 1
OBVIOUS

(* Three bytes in two parts.                                               *)
LEMMA Parts ==
  ASSUME NEW S, NEW s \in Seq(S), NEW t \in Seq(S), NEW u \in Seq(S),
         Len(s) = 1, Len(t) = 2, Len(u) = 3, u[1] = s[1], u[2] = t[1], u[3] = t[2]
  PROVE  s \o t = u
<1>1. PICK w : w = s \o t
  BY Zenon
<1>2. /\ w \in Seq(S) /\ Len(w) = Len(s) + Len(t)
      /\ \A i \in 1..Len(s) + Len(t) : w[i] = IF i <= Len(s) THEN s[i] ELSE t[i - Len(s)]
  BY <1>1, Joined, Zenon
<1>3. w[1] = s[1] /\ w[2] = t[1] /\ w[3] = t[2]
  BY <1>2
<1>4. \A i \in 1..3 : w[i] = u[i]
  BY <1>3
<1>5. w = u
  BY <1>2, <1>4, SameBytes, SMTT(30)
<1> QED
  BY <1>1, <1>5

(* A line is its text and the carriage return and line feed.               *)
LEMMA Lines == Line("L") = <<"L", "CR", "LF">> /\ Line("P") = <<"P", "CR", "LF">>
<1>1. ASSUME NEW a, NEW b, NEW c PROVE <<a>> \o <<b, c>> = <<a, b, c>>
  <2>1. PICK S, s, t, u : S = {a, b, c} /\ s = <<a>> /\ t = <<b, c>> /\ u = <<a, b, c>>
    BY Zenon
  <2>2. s \in Seq(S) /\ t \in Seq(S) /\ u \in Seq(S)
    BY <2>1
  <2>3. /\ Len(s) = 1 /\ Len(t) = 2 /\ Len(u) = 3
        /\ u[1] = s[1] /\ u[2] = t[1] /\ u[3] = t[2]
    BY <2>1
  <2>4. s \o t = u
    BY <2>2, <2>3, Parts, SMTT(30)
  <2> QED
    BY <2>1, <2>4
<1>2. \A c : c # "LF" => Line(c) = <<c>> \o <<"CR", "LF">>
  BY DEF Line, write_str
<1>3. "L" # "LF" /\ "P" # "LF"
  OBVIOUS
<1> QED
  BY <1>1, <1>2, <1>3, Zenon

(* The bytes of a line, taken one by one.                                  *)
LEMMA Tails ==
  ASSUME NEW a, NEW b, NEW c
  PROVE  /\ Tail(<<a, b, c>>) = <<b, c>> /\ Tail(<<b, c>>) = <<c>> /\ Tail(<<c>>) = <<>>
         /\ Head(<<a, b, c>>) = a /\ Head(<<b, c>>) = b /\ Head(<<c>>) = c
OBVIOUS

(* One more element.                                                       *)
LEMMA Appended ==
  ASSUME NEW S, NEW s \in Seq(S), NEW x \in S
  PROVE  /\ Append(s, x) \in Seq(S)
         /\ \A c : Occurs(c, Append(s, x)) <=> Occurs(c, s) \/ c = x
         /\ \A c : AtMostOnce(c, s) /\ (Occurs(c, s) => c # x) => AtMostOnce(c, Append(s, x))
<1>1. /\ Append(s, x) \in Seq(S) /\ Len(Append(s, x)) = Len(s) + 1 /\ Len(s) \in Nat
      /\ DOMAIN s = 1..Len(s) /\ DOMAIN Append(s, x) = 1..(Len(s) + 1)
  OBVIOUS
<1>2. Append(s, x)[Len(s) + 1] = x /\ \A i \in 1..Len(s) : Append(s, x)[i] = s[i]
  OBVIOUS
<1>3. PICK t : t = Append(s, x)
  BY Zenon
<1>4. \A i \in DOMAIN t : i = Len(s) + 1 \/ i \in DOMAIN s
  BY <1>1, <1>3
<1>5. Len(s) + 1 \in DOMAIN t /\ t[Len(s) + 1] = x /\ \A i \in DOMAIN s : i \in DOMAIN t /\ t[i] = s[i]
  BY <1>1, <1>2, <1>3
<1>6. \A c : Occurs(c, t) <=> Occurs(c, s) \/ c = x
  BY <1>4, <1>5, Zenon DEF Occurs
<1>7. \A c : AtMostOnce(c, s) /\ (Occurs(c, s) => c # x) => AtMostOnce(c, t)
  BY <1>4, <1>5, Zenon DEF Occurs, AtMostOnce
<1> QED
  BY <1>1, <1>3, <1>6, <1>7, Zenon

(* Each of init's writes takes the UART from one stage to the next.        *)
LEMMA InitWrite ==
  ASSUME NEW u \in UartType, NEW k \in 1..8, Prepared(u, k)
  PROVE  LET n == Outb(u, InitWrites[k][1], InitWrites[k][2]) IN
         /\ n \in UartType /\ Prepared(n, k + 1)
         /\ n.rx = IF k = 6 THEN <<>> ELSE u.rx
<1> DEFINE n == Outb(u, InitWrites[k][1], InitWrites[k][2])
<1>0. divisor(115200) % 256 = 1 /\ divisor(115200) \div 256 = 0
  BY DEF divisor
<1>1. CASE k = 1
  <2>1. n = Outb(u, "INTERRUPT_ENABLE", 0)
    BY <1>0, <1>1, SMTT(30) DEF InitWrites
  <2>2. PICK m : m = Outb(u, "INTERRUPT_ENABLE", 0)
    OBVIOUS
  <2>3. ~u.dlab
    BY <1>1 DEF Prepared
  <2>4. /\ m \in UartType
        /\ m.ier = 0
        /\ m.dlab = u.dlab /\ m.loopback = u.loopback /\ m.divisor = u.divisor
        /\ m.tx = u.tx /\ m.rx = u.rx
    BY <2>2, <2>3, OutInterrupts
  <2>5. m \in UartType /\ Prepared(m, k + 1) /\ m.rx = IF k = 6 THEN <<>> ELSE u.rx
    BY <1>1, <2>4 DEF Prepared
  <2> QED
    BY <2>1, <2>2, <2>5, Zenon
<1>2. CASE k = 2
  <2>1. n = Outb(u, "LINE_CONTROL", "LINE_DLAB")
    BY <1>0, <1>2 DEF InitWrites
  <2>2. PICK m : m = Outb(u, "LINE_CONTROL", "LINE_DLAB")
    OBVIOUS
  <2>4. /\ m \in UartType
        /\ m.dlab <=> "LINE_DLAB" = "LINE_DLAB"
        /\ m.loopback = u.loopback /\ m.divisor = u.divisor /\ m.ier = u.ier
        /\ m.tx = u.tx /\ m.rx = u.rx
    BY <2>2, OutLineControl
  <2>5. m \in UartType /\ Prepared(m, k + 1) /\ m.rx = IF k = 6 THEN <<>> ELSE u.rx
    BY <1>2, <2>4 DEF Prepared
  <2> QED
    BY <2>1, <2>2, <2>5, Zenon
<1>3. CASE k = 3
  <2>1. n = Outb(u, "DATA", 1)
    BY <1>0, <1>3 DEF InitWrites
  <2>2. PICK m : m = Outb(u, "DATA", 1)
    OBVIOUS
  <2>3. u.dlab
    BY <1>3 DEF Prepared
  <2>4. /\ m \in UartType
        /\ m.divisor[1] = 1 /\ m.divisor[2] = u.divisor[2]
        /\ m.dlab = u.dlab /\ m.loopback = u.loopback /\ m.ier = u.ier
        /\ m.tx = u.tx /\ m.rx = u.rx
    BY <2>2, <2>3, OutDivisorLow, ZenonT(60)
  <2>5. m \in UartType /\ Prepared(m, k + 1) /\ m.rx = IF k = 6 THEN <<>> ELSE u.rx
    BY <1>3, <2>4 DEF Prepared
  <2> QED
    BY <2>1, <2>2, <2>5, Zenon
<1>4. CASE k = 4
  <2>1. n = Outb(u, "INTERRUPT_ENABLE", 0)
    BY <1>0, <1>4 DEF InitWrites
  <2>2. PICK m : m = Outb(u, "INTERRUPT_ENABLE", 0)
    OBVIOUS
  <2>3. u.dlab
    BY <1>4 DEF Prepared
  <2>4. /\ m \in UartType
        /\ m.divisor[2] = 0 /\ m.divisor[1] = u.divisor[1]
        /\ m.dlab = u.dlab /\ m.loopback = u.loopback /\ m.ier = u.ier
        /\ m.tx = u.tx /\ m.rx = u.rx
    BY <2>2, <2>3, OutDivisorHigh, ZenonT(60)
  <2>5. m \in UartType /\ Prepared(m, k + 1) /\ m.rx = IF k = 6 THEN <<>> ELSE u.rx
    BY <1>4, <2>4 DEF Prepared
  <2> QED
    BY <2>1, <2>2, <2>5, Zenon
<1>5. CASE k = 5
  <2>1. n = Outb(u, "LINE_CONTROL", "LINE_8N1")
    BY <1>0, <1>5 DEF InitWrites
  <2>2. PICK m : m = Outb(u, "LINE_CONTROL", "LINE_8N1")
    OBVIOUS
  <2>4. /\ m \in UartType
        /\ m.dlab <=> "LINE_8N1" = "LINE_DLAB"
        /\ m.loopback = u.loopback /\ m.divisor = u.divisor /\ m.ier = u.ier
        /\ m.tx = u.tx /\ m.rx = u.rx
    BY <2>2, OutLineControl
  <2>5. m \in UartType /\ Prepared(m, k + 1) /\ m.rx = IF k = 6 THEN <<>> ELSE u.rx
    BY <1>5, <2>4 DEF Prepared
  <2> QED
    BY <2>1, <2>2, <2>5, Zenon
<1>6. CASE k = 6
  <2>1. n = Outb(u, "FIFO_CONTROL", "ENABLE_AND_CLEAR")
    BY <1>0, <1>6 DEF InitWrites
  <2>2. PICK m : m = Outb(u, "FIFO_CONTROL", "ENABLE_AND_CLEAR")
    OBVIOUS
  <2>4. /\ m \in UartType
        /\ m.tx = <<>> /\ m.rx = <<>>
        /\ m.dlab = u.dlab /\ m.loopback = u.loopback /\ m.divisor = u.divisor
        /\ m.ier = u.ier
    BY <2>2, OutFifo
  <2>5. m \in UartType /\ Prepared(m, k + 1) /\ m.rx = IF k = 6 THEN <<>> ELSE u.rx
    BY <1>6, <2>4 DEF Prepared
  <2> QED
    BY <2>1, <2>2, <2>5, Zenon
<1>7. CASE k = 7
  <2>1. n = Outb(u, "MODEM_CONTROL", "LOOPBACK")
    BY <1>0, <1>7 DEF InitWrites
  <2>2. PICK m : m = Outb(u, "MODEM_CONTROL", "LOOPBACK")
    OBVIOUS
  <2>4. /\ m \in UartType
        /\ m.loopback <=> "LOOPBACK" = "LOOPBACK"
        /\ m.dlab = u.dlab /\ m.divisor = u.divisor /\ m.ier = u.ier
        /\ m.tx = u.tx /\ m.rx = u.rx
    BY <2>2, OutModem
  <2>5. m \in UartType /\ Prepared(m, k + 1) /\ m.rx = IF k = 6 THEN <<>> ELSE u.rx
    BY <1>7, <2>4 DEF Prepared
  <2> QED
    BY <2>1, <2>2, <2>5, Zenon
<1>8. CASE k = 8
  <2>1. n = Outb(u, "DATA", PROBE)
    BY <1>0, <1>8 DEF InitWrites
  <2>2. PICK m : m = Outb(u, "DATA", PROBE)
    OBVIOUS
  <2>3. ~u.dlab
    BY <1>8 DEF Prepared
  <2>4. /\ m \in UartType
        /\ u.tx = <<>> => m.tx = <<PROBE>>
        /\ m.dlab = u.dlab /\ m.loopback = u.loopback /\ m.divisor = u.divisor
        /\ m.ier = u.ier /\ m.rx = u.rx
    BY <2>2, <2>3, OutData DEF Bytes
  <2>5. m \in UartType /\ Prepared(m, k + 1) /\ m.rx = IF k = 6 THEN <<>> ELSE u.rx
    BY <1>8, <2>4 DEF Prepared
  <2> QED
    BY <2>1, <2>2, <2>5, Zenon
<1> QED
  BY <1>1, <1>2, <1>3, <1>4, <1>5, <1>6, <1>7, <1>8

(* What a byte does to the end of the bytes sent.                          *)
LEMMA EndsAppended ==
  ASSUME NEW S, NEW s \in Seq(S), NEW x \in S
  PROVE  /\ Ends1(Append(s, x), x)
         /\ \A a : Ends1(s, a) => Ends2(Append(s, x), a, x)
         /\ \A a, b : Ends2(s, a, b) => Ends3(Append(s, x), a, b, x)
<1>1. Len(Append(s, x)) = Len(s) + 1 /\ Len(s) \in Nat /\ Append(s, x)[Len(s) + 1] = x
  OBVIOUS
<1>2. \A i \in 1..Len(s) : Append(s, x)[i] = s[i]
  OBVIOUS
<1>3. PICK t : t = Append(s, x)
  BY Zenon
<1>4. Len(t) = Len(s) + 1 /\ t[Len(s) + 1] = x /\ \A i \in 1..Len(s) : t[i] = s[i]
  BY <1>1, <1>2, <1>3
<1> QED
  BY <1>1, <1>3, <1>4 DEF Ends1, Ends2, Ends3

(* A carriage return before every line feed, for one more byte.            *)
LEMMA ReturnsAppended ==
  ASSUME NEW S, NEW s \in Seq(S), NEW x \in S, ReturnsPaired(s), x = "LF" => Ends1(s, "CR")
  PROVE  ReturnsPaired(Append(s, x))
<1>1. Len(Append(s, x)) = Len(s) + 1 /\ Len(s) \in Nat /\ Append(s, x)[Len(s) + 1] = x
  OBVIOUS
<1>2. \A i \in 1..Len(s) : Append(s, x)[i] = s[i]
  OBVIOUS
<1>3. DOMAIN s = 1..Len(s) /\ DOMAIN Append(s, x) = 1..(Len(s) + 1)
  OBVIOUS
<1>4. PICK t : t = Append(s, x)
  BY Zenon
<1>5. /\ Len(t) = Len(s) + 1 /\ t[Len(s) + 1] = x /\ \A i \in 1..Len(s) : t[i] = s[i]
      /\ DOMAIN t = 1..(Len(s) + 1)
  BY <1>1, <1>2, <1>3, <1>4
<1>6. ReturnsPaired(t)
  BY <1>1, <1>3, <1>5 DEF ReturnsPaired, Ends1
<1> QED
  BY <1>4, <1>6

(* log_line keeps the invariant. *)
LEMMA Keeps_log_line == SInv /\ log_line => SInv'
<1> SUFFICES ASSUME SInv, log_line PROVE SInv'
  OBVIOUS
<1> USE DEF hardware, probing, output, Probing, Printing
<1>1. STypeOK'
  <2>1. Append(console, "L") \in Seq({"L", "P"})
    BY DEF SInv, STypeOK
  <2> QED
    BY <2>1, Zenon DEF SInv, STypeOK, log_line, CallConsole, console_allowed
<1>2. ProbeInv'
  BY SMTT(30) DEF SInv, STypeOK, ProbeInv, TextInv, PanicInv, log_line, CallConsole, console_allowed
<1>3. UartInv'
  BY SMTT(30) DEF SInv, STypeOK, ProbeInv, UartInv, log_line, CallConsole, console_allowed
<1>4. WireInv'
  BY SMTT(30) DEF SInv, STypeOK, ProbeInv, UartInv, WireInv, log_line, CallConsole, console_allowed
<1>5. TextInv'
  BY Lines, SMTT(30) DEF SInv, STypeOK, ProbeInv, TextInv, PanicInv, log_line, CallConsole, console_allowed
<1>6. PanicInv'
  <2>1. \A c : Occurs(c, Append(console, "L")) <=> Occurs(c, console) \/ c = "L"
    BY Appended DEF SInv, STypeOK
  <2>2. PANICKING = FALSE /\ ~Occurs("P", sent) /\ ~Occurs("P", console)
    BY DEF SInv, PanicInv, STypeOK, log_line
  <2>3. console' = console \/ console' = Append(console, "L")
    BY DEF log_line, CallConsole
  <2>4. ~Occurs("P", console')
    BY <2>1, <2>2, <2>3, Zenon
  <2>5. AtMostOnce("P", console')
    BY <2>4 DEF Occurs, AtMostOnce
  <2> QED
    BY <2>2, <2>4, <2>5 DEF SInv, STypeOK, PanicInv, log_line
<1> QED
  BY <1>1, <1>2, <1>3, <1>4, <1>5, <1>6, Zenon DEF SInv

(* serial_println keeps the invariant. *)
LEMMA Keeps_serial_println == SInv /\ serial_println => SInv'
<1> SUFFICES ASSUME SInv, serial_println PROVE SInv'
  OBVIOUS
<1> USE DEF hardware, probing, output, Probing, Printing
<1>1. STypeOK'
  BY Lines DEF SInv, STypeOK, serial_println
<1>2. ProbeInv'
  BY DEF SInv, STypeOK, ProbeInv, TextInv, PanicInv, serial_println
<1>3. UartInv'
  BY DEF SInv, STypeOK, ProbeInv, UartInv, serial_println
<1>4. WireInv'
  BY SMTT(30) DEF SInv, STypeOK, ProbeInv, UartInv, WireInv, serial_println
<1>5. TextInv'
  BY Lines, SMTT(30) DEF SInv, STypeOK, ProbeInv, TextInv, PanicInv, serial_println
<1>6. PanicInv'
  BY Lines, SMTT(30) DEF SInv, STypeOK, ProbeInv, TextInv, PanicInv, serial_println
<1> QED
  BY <1>1, <1>2, <1>3, <1>4, <1>5, <1>6, Zenon DEF SInv

(* ConsoleReturns keeps the invariant. *)
LEMMA Keeps_ConsoleReturns == SInv /\ ConsoleReturns => SInv'
<1> SUFFICES ASSUME SInv, ConsoleReturns PROVE SInv'
  OBVIOUS
<1> USE DEF hardware, probing, output, Probing, Printing
<1>1. STypeOK'
  BY Lines DEF SInv, STypeOK, ConsoleReturns
<1>2. ProbeInv'
  BY SMTT(30) DEF SInv, STypeOK, ProbeInv, TextInv, PanicInv, ConsoleReturns
<1>3. UartInv'
  BY SMTT(30) DEF SInv, STypeOK, ProbeInv, UartInv, ConsoleReturns
<1>4. WireInv'
  BY SMTT(30) DEF SInv, STypeOK, ProbeInv, UartInv, WireInv, ConsoleReturns
<1>5. TextInv'
  BY Lines, SMTT(30) DEF SInv, STypeOK, ProbeInv, TextInv, PanicInv, ConsoleReturns
<1>6. PanicInv'
  BY Lines, SMTT(30) DEF SInv, STypeOK, ProbeInv, TextInv, PanicInv, ConsoleReturns
<1> QED
  BY <1>1, <1>2, <1>3, <1>4, <1>5, <1>6, Zenon DEF SInv

(* write_byte keeps the invariant. *)
LEMMA Keeps_write_byte == SInv /\ write_byte => SInv'
<1> SUFFICES ASSUME SInv, write_byte PROVE SInv'
  OBVIOUS
<1> USE DEF hardware, probing, output, Probing, Printing
<1>1. STypeOK'
  BY Lines DEF SInv, STypeOK, write_byte
<1>2. ProbeInv'
  BY SMTT(30) DEF SInv, STypeOK, ProbeInv, TextInv, PanicInv, write_byte
<1>3. UartInv'
  BY SMTT(30) DEF SInv, STypeOK, ProbeInv, UartInv, write_byte
<1>4. WireInv'
  BY SMTT(30) DEF SInv, STypeOK, ProbeInv, UartInv, WireInv, write_byte
<1>5. TextInv'
  <2>1. CASE READY
    BY <2>1, SMTT(30) DEF SInv, STypeOK, ProbeInv, TextInv, PanicInv, write_byte
  <2>2. CASE ~READY
    <3>1. text' = Tail(text) /\ pc' = pc /\ PANICKING' = PANICKING /\ READY' = READY /\ sent' = sent
      BY <2>2 DEF write_byte
    <3>2. PICK c : c = IF PANICKING THEN "P" ELSE "L"
      OBVIOUS
    <3>3. text = <<c, "CR", "LF">> \/ text = <<"CR", "LF">> \/ text = <<"LF">>
      BY <3>2 DEF SInv, TextInv, write_byte
    <3>4. text' = <<"CR", "LF">> \/ text' = <<"LF">> \/ text' = <<>>
      <4>1. /\ Tail(<<c, "CR", "LF">>) = <<"CR", "LF">>
            /\ Tail(<<"CR", "LF">>) = <<"LF">>
            /\ Tail(<<"LF">>) = <<>>
        BY Tails
      <4> QED
        BY <3>1, <3>3, <4>1, Zenon
    <3> QED
      BY <2>2, <3>1, <3>4 DEF SInv, TextInv, write_byte
  <2> QED
    BY <2>1, <2>2
<1>6. PanicInv'
  <2>1. CASE READY
    BY <2>1 DEF SInv, STypeOK, PanicInv, write_byte
  <2>2. CASE ~READY
    <3>1. /\ pc' = pc /\ PANICKING' = PANICKING /\ READY' = READY /\ sent' = sent
          /\ console' = console
      BY <2>2 DEF write_byte
    <3>2. sent = <<>>
      BY <2>2 DEF SInv, ProbeInv, write_byte
    <3>3. ~Occurs("P", sent)
      BY <3>2 DEF Occurs
    <3> QED
      BY <3>1, <3>3, Zenon DEF SInv, PanicInv
  <2> QED
    BY <2>1, <2>2
<1> QED
  BY <1>1, <1>2, <1>3, <1>4, <1>5, <1>6, Zenon DEF SInv

(* write_poll keeps the invariant. *)
LEMMA Keeps_write_poll == SInv /\ write_poll => SInv'
<1> SUFFICES ASSUME SInv, write_poll PROVE SInv'
  OBVIOUS
<1> USE DEF hardware, probing, output, Probing, Printing
<1>1. STypeOK'
  <2>1. disturbed' \in BOOLEAN
    BY Zenon DEF SInv, STypeOK, write_poll
  <2> QED
    BY <2>1 DEF SInv, STypeOK, write_poll
<1>2. ProbeInv'
  BY SMTT(30) DEF SInv, STypeOK, ProbeInv, TextInv, PanicInv, write_poll, TransmitEmpty
<1>3. UartInv'
  BY SMTT(30) DEF SInv, STypeOK, ProbeInv, UartInv, write_poll, TransmitEmpty
<1>4. WireInv'
  BY Zenon DEF SInv, STypeOK, ProbeInv, UartInv, WireInv, write_poll, TransmitEmpty
<1>5. TextInv'
  BY Lines, SMTT(30) DEF SInv, STypeOK, ProbeInv, TextInv, PanicInv, write_poll, TransmitEmpty
<1>6. PanicInv'
  BY Lines, SMTT(30) DEF SInv, STypeOK, ProbeInv, TextInv, PanicInv, write_poll, TransmitEmpty
<1> QED
  BY <1>1, <1>2, <1>3, <1>4, <1>5, <1>6, Zenon DEF SInv

(* line_done keeps the invariant. *)
LEMMA Keeps_line_done == SInv /\ line_done => SInv'
<1> SUFFICES ASSUME SInv, line_done PROVE SInv'
  OBVIOUS
<1> USE DEF hardware, probing, output, Probing, Printing
<1>1. STypeOK'
  <2>1. Append(console, "P") \in Seq({"L", "P"})
    BY DEF SInv, STypeOK
  <2> QED
    BY <2>1, Zenon DEF SInv, STypeOK, line_done, CallConsole, console_allowed
<1>2. ProbeInv'
  BY SMTT(30) DEF SInv, STypeOK, ProbeInv, TextInv, PanicInv, line_done, CallConsole, console_allowed
<1>3. UartInv'
  BY SMTT(30) DEF SInv, STypeOK, ProbeInv, UartInv, line_done, CallConsole, console_allowed
<1>4. WireInv'
  BY SMTT(30) DEF SInv, STypeOK, ProbeInv, UartInv, WireInv, line_done, CallConsole, console_allowed
<1>5. TextInv'
  BY Lines, SMTT(30) DEF SInv, STypeOK, ProbeInv, TextInv, PanicInv, line_done, CallConsole, console_allowed
<1>6. PanicInv'
  <2>1. CASE console' = console
    BY <2>1, SMTT(30) DEF SInv, STypeOK, TextInv, PanicInv, line_done, CallConsole
  <2>2. CASE PANICKING /\ console' = Append(console, "P") /\ pc' = "panic_console"
    <3>1. ~Occurs("P", console) /\ AtMostOnce("P", console)
      BY <2>2 DEF SInv, PanicInv, line_done
    <3>2. AtMostOnce("P", console')
      BY <2>2, <3>1, Appended, SMTT(30) DEF SInv, STypeOK
    <3>3. READY => Ends3(sent, "P", "CR", "LF")
      BY <2>2 DEF SInv, TextInv, line_done
    <3>4. PANICKING' = PANICKING /\ sent' = sent /\ READY' = READY /\ text' = text
      BY DEF line_done
    <3> QED
      BY <2>2, <3>2, <3>3, <3>4 DEF SInv, PanicInv
  <2> QED
    BY <2>1, <2>2 DEF line_done, CallConsole
<1> QED
  BY <1>1, <1>2, <1>3, <1>4, <1>5, <1>6, Zenon DEF SInv

(* panic keeps the invariant. *)
LEMMA Keeps_panic == SInv /\ panic => SInv'
<1> SUFFICES ASSUME SInv, panic PROVE SInv'
  OBVIOUS
<1> USE DEF hardware, probing, output, Probing, Printing
<1>1. STypeOK'
  BY Lines DEF SInv, STypeOK, panic, CanPanic
<1>2. ProbeInv'
  BY SMTT(30) DEF SInv, STypeOK, ProbeInv, TextInv, PanicInv, panic, CanPanic
<1>3. UartInv'
  BY SMTT(30) DEF SInv, STypeOK, ProbeInv, UartInv, panic, CanPanic
<1>4. WireInv'
  BY SMTT(30) DEF SInv, STypeOK, ProbeInv, UartInv, WireInv, panic, CanPanic
<1>5. TextInv'
  BY Lines, SMTT(30) DEF SInv, STypeOK, ProbeInv, TextInv, PanicInv, panic, CanPanic
<1>6. PanicInv'
  BY Lines, SMTT(30) DEF SInv, STypeOK, ProbeInv, TextInv, PanicInv, panic, CanPanic
<1> QED
  BY <1>1, <1>2, <1>3, <1>4, <1>5, <1>6, Zenon DEF SInv
(* init's writes keep SInv.                                                *)
LEMMA Keeps_init_write ==
  ASSUME SInv, init_write
  PROVE  SInv'
<1>0. /\ pc = "init" /\ step' = step + 1 /\ step \in 1..8 /\ pc' = IF step = 8 THEN "probe" ELSE "init"
      /\ UNCHANGED <<device, wire, READY, PHASE, PANICKING, text, console, lines, spins, received,
                     result, sent, disturbed>>
  BY DEF SInv, ProbeInv, init_write, output, InitWrites
<1>a. device # "16550" => uart' = uart
  BY DEF init_write
<1>b. ASSUME device = "16550"
      PROVE  /\ uart' \in UartType /\ Prepared(uart', step + 1)
             /\ uart'.rx = IF step = 6 THEN <<>> ELSE uart.rx
  <2>1. uart \in UartType /\ Prepared(uart, step)
    BY <1>0, <1>b, SMTT(30) DEF SInv, STypeOK, UartInv
  <2>2. PICK n : n = Outb(uart, InitWrites[step][1], InitWrites[step][2])
    OBVIOUS
  <2>3. uart' = n
    BY <1>b, <2>2, SMTT(30) DEF init_write
  <2>4. n \in UartType /\ Prepared(n, step + 1) /\ n.rx = IF step = 6 THEN <<>> ELSE uart.rx
    BY <1>0, <2>1, <2>2, InitWrite, SMTT(30)
  <2> QED
    BY <2>3, <2>4, Zenon
<1>1. STypeOK'
  BY <1>0, <1>a, <1>b, SMTT(30) DEF SInv, STypeOK, Probing, Printing
<1>2. ProbeInv'
  BY <1>0 DEF SInv, ProbeInv, Probing
<1>3. UartInv'
  <2>0. PICK n : n = uart'
    OBVIOUS
  <2>1. SUFFICES ASSUME device = "16550" PROVE UartInv'
    BY <1>0, SMTT(30) DEF UartInv
  <2>2. result = "None"
    BY <1>0 DEF SInv, ProbeInv, Probing
  <2>3. Prepared(n, step') /\ n.rx = IF step = 6 THEN <<>> ELSE uart.rx
    BY <1>0, <1>b, <2>0, <2>1, Zenon
  <2>4. CASE step # 8
    BY <1>0, <2>0, <2>2, <2>3, <2>4, SMTT(30) DEF SInv, UartInv
  <2>5. CASE step = 8
    BY <1>0, <2>0, <2>1, <2>2, <2>3, <2>5, SMTT(30) DEF SInv, UartInv, Prepared
  <2> QED
    BY <2>4, <2>5
<1>4. WireInv'
  BY <1>0 DEF SInv, ProbeInv, WireInv, Probing
<1>5. TextInv'
  BY <1>0, SMTT(30) DEF SInv, TextInv, ProbeInv, Probing
<1>6. PanicInv'
  <2>1. ~PANICKING
    BY <1>0 DEF SInv, ProbeInv, Probing
  <2> QED
    BY <1>0, <2>1 DEF SInv, PanicInv
<1> QED
  BY <1>1, <1>2, <1>3, <1>4, <1>5, <1>6 DEF SInv

(* init's polling for the probe byte keeps SInv.                           *)
LEMMA Keeps_init_poll ==
  ASSUME SInv, init_poll
  PROVE  SInv'
<1>0. /\ pc = "probe" /\ pc' \in {"probe", "probe_data", "loopback_off"}
      /\ UNCHANGED <<device, uart, wire, READY, PHASE, PANICKING, text, console, lines, step,
                     received, result, sent>>
  BY DEF init_poll, hardware, output
<1>a. /\ result = "None" /\ ~READY /\ sent = <<>> /\ text = <<>> /\ wire = <<>> /\ ~PANICKING
  BY <1>0 DEF SInv, ProbeInv, Probing
<1>1. STypeOK'
  <2>1. disturbed' \in BOOLEAN
    BY Zenon DEF SInv, STypeOK, init_poll
  <2>2. spins' \in Nat
    BY DEF SInv, STypeOK, init_poll
  <2> QED
    BY <1>0, <2>1, <2>2 DEF SInv, STypeOK, Probing, Printing
<1>2. ProbeInv'
  BY <1>0, <1>a DEF SInv, ProbeInv, Probing
<1>3. UartInv'
  <2>1. SUFFICES ASSUME device = "16550" PROVE UartInv'
    BY <1>0, SMTT(30) DEF UartInv
  <2>2. /\ ~uart.dlab /\ uart.ier = 0 /\ uart.divisor[1] = 1 /\ uart.divisor[2] = 0
        /\ uart.loopback
    BY <1>0, <2>1, SMTT(30) DEF SInv, UartInv
  <2>3. ASSUME ~disturbed'
        PROVE  /\ pc' = "probe" => \/ uart.tx = <<PROBE>> /\ uart.rx = <<>>
                                   \/ uart.tx = <<>> /\ uart.rx = <<PROBE>>
               /\ pc' = "probe_data" => uart.tx = <<>> /\ uart.rx = <<PROBE>>
               /\ pc' # "loopback_off"
    <3>1. ~disturbed
      BY <2>3, Zenon DEF init_poll
    <3>2. \/ uart.tx = <<PROBE>> /\ uart.rx = <<>>
          \/ uart.tx = <<>> /\ uart.rx = <<PROBE>>
      BY <1>0, <2>1, <3>1, SMTT(30) DEF SInv, UartInv
    <3>3. CASE DataReady
      <4>1. uart.tx = <<>> /\ uart.rx = <<PROBE>>
        BY <2>1, <3>2, <3>3 DEF DataReady
      <4>2. pc' = "probe_data"
        BY <3>3, Zenon DEF init_poll
      <4> QED
        BY <4>1, <4>2
    <3>4. CASE ~DataReady
      <4>1. pc' = "probe"
        BY <1>0, <2>3, <3>4, Zenon DEF init_poll
      <4> QED
        BY <3>2, <4>1
    <3> QED
      BY <3>3, <3>4, SMTT(30)
  <2> QED
    BY <1>0, <1>a, <2>2, <2>3, SMTT(30) DEF UartInv
<1>4. WireInv'
  BY <1>0, <1>a DEF WireInv
<1>5. TextInv'
  BY <1>0, <1>a, SMTT(30) DEF SInv, TextInv
<1>6. PanicInv'
  BY <1>0, <1>a DEF SInv, PanicInv
<1> QED
  BY <1>1, <1>2, <1>3, <1>4, <1>5, <1>6 DEF SInv

(* init's reading of the data register keeps SInv.                         *)
LEMMA Keeps_init_read ==
  ASSUME SInv, init_read
  PROVE  SInv'
<1>0. /\ pc = "probe_data" /\ pc' = "loopback_off" /\ received' \in Inb
      /\ UNCHANGED <<device, wire, READY, PHASE, PANICKING, text, console, lines, step, spins,
                     result, sent, disturbed>>
  BY DEF init_read, output
<1>a. /\ result = "None" /\ ~READY /\ sent = <<>> /\ text = <<>> /\ wire = <<>> /\ ~PANICKING
  BY <1>0 DEF SInv, ProbeInv, Probing
<1>b. PICK t, n : t = Tail(uart.rx) /\ n = uart'
  BY Zenon
<1>d. uart.rx # <<>> => t \in Seq(Bytes)
  BY <1>b, Dequeue DEF SInv, STypeOK, UartType
<1>e. /\ n \in UartType
      /\ n.dlab = uart.dlab /\ n.loopback = uart.loopback /\ n.divisor = uart.divisor
      /\ n.ier = uart.ier /\ n.tx = uart.tx
  <2>1. n = uart \/ (n = [uart EXCEPT !.rx = t] /\ uart.rx # <<>>)
    BY <1>b DEF init_read
  <2> QED
    BY <1>d, <2>1 DEF SInv, STypeOK, UartType
<1>1. STypeOK'
  BY <1>0, <1>b, <1>e DEF SInv, STypeOK, Probing, Printing
<1>2. ProbeInv'
  <2>1. device # "16550" => received' # PROBE
    BY <1>0, SMTT(30) DEF SInv, STypeOK, Inb, PROBE
  <2> QED
    BY <1>0, <1>a, <2>1 DEF ProbeInv, Probing
<1>3. UartInv'
  <2>1. SUFFICES ASSUME device = "16550" PROVE UartInv'
    BY <1>0, SMTT(30) DEF UartInv
  <2>2. /\ ~n.dlab /\ n.ier = 0 /\ n.divisor[1] = 1 /\ n.divisor[2] = 0 /\ n.loopback
    BY <1>0, <1>e, <2>1, SMTT(30) DEF SInv, UartInv
  <2>3. ASSUME ~disturbed PROVE n.tx = <<>> /\ received' = PROBE
    <3>1. uart.tx = <<>> /\ uart.rx = <<PROBE>>
      BY <1>0, <2>1, <2>3, SMTT(30) DEF SInv, UartInv
    <3>2. Head(<<PROBE>>) = PROBE /\ <<PROBE>> # <<>>
      OBVIOUS
    <3>3. received' \in {PROBE}
      BY <1>0, <2>1, <3>1, <3>2 DEF Inb
    <3> QED
      BY <1>e, <3>1, <3>3, SMTT(30)
  <2> QED
    BY <1>0, <1>a, <1>b, <2>2, <2>3, SMTT(30) DEF UartInv
<1>4. WireInv'
  BY <1>0, <1>a DEF WireInv
<1>5. TextInv'
  BY <1>0, <1>a, SMTT(30) DEF SInv, TextInv
<1>6. PanicInv'
  BY <1>0, <1>a DEF SInv, PanicInv
<1> QED
  BY <1>1, <1>2, <1>3, <1>4, <1>5, <1>6 DEF SInv

(* init's last write, and its verdict, keep SInv.                          *)
LEMMA Keeps_init_end ==
  ASSUME SInv, init_end
  PROVE  SInv'
<1>0. /\ pc = "loopback_off" /\ pc' = "run"
      /\ UNCHANGED <<device, wire, PHASE, PANICKING, text, console, lines, step, spins, received,
                     sent, disturbed>>
  BY DEF init_end, output
<1>a. /\ ~READY /\ sent = <<>> /\ text = <<>> /\ wire = <<>> /\ ~PANICKING
      /\ device # "16550" => received # PROBE
  BY <1>0 DEF SInv, ProbeInv, Probing
<1>b. PICK n : n = uart'
  OBVIOUS
<1>d. device # "16550" => n = uart
  BY <1>b DEF init_end
<1>e. device = "16550" =>
      /\ n \in UartType /\ ~n.loopback
      /\ n.dlab = uart.dlab /\ n.divisor = uart.divisor /\ n.ier = uart.ier
      /\ n.tx = uart.tx /\ n.rx = uart.rx
  BY <1>b, OutModem DEF SInv, STypeOK, init_end
<1>f. \/ received = PROBE /\ READY' = TRUE /\ result' = "Ok" /\ device = "16550"
      \/ received # PROBE /\ READY' = FALSE /\ result' = "LoopbackFailed"
  <2>1. READY' = (received = PROBE) /\ result' = IF received = PROBE THEN "Ok" ELSE "LoopbackFailed"
    BY DEF init_end
  <2>2. received = PROBE => device = "16550"
    BY <1>a
  <2> QED
    BY <2>1, <2>2, Zenon
<1>1. STypeOK'
  BY <1>0, <1>b, <1>d, <1>e, <1>f, Zenon DEF SInv, STypeOK, Probing, Printing
<1>2. ProbeInv'
  BY <1>0, <1>a, <1>f, SMTT(30) DEF ProbeInv, Probing
<1>3. UartInv'
  BY <1>0, <1>b, <1>e, <1>f, SMTT(30) DEF SInv, UartInv
<1>4. WireInv'
  <2>1. SUFFICES ASSUME result' = "Ok", ~disturbed PROVE WireInv'
    BY <1>0 DEF WireInv
  <2>2. n.tx = <<>>
    BY <1>0, <1>e, <1>f, <2>1, SMTT(30) DEF SInv, UartInv
  <2>3. <<>> \o <<>> = <<>> /\ Len(<<>>) <= 1
    OBVIOUS
  <2> QED
    BY <1>0, <1>a, <1>b, <2>2, <2>3 DEF WireInv
<1>5. TextInv'
  BY <1>0, <1>a, SMTT(30) DEF SInv, TextInv
<1>6. PanicInv'
  <2>1. ~Occurs("P", console)
    BY <1>a DEF SInv, PanicInv
  <2> QED
    BY <1>0, <1>a, <2>1 DEF SInv, PanicInv
<1> QED
  BY <1>1, <1>2, <1>3, <1>4, <1>5, <1>6 DEF SInv

(* Sending a byte keeps SInv: the divisor latch is closed, the queue has   *)
(* room, and the byte goes behind those already sent.                      *)
LEMMA Keeps_write_out ==
  ASSUME SInv, write_out
  PROVE  SInv'
<1>0. /\ pc = "out" /\ pc' = "serial"
      /\ UNCHANGED <<device, wire, PHASE, PANICKING, console, lines, READY, step, received, result,
                     spins, disturbed>>
  BY DEF write_out, probing
<1>a. READY /\ text # <<>> /\ device = "16550" /\ result = "Ok"
  BY <1>0 DEF SInv, TextInv, ProbeInv, Probing
<1>b. PICK c : c = IF PANICKING THEN "P" ELSE "L"
  OBVIOUS
<1>c. PICK x : x = Head(text)
  OBVIOUS
<1>d. \/ text = <<c, "CR", "LF">> /\ x = c /\ text' = <<"CR", "LF">>
      \/ text = <<"CR", "LF">> /\ x = "CR" /\ text' = <<"LF">> /\ Ends1(sent, c)
      \/ text = <<"LF">> /\ x = "LF" /\ text' = <<>> /\ Ends2(sent, c, "CR")
  <2>1. /\ Tail(<<c, "CR", "LF">>) = <<"CR", "LF">> /\ Head(<<c, "CR", "LF">>) = c
        /\ Tail(<<"CR", "LF">>) = <<"LF">> /\ Head(<<"CR", "LF">>) = "CR"
        /\ Tail(<<"LF">>) = <<>> /\ Head(<<"LF">>) = "LF"
    BY Tails
  <2>2. \/ text = <<c, "CR", "LF">>
        \/ text = <<"CR", "LF">> /\ Ends1(sent, c)
        \/ text = <<"LF">> /\ Ends2(sent, c, "CR")
    BY <1>a, <1>b DEF SInv, TextInv
  <2>3. text' = Tail(text)
    BY DEF write_out
  <2> QED
    BY <1>c, <2>1, <2>2, <2>3, Zenon
<1>e. x \in Bytes /\ c \in {"P", "L"} /\ (x = "P" => text = <<"P", "CR", "LF">> /\ PANICKING)
  BY <1>b, <1>d DEF Bytes
<1>f. sent \in Seq(Bytes) /\ wire \in Seq(Bytes) /\ uart \in UartType /\ ~uart.dlab
  BY <1>0, <1>a, SMTT(30) DEF SInv, STypeOK, UartInv
<1>g. PICK s : s = Append(sent, x)
  BY Zenon
<1>h. sent' = s /\ s \in Seq(Bytes)
  BY <1>c, <1>e, <1>f, <1>g DEF write_out
<1>i. PICK n : n = Outb(uart, "DATA", x)
  OBVIOUS
<1>j. /\ uart' = n /\ n \in UartType /\ (uart.tx = <<>> => n.tx = <<x>>)
      /\ n.dlab = uart.dlab /\ n.loopback = uart.loopback /\ n.divisor = uart.divisor
      /\ n.ier = uart.ier /\ n.rx = uart.rx
  BY <1>c, <1>e, <1>f, <1>i, OutData, SMTT(30) DEF write_out
<1>1. STypeOK'
  BY <1>0, <1>h, <1>j, Zenon DEF SInv, STypeOK, Probing, Printing
<1>2. ProbeInv'
  BY <1>0, <1>a, SMTT(30) DEF SInv, ProbeInv, Probing
<1>3. UartInv'
  BY <1>0, <1>a, <1>j, SMTT(30) DEF SInv, UartInv
<1>4. WireInv'
  <2>1. SUFFICES ASSUME ~disturbed PROVE WireInv'
    BY <1>0, SMTT(30) DEF WireInv
  <2>2. uart.tx = <<>> /\ wire \o <<>> = sent
    BY <1>0, <1>a, <2>1, Zenon DEF SInv, WireInv
  <2>3. wire = sent
    BY <1>f, <2>2, JoinedToNone
  <2>4. wire \o <<x>> = s
    BY <1>e, <1>f, <1>g, <2>3, JoinedToOne
  <2>5. n.tx = <<x>> /\ Len(<<x>>) = 1
    BY <1>j, <2>2
  <2> QED
    BY <1>0, <1>h, <1>j, <2>4, <2>5, SMTT(30) DEF WireInv
<1>5. TextInv'
  <2>1. ReturnsPaired(s)
    <3>1. x = "LF" => Ends1(sent, "CR")
      BY <1>d, <1>e DEF Ends1, Ends2
    <3>2. ReturnsPaired(sent)
      BY DEF SInv, TextInv
    <3> QED
      BY <1>e, <1>f, <1>g, <3>1, <3>2, ReturnsAppended
  <2>2. \/ text' = <<"CR", "LF">> /\ Ends1(s, c)
        \/ text' = <<"LF">> /\ Ends2(s, c, "CR")
        \/ text' = <<>> /\ Ends3(s, c, "CR", "LF")
    BY <1>d, <1>e, <1>f, <1>g, EndsAppended, SMTT(30)
  <2> QED
    BY <1>0, <1>b, <1>h, <2>1, <2>2, SMTT(30) DEF TextInv
<1>6. PanicInv'
  <2>1. /\ Occurs("P", s) <=> Occurs("P", sent) \/ x = "P"
        /\ AtMostOnce("P", sent) /\ (Occurs("P", sent) => x # "P") => AtMostOnce("P", s)
    BY <1>e, <1>f, <1>g, Appended
  <2>2. text' # <<"P", "CR", "LF">>
    BY <1>d
  <2>3. AtMostOnce("P", s)
    BY <1>e, <2>1 DEF SInv, PanicInv
  <2> QED
    BY <1>0, <1>e, <1>h, <2>1, <2>2, <2>3, SMTT(30) DEF SInv, PanicInv, Printing
<1> QED
  BY <1>1, <1>2, <1>3, <1>4, <1>5, <1>6 DEF SInv

(* The UART's shifting a byte out, or back in, keeps SInv.                 *)
LEMMA Keeps_UartShifts ==
  ASSUME SInv, UartShifts
  PROVE  SInv'
<1>0. /\ device = "16550" /\ uart.tx # <<>>
      /\ UNCHANGED <<READY, PHASE, PANICKING, step, received, text, console, lines, result, device,
                     pc, sent, spins, disturbed>>
  BY DEF UartShifts, probing, output
<1>a. uart \in UartType /\ uart.tx \in Seq(Bytes) /\ uart.rx \in Seq(Bytes) /\ wire \in Seq(Bytes)
  BY DEF SInv, STypeOK, UartType
<1>b. PICK x, t, r : x = Head(uart.tx) /\ t = Tail(uart.tx) /\ r = Append(uart.rx, x)
  BY Zenon
<1>c. x \in Bytes /\ t \in Seq(Bytes) /\ Len(t) = Len(uart.tx) - 1 /\ r \in Seq(Bytes)
  BY <1>0, <1>a, <1>b, Dequeue, SMTT(30)
<1>d. PICK n : n = uart'
  OBVIOUS
<1>e. /\ n \in UartType /\ n.tx = t /\ n.dlab = uart.dlab /\ n.loopback = uart.loopback
      /\ n.divisor = uart.divisor /\ n.ier = uart.ier
      /\ n.rx = IF uart.loopback THEN r ELSE uart.rx
  <2>1. PICK q : q = IF uart.loopback THEN r ELSE uart.rx
    OBVIOUS
  <2>2. q \in Seq(Bytes)
    BY <1>a, <1>c, <2>1
  <2>3. n = [[uart EXCEPT !.tx = t] EXCEPT !.rx = q]
    BY <1>a, <1>b, <1>d, <2>1 DEF UartShifts, UartType
  <2> QED
    BY <1>a, <1>c, <2>1, <2>2, <2>3, Zenon DEF UartType
<1>f. wire' = IF uart.loopback THEN wire ELSE Append(wire, x)
  BY <1>b DEF UartShifts
<1>g. wire' \in Seq(Bytes)
  BY <1>a, <1>c, <1>f, SMTT(30)
<1>w. pc \in Probing => wire' = wire
  BY <1>0, <1>f, SMTT(30) DEF SInv, UartInv, Prepared, ProbeInv, Probing
<1>1. STypeOK'
  BY <1>0, <1>d, <1>e, <1>g, SMTT(30) DEF SInv, STypeOK
<1>3. UartInv'
  <2>1. pc # "init"
    BY <1>0, SMTT(30) DEF SInv, ProbeInv, UartInv, Prepared
  <2>2. ASSUME pc = "probe", ~disturbed PROVE n.tx = <<>> /\ n.rx = <<PROBE>>
    <3>1. uart.tx = <<PROBE>> /\ uart.rx = <<>> /\ uart.loopback
      BY <1>0, <2>2, SMTT(30) DEF SInv, UartInv
    <3>2. Head(<<PROBE>>) = PROBE /\ Tail(<<PROBE>>) = <<>> /\ Append(<<>>, PROBE) = <<PROBE>>
      OBVIOUS
    <3>3. t = <<>> /\ x = PROBE
      BY <1>b, <3>1, <3>2, Zenon
    <3>4. r = <<PROBE>>
      BY <1>b, <3>1, <3>2, <3>3, Zenon
    <3> QED
      BY <1>e, <3>1, <3>3, <3>4
  <2>3. ~(pc \in {"probe_data", "loopback_off"} /\ ~disturbed)
    BY <1>0, SMTT(30) DEF SInv, UartInv
  <2> QED
    BY <1>0, <1>d, <1>e, <2>1, <2>2, <2>3, SMTT(30) DEF SInv, UartInv
<1>4. WireInv'
  <2>1. SUFFICES ASSUME result = "Ok", ~disturbed PROVE WireInv'
    BY <1>0, SMTT(30) DEF WireInv
  <2>2. pc \notin Probing /\ ~uart.loopback
    BY <1>0, <2>1, SMTT(30) DEF SInv, ProbeInv, UartInv, Probing
  <2>3. Len(uart.tx) = 1 /\ wire \o uart.tx = sent /\ pc # "out"
    <3>1. Len(uart.tx) <= 1 /\ wire \o uart.tx = sent /\ pc # "out"
      BY <1>0, <2>1, SMTT(30) DEF SInv, WireInv
    <3>2. Len(uart.tx) \in Nat \ {0}
      BY <1>0, <1>a, NoBytes
    <3>3. PICK k : k = Len(uart.tx)
      BY Zenon
    <3>4. k \in Nat \ {0} /\ k <= 1
      BY <3>1, <3>2, <3>3, Zenon
    <3>5. k = 1
      BY <3>4
    <3> QED
      BY <3>1, <3>3, <3>5, Zenon
  <2>4. t = <<>> /\ uart.tx = <<x>>
    <3>1. PICK u : u = uart.tx
      OBVIOUS
    <3>2. u \in Seq(Bytes) /\ Len(u) = 1 /\ x = Head(u) /\ t = Tail(u)
      BY <1>a, <1>b, <2>3, <3>1
    <3>3. PICK o : o = <<x>>
      BY Zenon
    <3>4. o \in Seq(Bytes) /\ Len(o) = 1 /\ o[1] = x /\ u[1] = x
      BY <1>c, <3>2, <3>3
    <3>5. \A i \in 1..Len(u) : u[i] = o[i]
      BY <3>2, <3>4
    <3>6. u = o
      BY <3>2, <3>4, <3>5, SameBytes
    <3>7. t = <<>>
      BY <1>c, <2>3, NoBytes
    <3> QED
      BY <3>1, <3>3, <3>6, <3>7
  <2>5. wire' = wire \o <<x>>
    BY <1>a, <1>c, <1>f, <2>2, JoinedToOne
  <2>6. wire' \o <<>> = wire'
    BY <1>g, JoinedToNone
  <2>7. wire' \o t = sent
    BY <2>3, <2>4, <2>5, <2>6, Zenon
  <2> QED
    BY <1>0, <1>c, <1>d, <1>e, <2>3, <2>4, <2>7, SMTT(30) DEF WireInv
<1>2. ProbeInv'
  BY <1>0, <1>w, SMTT(30) DEF SInv, ProbeInv
<1>5. TextInv'
  BY <1>0, SMTT(30) DEF SInv, TextInv
<1>6. PanicInv'
  BY <1>0, Zenon DEF SInv, PanicInv
<1> QED
  BY <1>1, <1>2, <1>3, <1>4, <1>5, <1>6 DEF SInv

(* The firmware's reading a byte keeps SInv.                               *)
LEMMA Keeps_FirmwarePolls ==
  ASSUME SInv, FirmwarePolls
  PROVE  SInv'
<1>0. /\ device = "16550" /\ uart.rx # <<>>
      /\ UNCHANGED <<READY, PHASE, PANICKING, step, received, text, console, lines, result, device,
                     pc, sent, spins, wire>>
  BY DEF FirmwarePolls, probing, output
<1>w. wire' = wire
  BY <1>0
<1>a. uart \in UartType /\ uart.rx \in Seq(Bytes)
  BY DEF SInv, STypeOK, UartType
<1>b. PICK t, n : t = Tail(uart.rx) /\ n = uart'
  BY Zenon
<1>c. t \in Seq(Bytes)
  BY <1>0, <1>a, <1>b, Dequeue, SMTT(30)
<1>d. /\ n \in UartType /\ n.tx = uart.tx /\ n.dlab = uart.dlab /\ n.loopback = uart.loopback
      /\ n.divisor = uart.divisor /\ n.ier = uart.ier
  BY <1>a, <1>b, <1>c, Zenon DEF FirmwarePolls, UartType
<1>e. disturbed' \in BOOLEAN /\ (disturbed => disturbed')
  BY Zenon DEF SInv, STypeOK, FirmwarePolls
<1>f. uart.rx = <<PROBE>> => disturbed'
  <2>1. Head(<<PROBE>>) = PROBE
    BY SMTT(30)
  <2> QED
    BY <2>1, Zenon DEF FirmwarePolls
<1>1. STypeOK'
  BY <1>0, <1>b, <1>d, <1>e, SMTT(30) DEF SInv, STypeOK
<1>3. UartInv'
  <2>1. pc = "init" => Prepared(n, step)
    BY <1>0, <1>d, ZenonT(60) DEF SInv, UartInv, Prepared
  <2>2. pc = "init" /\ step >= 7 => disturbed'
    BY <1>0, <1>e, SMTT(30) DEF SInv, UartInv
  <2>3. pc \in {"probe", "probe_data"} => disturbed'
    BY <1>0, <1>e, <1>f, SMTT(30) DEF SInv, UartInv
  <2> QED
    BY <1>0, <1>b, <1>d, <1>e, <2>1, <2>2, <2>3, Zenon DEF SInv, UartInv
<1>4. WireInv'
  BY <1>0, <1>b, <1>d, <1>e, SMTT(30) DEF SInv, WireInv
<1>2. ProbeInv'
  BY <1>0, <1>w, SMTT(30) DEF SInv, ProbeInv
<1>5. TextInv'
  BY <1>0, SMTT(30) DEF SInv, TextInv
<1>6. PanicInv'
  BY <1>0, Zenon DEF SInv, PanicInv
<1> QED
  BY <1>1, <1>2, <1>3, <1>4, <1>5, <1>6 DEF SInv

(* A byte received keeps SInv.                                             *)
LEMMA Keeps_UartReceives ==
  ASSUME SInv, UartReceives
  PROVE  SInv'
<1>0. /\ device = "16550" /\ ~uart.loopback
      /\ UNCHANGED <<READY, PHASE, PANICKING, step, received, text, console, lines, result, device,
                     pc, sent, spins, wire>>
  BY DEF UartReceives, probing, output
<1>w. wire' = wire
  BY <1>0
<1>a. uart \in UartType
  BY DEF SInv, STypeOK
<1>b. PICK r, n : r = <<"L">> /\ n = uart'
  BY Zenon
<1>c. r \in Seq(Bytes)
  BY <1>b DEF Bytes
<1>d. /\ n \in UartType /\ n.tx = uart.tx /\ n.dlab = uart.dlab /\ n.loopback = uart.loopback
      /\ n.divisor = uart.divisor /\ n.ier = uart.ier
  BY <1>a, <1>b, <1>c, Zenon DEF UartReceives, UartType
<1>e. disturbed' \in BOOLEAN /\ (disturbed => disturbed') /\ (pc = "init" /\ step = 7 => disturbed')
  BY Zenon DEF SInv, STypeOK, UartReceives
<1>1. STypeOK'
  BY <1>0, <1>b, <1>d, <1>e, SMTT(30) DEF SInv, STypeOK
<1>3. UartInv'
  <2>1. pc = "init" => Prepared(n, step)
    BY <1>0, <1>d, ZenonT(60) DEF SInv, UartInv, Prepared
  <2>2. pc = "init" /\ step >= 7 => disturbed'
    BY <1>0, <1>e, SMTT(30) DEF SInv, ProbeInv, UartInv, Prepared
  <2>3. pc \notin {"probe", "probe_data", "loopback_off"}
    BY <1>0, SMTT(30) DEF SInv, UartInv
  <2> QED
    BY <1>0, <1>b, <1>d, <1>e, <2>1, <2>2, <2>3, Zenon DEF SInv, UartInv
<1>4. WireInv'
  BY <1>0, <1>b, <1>d, <1>e, SMTT(30) DEF SInv, WireInv
<1>2. ProbeInv'
  BY <1>0, <1>w, SMTT(30) DEF SInv, ProbeInv
<1>5. TextInv'
  BY <1>0, SMTT(30) DEF SInv, TextInv
<1>6. PanicInv'
  BY <1>0, SMTT(30) DEF SInv, PanicInv
<1> QED
  BY <1>1, <1>2, <1>3, <1>4, <1>5, <1>6 DEF SInv

(* A change of phase keeps SInv.                                           *)
LEMMA Keeps_set_phase ==
  ASSUME SInv, NEW phase, set_phase(phase)
  PROVE  SInv'
<1>0. UNCHANGED <<device, uart, wire, READY, step, received, result, PANICKING, pc, spins, text,
                  console, lines, sent, disturbed>>
  BY DEF set_phase, hardware, probing
<1>1. STypeOK'
  BY <1>0 DEF SInv, STypeOK
<1>2. ProbeInv'
  BY <1>0, SMTT(30) DEF SInv, ProbeInv
<1>3. UartInv'
  BY <1>0 DEF SInv, UartInv
<1>4. WireInv'
  BY <1>0 DEF SInv, WireInv
<1>5. TextInv'
  BY <1>0 DEF SInv, TextInv
<1>6. PanicInv'
  BY <1>0 DEF SInv, PanicInv
<1> QED
  BY <1>1, <1>2, <1>3, <1>4, <1>5, <1>6 DEF SInv

(* So does a step that changes nothing.                                    *)
LEMMA Keeps_stutter ==
  ASSUME SInv, UNCHANGED vars
  PROVE  SInv'
<1>0. UNCHANGED <<device, uart, wire, READY, step, received, result, PANICKING, pc, spins, text,
                  console, lines, sent, disturbed>>
  BY DEF vars, hardware, probing, output
<1>1. STypeOK'
  BY <1>0 DEF SInv, STypeOK
<1>2. ProbeInv'
  BY <1>0, SMTT(30) DEF SInv, ProbeInv
<1>3. UartInv'
  BY <1>0 DEF SInv, UartInv
<1>4. WireInv'
  BY <1>0 DEF SInv, WireInv
<1>5. TextInv'
  BY <1>0 DEF SInv, TextInv
<1>6. PanicInv'
  BY <1>0 DEF SInv, PanicInv
<1> QED
  BY <1>1, <1>2, <1>3, <1>4, <1>5, <1>6 DEF SInv

(* The port as the firmware leaves it satisfies SInv.                      *)
LEMMA SInvInit == Init => SInv
<1> SUFFICES ASSUME Init PROVE SInv
  OBVIOUS
<1>0. /\ device \in {"16550", "absent", "other"} /\ wire = <<>>
      /\ READY = FALSE /\ PHASE = "BootServices" /\ PANICKING = FALSE
      /\ pc = "init" /\ step = 1 /\ spins = 0 /\ received = "None"
      /\ text = <<>> /\ console = <<>> /\ result = "None" /\ sent = <<>> /\ disturbed = FALSE
  BY DEF Init
<1>a. /\ uart \in UartType /\ Prepared(uart, 1)
  <2>1. PICK d : d = <<12, 0>>
    BY Zenon
  <2>2. d \in [1..2 -> Nat]
    BY <2>1
  <2>3. <<>> \in Seq(Bytes) /\ <<"L">> \in Seq(Bytes)
    BY DEF Bytes
  <2>a. PICK e, l : e = <<>> /\ l = <<"L">>
    BY Zenon
  <2>b. uart \in [dlab : {FALSE}, loopback : {FALSE}, divisor : {d}, ier : {1}, tx : {e}, rx : {e, l}]
    BY <2>1, <2>a, Zenon DEF Init
  <2>c. e \in Seq(Bytes) /\ l \in Seq(Bytes)
    BY <2>3, <2>a, Zenon
  <2>4. uart.dlab = FALSE /\ uart.loopback = FALSE /\ uart.tx = e
    BY <2>b, Zenon
  <2>5. uart \in UartType
    <3>1. PICK r \in {e, l} : uart = [dlab |-> FALSE, loopback |-> FALSE, divisor |-> d, ier |-> 1,
                                      tx |-> e, rx |-> r]
      BY <2>b, Zenon
    <3>2. PICK f \in BOOLEAN : f = FALSE
      BY Zenon
    <3>3. uart = [dlab |-> f, loopback |-> f, divisor |-> d, ier |-> 1, tx |-> e, rx |-> r]
      BY <3>1, <3>2, Zenon
    <3> QED
      BY <2>2, <2>c, <3>3, Zenon DEF UartType
  <2>6. Prepared(uart, 1)
    BY <2>4, <2>a, SMTT(30) DEF Prepared
  <2> QED
    BY <2>5, <2>6
<1>b. \A S : <<>> \in Seq(S)
  OBVIOUS
<1>c. \A c : ~Occurs(c, <<>>) /\ AtMostOnce(c, <<>>)
  BY DEF Occurs, AtMostOnce
<1>d. ReturnsPaired(<<>>)
  BY DEF ReturnsPaired
<1>1. STypeOK
  <2>1. wire \in Seq(Bytes) /\ sent \in Seq(Bytes) /\ console \in Seq({"L", "P"})
    BY <1>0, <1>b, Zenon
  <2>2. READY \in BOOLEAN /\ PANICKING \in BOOLEAN /\ disturbed \in BOOLEAN
    BY <1>0, Zenon
  <2>3. step \in 1..9 /\ spins \in Nat
    BY <1>0
  <2> QED
    BY <1>0, <1>a, <2>1, <2>2, <2>3, Zenon DEF STypeOK, Probing
<1>2. ProbeInv
  BY <1>0 DEF ProbeInv, Probing, PROBE
<1>3. UartInv
  BY <1>0, <1>a, SMTT(30) DEF UartInv
<1>4. WireInv
  BY <1>0 DEF WireInv
<1>5. TextInv
  BY <1>0, <1>d, SMTT(30) DEF TextInv
<1>6. PanicInv
  BY <1>0, <1>c DEF PanicInv
<1> QED
  BY <1>1, <1>2, <1>3, <1>4, <1>5, <1>6 DEF SInv

(* SInv is an invariant of the driver, its callers and the UART.           *)
THEOREM SerialInvariant == Spec => []SInv
<1>1. SInv /\ [Next]_vars => SInv'
  <2> SUFFICES ASSUME SInv, [Next]_vars PROVE SInv'
    OBVIOUS
  <2>1. CASE Driver
    BY <2>1, Keeps_init_write, Keeps_init_poll, Keeps_init_read, Keeps_init_end, Keeps_write_byte, Keeps_write_poll,
       Keeps_write_out, Keeps_line_done, Zenon DEF Driver
  <2>2. CASE log_line \/ serial_println \/ ConsoleReturns \/ panic
    BY <2>2, Keeps_log_line, Keeps_serial_println, Keeps_ConsoleReturns, Keeps_panic, Zenon
  <2>3. CASE UNCHANGED vars \/ halt_forever
    BY <2>3, Keeps_stutter, Zenon DEF halt_forever
  <2>4. ASSUME NEW phase, set_phase(phase) PROVE SInv'
    BY <2>4, Keeps_set_phase, Zenon
  <2>5. CASE UartShifts \/ UartReceives \/ FirmwarePolls
    BY <2>5, Keeps_UartShifts, Keeps_UartReceives, Keeps_FirmwarePolls, Zenon
  <2> QED
    BY <2>1, <2>2, <2>3, <2>4, <2>5, Zenon DEF Next
<1> QED
  BY SInvInit, <1>1, PTL DEF Spec

(* init answers Ok only for a UART left ready to send, and refuses a       *)
(* working one only when its test was disturbed, whatever SPIN_LIMIT is.   *)
THEOREM InitVerdict == Spec => []InitTellsUart
<1>1. SInv => InitTellsUart
  <2> SUFFICES ASSUME SInv PROVE InitTellsUart
    OBVIOUS
  <2>1. result = "Ok" => device = "16550" /\ pc # "init" /\ pc \notin {"probe", "probe_data", "loopback_off"}
    BY DEF SInv, ProbeInv, Probing
  <2>2. device = "16550" => uart.divisor \in [1..2 -> Nat]
    BY DEF SInv, STypeOK, UartType
  <2>3. PICK d : d = uart.divisor
    OBVIOUS
  <2>4. d \in [1..2 -> Nat] /\ d[1] = 1 /\ d[2] = 0 => d = <<1, 0>>
    OBVIOUS
  <2> QED
    BY <2>1, <2>2, <2>3, <2>4, SMTT(30) DEF SInv, UartInv, InitTellsUart
<1> QED
  BY SerialInvariant, <1>1, PTL

(* On a UART that keeps up, the bytes of every line reach the wire once    *)
(* and in order, for every number of lines and every queue size.           *)
THEOREM WireOrder == Spec => []WireInOrder
<1>1. SInv => WireInOrder
  BY Zenon DEF SInv, WireInv, TextInv, WireInOrder
<1> QED
  BY SerialInvariant, <1>1, PTL

(* One panic is reported, on COM1 first, and nothing runs after it.        *)
THEOREM OnePanic == Spec => []PanicReportedOnce
<1>1. SInv => PanicReportedOnce
  <2> SUFFICES ASSUME SInv PROVE PanicReportedOnce
    OBVIOUS
  <2>1. AtMostOnce("P", sent) /\ AtMostOnce("P", console) /\ (PANICKING => pc # "run")
    BY DEF SInv, PanicInv, Printing
  <2>2. ASSUME Ends3(sent, "P", "CR", "LF")
        PROVE  Len(sent) >= 3 /\ SubSeq(sent, Len(sent) - 2, Len(sent)) = <<"P", "CR", "LF">>
    <3>1. sent \in Seq(Bytes) /\ Len(sent) \in Nat /\ Len(sent) >= 3
      BY <2>2 DEF SInv, STypeOK, Ends3
    <3>2. PICK u, k : u = <<"P", "CR", "LF">> /\ k = Len(sent) - 2
      BY Zenon
    <3>3. u \in Seq(Bytes) /\ Len(u) = 3 /\ u[1] = "P" /\ u[2] = "CR" /\ u[3] = "LF"
      BY <3>2 DEF Bytes
    <3>4. PICK w : w = SubSeq(sent, k, Len(sent))
      BY Zenon
    <3>5. /\ w \in Seq(Bytes) /\ Len(w) = 3
          /\ w[1] = sent[k] /\ w[2] = sent[k + 1] /\ w[3] = sent[k + 2]
      BY <3>1, <3>2, <3>4
    <3>6. \A i \in 1..3 : w[i] = u[i]
      BY <2>2, <3>1, <3>2, <3>3, <3>5, SMTT(30) DEF Ends3
    <3>7. w = u
      BY <3>3, <3>5, <3>6, SameBytes
    <3> QED
      BY <3>1, <3>2, <3>4, <3>7, Zenon
  <2>3. Occurs("P", console) /\ READY => Ends3(sent, "P", "CR", "LF")
    BY DEF SInv, PanicInv
  <2> QED
    BY <2>1, <2>2, <2>3, Lines, Zenon DEF PanicReportedOnce
<1> QED
  BY SerialInvariant, <1>1, PTL
=============================================================================
