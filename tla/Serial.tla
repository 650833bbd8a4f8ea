------------------------------- MODULE Serial -------------------------------
(***************************************************************************)
(* Output: the COM1 driver (src/serial.rs), the lines of log! and the      *)
(* panic handler that use it (src/output.rs), and the UART they drive.     *)
(*                                                                         *)
(* Each port access is a step, because the UART, the firmware (whose       *)
(* console driver shares the port and polls it from its timer) and a panic *)
(* come in between.  A line's text is one character, "L" for a log line    *)
(* and "P" for a panic's; the line feed after it is "LF", sent as "CR",    *)
(* "LF".                                                                   *)
(***************************************************************************)
EXTENDS Integers, Sequences

CONSTANTS SPIN_LIMIT,   \* polls before giving up on a byte (100_000)
          FIFO_SIZE,    \* bytes the UART's queue holds (16)
          MaxLines      \* bound on log lines

ASSUME OutputAssumption == SPIN_LIMIT \in Nat \ {0} /\ FIFO_SIZE \in Nat \ {0}

VARIABLES device,      \* what is at COM1: "16550", "absent" or "other"
          uart,        \* the 16550's registers and queues
          wire,        \* the bytes that left the UART
          READY, PHASE, PANICKING,
          pc,          \* where the CPU is
          step,        \* the next port access of init
          spins,       \* polls made for the current byte
          received,    \* the byte init's loopback test read back
          text,        \* what is left of the current line
          console,     \* the lines the firmware console was called for
          lines,       \* log lines begun
          result,      \* what init returned
          sent,        \* the bytes write_byte has sent (history)
          disturbed    \* a poll ended at SPIN_LIMIT, or a byte came or went during
                       \* the loopback test (history)

hardware == <<device, uart, wire>>
probing == <<READY, step, received, result>>
output == <<PHASE, PANICKING, text, console, lines>>
vars == <<hardware, probing, output, pc, spins, sent, disturbed>>

PROBE == "AE"
-----------------------------------------------------------------------------
(* The UART, and a port nothing (or something else) claims.                *)

\* A write to a register; a data byte that finds the queue full is lost.
Outb(u, reg, value) ==
  CASE reg = "DATA" /\ u.dlab -> [u EXCEPT !.divisor[1] = value]
    [] reg = "DATA" /\ ~u.dlab ->
         IF Len(u.tx) < FIFO_SIZE THEN [u EXCEPT !.tx = Append(@, value)] ELSE u
    [] reg = "INTERRUPT_ENABLE" /\ u.dlab -> [u EXCEPT !.divisor[2] = value]
    [] reg = "INTERRUPT_ENABLE" /\ ~u.dlab -> [u EXCEPT !.ier = value]
    [] reg = "LINE_CONTROL" -> [u EXCEPT !.dlab = (value = "LINE_DLAB")]
    [] reg = "FIFO_CONTROL" -> [u EXCEPT !.tx = <<>>, !.rx = <<>>]
    [] reg = "MODEM_CONTROL" -> [u EXCEPT !.loopback = (value = "LOOPBACK")]

\* The UART takes the next queued byte, when and if it does: onto the wire, or back in.
UartShifts ==
  /\ device = "16550" /\ uart.tx # <<>>
  /\ uart' = [uart EXCEPT !.tx = Tail(@),
                          !.rx = IF uart.loopback THEN Append(@, Head(uart.tx)) ELSE @]
  /\ wire' = IF uart.loopback THEN wire ELSE Append(wire, Head(uart.tx))
  /\ UNCHANGED <<probing, output, device, pc, sent, disturbed, spins>>

\* In boot services the firmware's timer may read a waiting byte.
FirmwarePolls ==
  /\ PHASE = "BootServices" /\ device = "16550" /\ uart.rx # <<>>
  /\ uart' = [uart EXCEPT !.rx = Tail(@)]
  /\ disturbed' = (disturbed \/ Head(uart.rx) = PROBE)
  /\ UNCHANGED <<probing, output, device, wire, pc, sent, spins>>

\* Someone types.
UartReceives ==
  /\ device = "16550" /\ ~uart.loopback /\ uart.rx = <<>>
  /\ uart' = [uart EXCEPT !.rx = <<"L">>]
  /\ disturbed' = (disturbed \/ (pc = "init" /\ step = 7))
  /\ UNCHANGED <<probing, output, device, wire, pc, sent, spins>>

\* Line status bits 0 and 5.  An unclaimed port reads as 0xFF.
DataReady == device # "16550" \/ uart.rx # <<>>

\* Mutant: a status bit polled that is always set.
TransmitEmpty_mutant == TRUE

TransmitEmpty == device # "16550" \/ uart.tx = <<>>

Init ==
  /\ device \in {"16550", "absent", "other"}
  \* As the firmware left it: its own speed, and perhaps a byte typed.
  /\ uart \in [dlab : {FALSE}, loopback : {FALSE}, divisor : {<<12, 0>>}, ier : {1},
               tx : {<<>>}, rx : {<<>>, <<"L">>}]
  /\ wire = <<>>
  /\ READY = FALSE /\ PHASE = "BootServices" /\ PANICKING = FALSE
  /\ pc = "init" /\ step = 1 /\ spins = 0 /\ received = "None"
  /\ text = <<>> /\ console = <<>> /\ lines = 0 /\ result = "None"
  /\ sent = <<>> /\ disturbed = FALSE

-----------------------------------------------------------------------------
(* init: eight port writes, a bounded poll, one more write.                *)

divisor(baud) == 115200 \div baud

InitWrites ==
  <<<<"INTERRUPT_ENABLE", 0>>,
    <<"LINE_CONTROL", "LINE_DLAB">>,
    <<"DATA", divisor(115200) % 256>>,
    <<"INTERRUPT_ENABLE", divisor(115200) \div 256>>,
    <<"LINE_CONTROL", "LINE_8N1">>,
    <<"FIFO_CONTROL", "ENABLE_AND_CLEAR">>,
    <<"MODEM_CONTROL", "LOOPBACK">>,
    <<"DATA", PROBE>>>>

init_write ==
  /\ pc = "init"
  /\ uart' = IF device = "16550" THEN Outb(uart, InitWrites[step][1], InitWrites[step][2])
             ELSE uart
  /\ step' = step + 1
  /\ pc' = IF step = Len(InitWrites) THEN "probe" ELSE pc
  /\ UNCHANGED <<output, device, wire, READY, spins, received, result, sent, disturbed>>

init_poll ==
  /\ pc = "probe"
  /\ \/ /\ DataReady
        /\ pc' = "probe_data"
        /\ UNCHANGED <<spins, disturbed>>
     \/ /\ ~DataReady
        /\ spins' = spins + 1
        /\ pc' = IF spins + 1 = SPIN_LIMIT THEN "loopback_off" ELSE pc
        /\ disturbed' = (disturbed \/ spins + 1 = SPIN_LIMIT)
  /\ UNCHANGED <<hardware, output, READY, step, received, result, sent>>

\* What a read of the data register may give: the byte that waits; when the
\* firmware took it after the status was read, a byte taken before, or 0.
Inb == CASE device = "16550" /\ uart.rx # <<>> -> {Head(uart.rx)}
         [] device = "16550" /\ uart.rx = <<>> -> {PROBE, "L", "00"}
         [] device = "absent" -> {"FF"}
         [] device = "other" -> {"00"}

init_read ==
  /\ pc = "probe_data"
  /\ received' \in Inb
  /\ uart' = IF device = "16550" /\ uart.rx # <<>> THEN [uart EXCEPT !.rx = Tail(@)] ELSE uart
  /\ pc' = "loopback_off"
  /\ UNCHANGED <<output, device, wire, READY, step, spins, result, sent, disturbed>>

\* Mutant: loopback left on after a test that passed.
init_end_mutant ==
  /\ pc = "loopback_off"
  /\ uart' = IF device = "16550" /\ received # PROBE
             THEN Outb(uart, "MODEM_CONTROL", "MODEM_READY") ELSE uart
  /\ READY' = (received = PROBE)
  /\ result' = IF received = PROBE THEN "Ok" ELSE "LoopbackFailed"
  /\ pc' = "run"
  /\ UNCHANGED <<output, device, wire, step, spins, received, sent, disturbed>>

init_end ==
  /\ pc = "loopback_off"
  /\ uart' = IF device = "16550" THEN Outb(uart, "MODEM_CONTROL", "MODEM_READY") ELSE uart
  /\ READY' = (received = PROBE)
  /\ result' = IF received = PROBE THEN "Ok" ELSE "LoopbackFailed"
  /\ pc' = "run"
  /\ UNCHANGED <<output, device, wire, step, spins, received, sent, disturbed>>

-----------------------------------------------------------------------------
(* Lines.                                                                  *)

write_str(c) == IF c = "LF" THEN <<"CR", "LF">> ELSE <<c>>

\* serial_println! of a text: the text, then the line feed.
Line(c) == write_str(c) \o write_str("LF")

console_allowed == PHASE = "BootServices"

\* uefi::println! for a line: the firmware is called, and may not return.
CallConsole(line) == console' = Append(console, line)

log_line ==
  /\ pc = "run" /\ lines < MaxLines
  /\ text' = Line("L")
  /\ lines' = lines + 1
  /\ \/ /\ console_allowed
        /\ CallConsole("L")
        /\ pc' = "console"
     \/ /\ ~console_allowed
        /\ UNCHANGED console
        /\ pc' = "serial"
  /\ UNCHANGED <<hardware, probing, PHASE, PANICKING, spins, sent, disturbed>>

\* The exit handler's lines: no console in any phase.
serial_println ==
  /\ pc = "run" /\ lines < MaxLines
  /\ text' = Line("L")
  /\ lines' = lines + 1
  /\ pc' = "serial"
  /\ UNCHANGED <<hardware, probing, PHASE, PANICKING, spins, console, sent, disturbed>>

\* The firmware returns: from log_line's call, or from the panic handler's.
ConsoleReturns ==
  /\ \/ pc = "console" /\ pc' = "serial"
     \/ pc = "panic_console" /\ pc' = "halted"
  /\ UNCHANGED <<hardware, probing, output, sent, disturbed, spins>>

\* write_byte of the next byte: dropped unless READY.
write_byte ==
  /\ pc = "serial" /\ text # <<>>
  /\ \/ /\ READY
        /\ pc' = "poll"
        /\ spins' = 0
        /\ UNCHANGED text
     \/ /\ ~READY
        /\ text' = Tail(text)
        /\ UNCHANGED <<pc, spins>>
  /\ UNCHANGED <<hardware, probing, PHASE, PANICKING, console, lines, sent, disturbed>>

\* Mutant: the poll has no bound.
write_poll_mutant ==
  /\ pc = "poll"
  /\ \/ /\ TransmitEmpty
        /\ pc' = "out"
        /\ UNCHANGED <<spins, disturbed>>
     \/ /\ ~TransmitEmpty
        /\ UNCHANGED <<pc, spins, disturbed>>
  /\ UNCHANGED <<hardware, probing, output, sent>>

write_poll ==
  /\ pc = "poll"
  /\ \/ /\ TransmitEmpty
        /\ pc' = "out"
        /\ UNCHANGED <<spins, disturbed>>
     \/ /\ ~TransmitEmpty
        /\ spins' = spins + 1
        /\ pc' = IF spins + 1 = SPIN_LIMIT THEN "out" ELSE pc
        /\ disturbed' = (disturbed \/ spins + 1 = SPIN_LIMIT)
  /\ UNCHANGED <<hardware, probing, output, sent>>

write_out ==
  /\ pc = "out"
  /\ uart' = Outb(uart, "DATA", Head(text))
  /\ sent' = Append(sent, Head(text))
  /\ text' = Tail(text)
  /\ pc' = "serial"
  /\ UNCHANGED <<probing, device, wire, PHASE, PANICKING, spins, console, lines,
                 disturbed>>

\* The line is out.  A panic goes on to the console, where it may, and halts.
line_done ==
  /\ pc = "serial" /\ text = <<>>
  /\ \/ /\ ~PANICKING
        /\ pc' = "run"
        /\ UNCHANGED console
     \/ /\ PANICKING /\ console_allowed
        /\ CallConsole("P")
        /\ pc' = "panic_console"
     \/ /\ PANICKING /\ ~console_allowed
        /\ pc' = "halted"
        /\ UNCHANGED console
  /\ UNCHANGED <<hardware, probing, PHASE, PANICKING, spins, text, lines, sent,
                 disturbed>>

-----------------------------------------------------------------------------
(* Panics: anywhere in Rust code, from formatting a line (not from sending *)
(* its line feed), or from the console's driver; the first one prints, a   *)
(* second one halts.                                                       *)

CanPanic == pc \in {"run", "console", "panic_console"} \/ (pc = "serial" /\ Len(text) > 1)

\* Mutant: every panic prints.
panic_mutant ==
  /\ CanPanic
  /\ PANICKING' = TRUE
  /\ text' = Line("P")
  /\ pc' = "serial"
  /\ UNCHANGED <<hardware, probing, PHASE, spins, console, lines, sent, disturbed>>

panic ==
  /\ CanPanic
  /\ PANICKING' = TRUE
  /\ \/ /\ ~PANICKING
        /\ text' = Line("P")
        /\ pc' = "serial"
     \/ /\ PANICKING
        /\ pc' = "halted"
        /\ UNCHANGED text
  /\ UNCHANGED <<hardware, probing, PHASE, spins, console, lines, sent, disturbed>>

\* The first exit of a guest, and teardown.
set_phase(phase) ==
  /\ pc = "run" /\ PHASE # phase
  /\ PHASE' = phase
  /\ UNCHANGED <<hardware, probing, PANICKING, pc, spins, text, console, lines, sent,
                 disturbed>>

\* halt_forever: an NMI or SMI wakes HLT, and the loop halts again.
halt_forever == pc = "halted" /\ UNCHANGED vars

Driver ==
  \/ init_write \/ init_poll \/ init_read \/ init_end
  \/ write_byte \/ write_poll \/ write_out \/ line_done

Next ==
  \/ Driver
  \/ log_line \/ serial_println \/ ConsoleReturns \/ panic \/ halt_forever
  \/ \E phase \in {"BootServices", "VmExit"} : set_phase(phase)
  \/ UartShifts \/ UartReceives \/ FirmwarePolls

\* The CPU goes on with what the driver has begun; the UART and the firmware need not.
Spec == Init /\ [][Next]_vars /\ WF_vars(Driver)

-----------------------------------------------------------------------------
(* Properties.                                                             *)

(* init answers Ok only for a UART it has left ready to send: the divisor  *)
(* latch closed, loopback off, 115200 baud, no interrupts.  And it refuses *)
(* a working UART only when the probe byte was late, was read by the       *)
(* firmware (even between init's read of the status and of the byte), or   *)
(* came behind a byte received in the middle of the test.                  *)
InitTellsUart ==
  /\ result = "Ok" => /\ device = "16550"
                      /\ ~uart.dlab /\ ~uart.loopback
                      /\ uart.divisor = <<1, 0>> /\ uart.ier = 0
  /\ result = "LoopbackFailed" => device # "16550" \/ disturbed

\* Every line feed follows a carriage return.
ReturnsPaired(s) == \A i \in DOMAIN s : s[i] = "LF" => i > 1 /\ s[i - 1] = "CR"

(* As long as no poll of write_byte gave up, every byte of every line      *)
(* reaches the wire, once and in order, with each line feed after a        *)
(* carriage return; nothing goes to the divisor latch, none comes back,    *)
(* none overflows the queue, and the loopback test's byte is not seen.     *)
WireInOrder ==
  (result = "Ok" /\ ~disturbed) =>
    /\ wire \o uart.tx = sent
    /\ ReturnsPaired(sent)

Occurs(c, s) == \E i \in DOMAIN s : s[i] = c
AtMostOnce(c, s) == \A i, j \in DOMAIN s : s[i] = c /\ s[j] = c => i = j

(* One panic is reported, on serial before anything else: when the console *)
(* is called for a panic its line is already complete on COM1, and a panic *)
(* raised while the first is printing prints nothing (panic, PANICKING).   *)
(* After either the CPU never runs on.                                     *)
PanicReportedOnce ==
  /\ AtMostOnce("P", sent) /\ AtMostOnce("P", console)
  /\ PANICKING => pc # "run"
  /\ Occurs("P", console) /\ READY =>
       Len(sent) >= 3 /\ SubSeq(sent, Len(sent) - 2, Len(sent)) = Line("P")

(* The driver never hangs, whatever the UART does: init ends, and every    *)
(* line ends or is cut short by a panic that halts the CPU ("a missing or  *)
(* stuck UART must not hang the hypervisor").                              *)
SerialNeverHangs ==
  pc \in {"init", "probe", "probe_data", "loopback_off", "serial", "poll", "out"}
    ~> pc \in {"run", "panic_console", "halted"}

=============================================================================
