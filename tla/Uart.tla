-------------------------------- MODULE Uart --------------------------------
(***************************************************************************)
(* The memory-mapped UART: src/ama_riscv_uart.sv, src/common/uart.sv,      *)
(* uart_rx.sv and uart_tx.sv, reached from the MEM stage of the core       *)
(* (core.sv:755-765, 808, 859-865).  One step is one clock.                *)
(*                                                                         *)
(* An access stays in MEM for every clock in which the data cache stalls,  *)
(* and the UART is given it in each of them.  A character takes CHAR       *)
(* clocks on the line, its bits and its data are left out: a byte is a     *)
(* number, in the order in which it arrives or is written.  Software       *)
(* (external) polls UART_CTRL, reads a byte or writes one when the poll    *)
(* allows it, and leaves a few clocks before it polls again.               *)
(***************************************************************************)
EXTENDS Naturals, SequencesExt

CONSTANTS
  CHAR,        \* clocks of a character
  MaxHold,     \* bound: clocks an access is held in MEM after its first
  RxSettle,    \* clocks software leaves between a read of UART_RX and a poll
  TxSettle,    \* and between a write of UART_TX and a poll
  MaxRx, MaxTx \* bounds: characters received, bytes written

\* A data cache miss is shorter than a character; software leaves the clocks in
\* which a poll would still show the byte it has read, or no byte to send.
ASSUME UartAssumption ==
  /\ CHAR \in Nat /\ MaxHold \in Nat /\ MaxHold <= CHAR
  /\ RxSettle \in Nat \ {0, 1} /\ TxSettle \in Nat \ {0}

VARIABLES
  uart_mem,    \* in MEM: op "none", "poll", "rx" or "tx", and the clocks it is held
  uart_wbk,    \* what is in WBK
  since,       \* clocks since the last read and the last write, up to the settle time
  allowed,     \* what the last poll allows: a subset of {"rx", "tx"}
  send_req,    \* valid, data
  uart_rv_ctrl,\* rx_valid, tx_ready
  recv,        \* uart_ch.recv
  tx_left,     \* uart_tx: clocks left of the character being sent
  rx_left, rx_byte, has_byte,          \* uart_rx
  recv_rsp_raw_valid_d, recv_rsp,      \* uart: the buffer: data, valid, ready
  written_tx, sent, got, taken,        \* history: bytes written, sent, read; buffered
  meant,       \* history: the byte pending when the read in MEM came there, 0 none
  raced        \* history: a byte was buffered while a read was held in MEM

software == <<uart_mem, uart_wbk, since, allowed>>
registers == <<send_req, uart_rv_ctrl, recv, tx_left, rx_left, rx_byte, has_byte,
               recv_rsp_raw_valid_d, recv_rsp>>
uvars == <<software, registers, written_tx, sent, got, taken, meant, raced>>

UartInit ==
  /\ uart_mem = [op |-> "none", hold |-> 0] /\ uart_wbk = "none"
  /\ since = [rx |-> RxSettle, tx |-> TxSettle] /\ allowed = {}
  /\ send_req = [valid |-> FALSE, data |-> 0]
  /\ uart_rv_ctrl = [rx_valid |-> FALSE, tx_ready |-> FALSE]
  /\ recv = 0 /\ tx_left = 0
  /\ rx_left = 0 /\ rx_byte = 0 /\ has_byte = FALSE
  /\ recv_rsp_raw_valid_d = FALSE
  /\ recv_rsp = [data |-> 0, valid |-> FALSE, ready |-> FALSE]
  /\ written_tx = << >> /\ sent = << >> /\ got = << >> /\ taken = {}
  /\ meant = 0 /\ raced = FALSE

-----------------------------------------------------------------------------
(* The core and the software on it.                                         *)

\* A poll in WBK allows what it read.
AllowedNow ==
  IF uart_wbk = "poll"
    THEN (IF recv.rx_valid THEN {"rx"} ELSE {}) \cup (IF recv.tx_ready THEN {"tx"} ELSE {})
    ELSE allowed

\* The clocks between the last access of that kind and the next access.
Since(op, most) ==
  IF uart_mem.op = op THEN 0 ELSE IF since[op] < most THEN since[op] + 1 ELSE most

MayPoll ==
  uart_mem.op # "poll" /\ Since("rx", RxSettle) >= RxSettle
                       /\ Since("tx", TxSettle) >= TxSettle

\* What comes to MEM when it is free.  Only an instruction of the data cache
\* before it makes it stay there, so it does not follow another access.
NextAccess(op, hold) ==
  /\ op \in {"none"} \cup AllowedNow \cup (IF MayPoll THEN {"poll"} ELSE {})
  /\ op = "tx" => Len(written_tx) < MaxTx
  /\ hold > 0 => op # "none" /\ uart_mem.op = "none"

Software ==
  /\ since' = [rx |-> Since("rx", RxSettle), tx |-> Since("tx", TxSettle)]
  /\ uart_wbk' = IF uart_mem.hold = 0 THEN uart_mem.op ELSE "none"
  /\ IF uart_mem.hold > 0
       THEN /\ uart_mem' = [uart_mem EXCEPT !.hold = @ - 1]
            /\ allowed' = AllowedNow
            /\ UNCHANGED <<written_tx, meant>>
       ELSE \E op \in {"none", "poll", "rx", "tx"}, hold \in 0 .. MaxHold :
              /\ NextAccess(op, hold)
              /\ uart_mem' = [op |-> op, hold |-> hold]
              /\ allowed' = IF op = "poll" THEN {} ELSE AllowedNow \ {op}
              /\ written_tx' = IF op = "tx" THEN Append(written_tx, Len(written_tx) + 1)
                                            ELSE written_tx
              /\ meant' = IF op = "rx" THEN recv_rsp.data' ELSE 0

-----------------------------------------------------------------------------
(* ama_riscv_uart.                                                          *)

raw_valid == has_byte /\ rx_left = 0

SendRequest ==
  send_req' = IF uart_mem.op = "tx" THEN [valid |-> TRUE, data |-> Len(written_tx)]
                                    ELSE [valid |-> FALSE, data |-> 0]

\* Fault: a byte the transmitter has not yet begun does not count.
ControlNoValid ==
  uart_rv_ctrl' = [rx_valid |-> recv_rsp.valid, tx_ready |-> tx_left = 0]

Control ==
  uart_rv_ctrl' = [rx_valid |-> recv_rsp.valid,
                   tx_ready |-> tx_left = 0 /\ ~send_req.valid]

Read ==
  recv' = CASE uart_mem.op = "poll" -> uart_rv_ctrl
            [] uart_mem.op = "rx" -> recv_rsp.data
            [] OTHER -> 0

\* A poll leaves the register as it is.
Ready ==
  CASE uart_mem.op = "rx" -> TRUE
    [] uart_mem.op = "poll" -> recv_rsp.ready
    [] OTHER -> FALSE

-----------------------------------------------------------------------------
(* uart: the receive buffer, uart_tx and uart_rx.                           *)

\* Fault: a byte that arrives replaces the one in the buffer.
take_new_data_always == raw_valid /\ ~recv_rsp_raw_valid_d

take_new_data == raw_valid /\ ~recv_rsp_raw_valid_d /\ ~recv_rsp.valid

Buffer ==
  /\ recv_rsp_raw_valid_d' = raw_valid
  /\ recv_rsp' = [data |-> IF take_new_data THEN rx_byte ELSE recv_rsp.data,
                  valid |-> take_new_data \/ (recv_rsp.valid /\ ~recv_rsp.ready),
                  ready |-> Ready]
  /\ taken' = IF take_new_data THEN taken \cup {rx_byte} ELSE taken
  /\ raced' = (raced \/ (take_new_data /\ uart_mem.op = "rx"))

Transmit ==
  LET start == send_req.valid /\ tx_left = 0
  IN  /\ tx_left' = IF start THEN CHAR ELSE IF tx_left > 0 THEN tx_left - 1 ELSE 0
      /\ sent' = IF start THEN Append(sent, send_req.data) ELSE sent

\* A character may begin whenever none is on the line.
Receive ==
  /\ has_byte' = (rx_left = 1 \/ (has_byte /\ recv_rsp.valid))
  /\ \/ /\ rx_left = 0 /\ rx_byte < MaxRx
        /\ rx_left' = CHAR /\ rx_byte' = rx_byte + 1
     \/ /\ rx_left' = IF rx_left > 0 THEN rx_left - 1 ELSE 0
        /\ UNCHANGED rx_byte

Retire == got' = IF uart_wbk = "rx" THEN Append(got, recv) ELSE got

UartClock ==
  /\ SendRequest /\ Control /\ Read /\ Buffer /\ Transmit /\ Receive /\ Retire
  /\ Software

UartSpec == UartInit /\ [][UartClock]_uvars

-----------------------------------------------------------------------------
\* Every byte software writes when a poll allows it is sent, once and in order,
\* also when its store is held in MEM and given to the UART again and again: one
\* is on its way at most.
SentOnce ==
  /\ IsPrefix(sent, written_tx)
  /\ Len(written_tx) - Len(sent) <= 1
  /\ Len(written_tx) > Len(sent) => uart_mem.op = "tx" \/ send_req.valid

\* Software gets the bytes in their order and none twice; and a byte the buffer has
\* taken is returned by a read, is still pending, or is on its way to the core
\* (ama_riscv_uart.sv:18).  The exception is a byte that is buffered while a read
\* of its predecessor is held in MEM: see the README, section 5.
ReceivedOnce ==
  /\ \A m, n \in DOMAIN got : m < n => got[m] < got[n]
  /\ ~raced =>
       taken \subseteq ToSet(got) \cup (IF recv_rsp.valid THEN {recv_rsp.data} ELSE {})
                         \cup {meant} \cup (IF uart_wbk = "rx" THEN {recv} ELSE {})

-----------------------------------------------------------------------------
(* The inductive invariant behind the two.                                  *)

UartTypeOK ==
  /\ uart_mem \in [op : {"none", "poll", "rx", "tx"}, hold : Nat]
  /\ uart_wbk \in {"none", "poll", "rx", "tx"}
  /\ since \in [rx : Nat, tx : Nat] /\ allowed \subseteq {"rx", "tx"}
  /\ send_req \in [valid : BOOLEAN, data : Nat]
  /\ uart_rv_ctrl \in [rx_valid : BOOLEAN, tx_ready : BOOLEAN]
  /\ tx_left \in Nat /\ rx_left \in Nat /\ rx_byte \in Nat
  /\ has_byte \in BOOLEAN /\ recv_rsp_raw_valid_d \in BOOLEAN
  /\ recv_rsp \in [data : Nat, valid : BOOLEAN, ready : BOOLEAN]
  /\ written_tx \in Seq(Nat) /\ sent \in Seq(Nat) /\ got \in Seq(Nat)
  /\ meant \in Nat /\ raced \in BOOLEAN

\* Software polls once, and only then accesses what the poll allowed.
PollFirst == uart_mem.op = "poll" => allowed = {} /\ uart_wbk # "poll"

\* c holds from the poll that has seen it to the access it allows.
AllowedBy(op, seen, c) ==
  /\ op \in AllowedNow => c
  /\ uart_mem.op = "poll" /\ seen => c

\* Nothing is on its way to the line.
TxQuiet ==
  tx_left = 0 /\ ~send_req.valid /\ uart_mem.op # "tx" /\ sent = written_tx

\* A byte that is sent stays in MEM no longer than its character takes.
TxInv ==
  IF sent = written_tx
    THEN /\ uart_mem.op = "tx" => send_req.valid /\ tx_left >= uart_mem.hold + 2
         /\ send_req.valid => tx_left >= 1
    ELSE /\ written_tx = Append(sent, Len(sent) + 1)
         /\ tx_left = 0 /\ (uart_mem.op = "tx" \/ send_req.valid)
         /\ uart_mem.op = "tx" =>
              uart_mem.hold + (IF send_req.valid THEN 1 ELSE 0) <= CHAR
         /\ send_req.valid => send_req.data = Len(written_tx)

\* What software has, or has in WBK; the byte of the buffer is not among it.
Consumed(b) == b \in ToSet(got) \/ (uart_wbk = "rx" /\ b = recv)
Unread == \A b \in Nat : Consumed(b) => b < recv_rsp.data

RxFresh ==
  recv_rsp.valid /\ ~recv_rsp.ready /\ uart_mem.op # "rx" /\ Unread

RxInv ==
  /\ rx_byte >= recv_rsp.data
  /\ rx_left > 0 \/ has_byte => rx_byte > recv_rsp.data
  /\ recv_rsp.ready => since.rx = 0 /\ uart_mem.op # "poll"
  /\ \A b \in Nat : Consumed(b) => b <= recv_rsp.data
  /\ recv_rsp.valid /\ ~recv_rsp.ready => Unread
  /\ uart_mem.op = "rx" => Unread
  /\ uart_wbk = "rx" => recv \in Nat /\ \A n \in DOMAIN got : got[n] < recv
  /\ \A m, n \in DOMAIN got : m < n => got[m] < got[n]

\* Where the byte is that the buffer lets go.
TakenInv ==
  /\ uart_mem.op # "rx" => meant = 0
  /\ \A b \in taken : b \in Nat \ {0}
  /\ ~raced =>
       /\ uart_mem.op = "rx" => meant = recv_rsp.data
       /\ recv_rsp.ready => Consumed(recv_rsp.data) \/ meant = recv_rsp.data
       /\ \A b \in taken : \/ Consumed(b) \/ b = meant
                           \/ recv_rsp.valid /\ b = recv_rsp.data

UartInv ==
  /\ UartTypeOK /\ PollFirst
  /\ AllowedBy("tx", uart_rv_ctrl.tx_ready, TxQuiet) /\ TxInv
  /\ AllowedBy("rx", uart_rv_ctrl.rx_valid, RxFresh) /\ RxInv
  /\ TakenInv

=============================================================================
