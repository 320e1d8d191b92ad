------------------------------- MODULE XModem -------------------------------
(***************************************************************************)
(* XMODEM file transfer (src/src/xmodem.c), byte by byte over a serial     *)
(* line with noise: the receiver that the RAM loaders use, and at the      *)
(* other end the sender of the same file.  A block is SOH, its number, the *)
(* complement of that, the data and their sum; it is answered by one byte. *)
(* Neither side has a timeout.                                             *)
(***************************************************************************)
EXTENDS Integers, FiniteSets, Sequences, SequencesExt

CONSTANTS
  Files,       \* what can be sent: sequences of blocks, which are sequences of bytes
  DataLen,     \* XMODEM_BLOCK_SIZE: 128
  MaxRetry,    \* retries on either side: 10
  Lines        \* serial lines: what a byte can turn into, the parts of the
               \* traffic that noise can hit, whether it can make a byte
               \* disappear, and how many bytes it hits (a bound)

SOH == 1
EOT == 4
ACK == 6
NAK == 21
CAN == 24

ASSUME XModemAssumption ==
  /\ DataLen \in Nat \ {0} /\ MaxRetry \in 1..254
  /\ \A f \in Files : f # <<>> /\ f \in Seq([1..DataLen -> 0..255])
  /\ \A l \in Lines : /\ l.noise \subseteq 0..255 /\ l.parts \subseteq {"head", "payload", "reply"}
                      /\ l.loses \in BOOLEAN /\ l.faults \in Nat

VARIABLES
  file,      \* the file that is sent
  tx,        \* the sender: "start", "block", "finish", or how it ended
  sent,      \* blocks the sender is done with
  tries,     \* its retries left
  waiting,   \* it has written and polls for the answer
  rx,        \* the receiver: what it reads next, or how xmodem_recv_block ended
  idx,       \* xmodem_idx of the receiver, uint8_t
  retry,     \* xmodem_retry
  data,      \* the bytes of the block being read
  received,  \* the blocks that xmodem_recv_block has returned
  line,      \* the line between them
  down, up,  \* the bytes on it, each with the part it belongs to
  faults     \* how many it has hit

sender == <<file, tx, sent, tries, waiting>>
receiver == <<rx, idx, retry, data, received>>
vars == <<sender, receiver, line, down, up, faults>>

RxEnds == {"complete", "self_cancel", "cancel", "error"}
TxEnds == {"ok", "self_cancel", "cancel", "error"}

Byte(v, p) == [val |-> v, part |-> p]

Checksum(d) == FoldSeq(+, 0, d) % 256
Reply(b) == up' = Append(up, Byte(b, "reply"))

\* xmodem_write_block, with the sender's block number n (uint8_t).
Frame(n, d) ==
  <<Byte(SOH, "head"), Byte(n % 256, "head"), Byte(255 - (n % 256), "head")>>
    \o [k \in 1..DataLen |-> Byte(d[k], "payload")]
    \o <<Byte(Checksum(d), "payload")>>

-----------------------------------------------------------------------------
(* The sender.                                                             *)

\* xmodem_send_start: wait for NAK.
SendStart ==
  /\ tx = "start" /\ up # <<>>
  /\ up' = Tail(up)
  /\ tx' = CASE Head(up).val = CAN -> "cancel"
             [] Head(up).val = NAK -> "block"
             [] OTHER -> "start"
  /\ UNCHANGED <<file, sent, tries, waiting, receiver, down, line, faults>>

\* xmodem_send_block and xmodem_send_finish: write, unless the retries are
\* used up.
SendWrite ==
  /\ tx \in {"block", "finish"} /\ ~waiting
  /\ IF tries = 0
     THEN tx' = "error" /\ UNCHANGED <<tries, waiting, down>>
     ELSE /\ tries' = tries - 1
          /\ waiting' = TRUE
          /\ down' = down \o (IF tx = "block" THEN Frame(sent + 1, file[sent + 1])
                                              ELSE <<Byte(EOT, "head")>>)
          /\ UNCHANGED tx
  /\ UNCHANGED <<file, sent, receiver, up, line, faults>>

\* ... and look at the answer; after the last block the file is finished.
SendAnswer ==
  /\ tx \in {"block", "finish"} /\ waiting /\ up # <<>>
  /\ up' = Tail(up)
  /\ CASE Head(up).val = CAN ->
            tx' = "cancel" /\ waiting' = FALSE /\ UNCHANGED <<sent, tries>>
       [] Head(up).val = NAK ->
            waiting' = FALSE /\ UNCHANGED <<tx, sent, tries>>
       [] Head(up).val = ACK ->
            /\ waiting' = FALSE /\ tries' = MaxRetry
            /\ IF tx = "finish" THEN tx' = "ok" /\ UNCHANGED sent
               ELSE /\ sent' = sent + 1
                    /\ tx' = IF sent' = Len(file) THEN "finish" ELSE "block"
       [] OTHER -> UNCHANGED <<tx, sent, tries, waiting>>
  /\ UNCHANGED <<file, receiver, down, line, faults>>

\* The B button, polled while waiting.
SendCancel ==
  /\ tx = "start" \/ (tx \in {"block", "finish"} /\ waiting)
  /\ tx' = "self_cancel"
  /\ UNCHANGED <<file, sent, tries, waiting, receiver, down, up, line, faults>>

-----------------------------------------------------------------------------
(* The receiver: xmodem_recv_start, then xmodem_recv_block until it ends.  *)

\* xmodem_recv_block asks: for more, or for the same again.
RecvAsk ==
  /\ rx = "ask"
  /\ Reply(IF retry # 0 THEN NAK ELSE ACK)
  /\ rx' = "head"
  /\ UNCHANGED <<idx, retry, data, received, sender, down, line, faults>>

\* Mutants: a bad block is acknowledged; the first error is the last one.
AgainAcknowledged == retry' = 0 /\ rx' = "ask"
AgainNever == retry' = (retry + 1) % 256 /\ rx' = IF retry' > 1 THEN "error" ELSE "ask"

\* recv_block_error.
Again ==
  /\ retry' = (retry + 1) % 256
  /\ rx' = IF retry' > MaxRetry THEN "error" ELSE "ask"

\* The first byte of a block, or what is taken for it.
RecvHead ==
  /\ rx = "head" /\ down # <<>>
  /\ down' = Tail(down)
  /\ LET r == Head(down).val
     IN CASE r = CAN -> rx' = "cancel" /\ UNCHANGED <<retry, up>>
          [] r = EOT -> rx' = "complete" /\ Reply(ACK) /\ UNCHANGED retry
          [] r = SOH -> rx' = "idx" /\ UNCHANGED <<retry, up>>
          [] OTHER -> Again /\ UNCHANGED up
  /\ data' = <<>>
  /\ UNCHANGED <<idx, received, sender, line, faults>>

\* Mutant: any block number will do.
RecvAnyIdx ==
  /\ rx \in {"idx", "inverse"} /\ down # <<>>
  /\ down' = Tail(down)
  /\ rx' = (IF rx = "idx" THEN "inverse" ELSE "data")
  /\ UNCHANGED <<idx, retry, data, received, sender, up, line, faults>>

\* xmodem_read_block: a wrong block number, or one garbled, ends it all.
RecvIdx ==
  /\ rx \in {"idx", "inverse"} /\ down # <<>>
  /\ down' = Tail(down)
  /\ IF Head(down).val = (IF rx = "idx" THEN idx ELSE 255 - idx)
     THEN rx' = (IF rx = "idx" THEN "inverse" ELSE "data") /\ UNCHANGED up
     ELSE rx' = "error" /\ Reply(CAN)
  /\ UNCHANGED <<idx, retry, data, received, sender, line, faults>>

RecvData ==
  /\ rx = "data" /\ down # <<>> /\ Len(data) < DataLen
  /\ down' = Tail(down)
  /\ data' = Append(data, Head(down).val)
  /\ UNCHANGED <<rx, idx, retry, received, sender, up, line, faults>>

RecvSum ==
  /\ rx = "data" /\ down # <<>> /\ Len(data) = DataLen
  /\ down' = Tail(down)
  /\ IF Head(down).val = Checksum(data)
     THEN /\ received' = Append(received, data)
          /\ idx' = (idx + 1) % 256 /\ retry' = 0 /\ rx' = "ask"
     ELSE Again /\ UNCHANGED <<idx, received>>
  /\ data' = <<>>
  /\ UNCHANGED <<sender, up, line, faults>>

\* The B button, polled only between blocks.
RecvCancel ==
  /\ rx = "head"
  /\ rx' = "self_cancel"
  /\ UNCHANGED <<idx, retry, data, received, sender, down, up, line, faults>>

-----------------------------------------------------------------------------
\* Noise turns the byte that arrives next into another one, or swallows it.
Spoilt(bytes) ==
  {[bytes EXCEPT ![1].val = v] : v \in line.noise \ {Head(bytes).val}}
    \cup (IF line.loses THEN {Tail(bytes)} ELSE {})
CanHit(bytes) == bytes # <<>> /\ Head(bytes).part \in line.parts
Hit ==
  /\ faults < line.faults /\ faults' = faults + 1
  /\ \/ CanHit(down) /\ down' \in Spoilt(down) /\ UNCHANGED up
     \/ CanHit(up) /\ up' \in Spoilt(up) /\ UNCHANGED down
  /\ UNCHANGED <<sender, receiver, line>>

Init ==
  /\ file \in Files
  /\ tx = "start" /\ sent = 0 /\ tries = MaxRetry /\ waiting = FALSE
  /\ rx = "ask" /\ idx = 1 /\ retry = 1
  /\ data = <<>> /\ received = <<>>
  /\ line \in Lines
  /\ down = <<>> /\ up = <<>>
  /\ faults = 0

Send == SendStart \/ SendWrite \/ SendAnswer
Receive == RecvAsk \/ RecvHead \/ RecvIdx \/ RecvData \/ RecvSum

Next ==
  \/ Send \/ SendCancel
  \/ Receive \/ RecvCancel
  \/ Hit

Spec == Init /\ [][Next]_vars

-----------------------------------------------------------------------------
Bytes == [val : 0..255, part : {"head", "payload", "reply"}]
OnLine(s) == \A k \in DOMAIN s : s[k] \in Bytes

TypeOK ==
  /\ tx \in {"start", "block", "finish"} \cup TxEnds
  /\ file \in Files /\ sent \in 0..Len(file) /\ tries \in 0..MaxRetry /\ waiting \in BOOLEAN
  /\ rx \in {"ask", "head", "idx", "inverse", "data"} \cup RxEnds
  /\ idx \in 0..255 /\ retry \in 0..255
  /\ Len(data) <= DataLen
  /\ OnLine(down) /\ OnLine(up)
  /\ line \in Lines /\ faults \in 0..line.faults

\* However blocks are repeated, answers garbled or headers mistaken, what has
\* been received is a beginning of the file: no block twice, none left out.
ReceivesInOrder == IsPrefix(received, file)

\* The sender never believes that more has arrived than has, unless an answer
\* was garbled: at most the block whose answer is on its way is ahead of it.  But
\* where a header can be, the receiver may take SOH for EOT and acknowledge that.
SenderNotAhead ==
  "reply" \notin line.parts =>
    \/ sent <= Len(received)
    \/ "head" \in line.parts /\ rx = "complete" /\ sent = Len(received) + 1

\* The sum shows whatever a line can make of a block's bytes and of the sum, as
\* it does when only one byte is hit: two errors can cancel.
SumShows(l) ==
  "payload" \in l.parts =>
    \A f \in Files : \A b \in DOMAIN f :
      LET whole == Append(f[b], Checksum(f[b]))
      IN  \A hit \in SUBSET DOMAIN whole : \A e \in [hit -> l.noise] :
            LET spoilt == [k \in DOMAIN whole |-> IF k \in hit THEN e[k] ELSE whole[k]]
            IN  Cardinality(hit) <= l.faults /\ spoilt # whole =>
                  spoilt[DataLen + 1] # Checksum(SubSeq(spoilt, 1, DataLen))
=============================================================================
