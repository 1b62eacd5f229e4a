----------------------------- MODULE KissCodec ------------------------------
(***************************************************************************)
(* The KISS framing of hardware/kiss_modem_wrapper.py and                  *)
(* hardware/kiss_serial_wrapper.py: the encoder, the decoder that takes    *)
(* one byte at a time, and the bulk decoder the RX workers use, which is   *)
(* fed whatever one read returned and keeps its state from chunk to chunk. *)
(* The wrappers differ in two details, given by wrapper.                   *)
(***************************************************************************)
EXTENDS Naturals, SequencesExt

CONSTANTS
  MaxFrameSize,          \* MAX_FRAME_SIZE
  MaxBytes, MaxChunk,    \* bounds on the bytes received, and received at once
  Payloads               \* the frames of the properties, none of them too long

FEND == "FEND"
FESC == "FESC"
TFEND == "TFEND"
TFESC == "TFESC"
Byte == {FEND, FESC, TFEND, TFESC, "x"}

(* What is assumed of the constants.                                       *)
CodecAssumption ==
  /\ MaxFrameSize \in Nat \ {0} /\ MaxBytes \in Nat /\ MaxChunk \in Nat \ {0}
  /\ \A p \in Payloads : p \in Seq(Byte) /\ Len(p) \in 2..MaxFrameSize
                         /\ Head(p) \notin {FEND, FESC}

VARIABLES
  wrapper,   \* which of the two wrappers runs
  decoder,   \* rx_frame_buffer, in_frame, escaped and the frames processed
  stream     \* history: all the bytes received

vars == <<wrapper, decoder, stream>>

(* shortest: a shorter buffer is no frame; capped: MAX_FRAME_SIZE also     *)
(* bounds the bytes that were escaped.                                     *)
Modem  == [shortest |-> 1, capped |-> FALSE]
Serial == [shortest |-> 2, capped |-> TRUE]

Idle == [buf |-> <<>>, in |-> FALSE, esc |-> FALSE, out |-> <<>>]

Init == wrapper \in {Modem, Serial} /\ decoder = Idle /\ stream = <<>>

-----------------------------------------------------------------------------
(* _encode_kiss_frame: the first byte of p is the type byte. *)

Escaped(b) ==
  CASE b = FEND -> <<FESC, TFEND>>
    [] b = FESC -> <<FESC, TFESC>>
    [] OTHER    -> <<b>>

Encode(p) ==
  <<FEND, Head(p)>> \o FoldLeft(LAMBDA f, b : f \o Escaped(b), <<>>, Tail(p)) \o <<FEND>>

SerialEncode(p) == Encode(p)

-----------------------------------------------------------------------------
(* What the decoders share. *)

Resync(d) == [d EXCEPT !.buf = <<>>, !.in = FALSE]

(* A FEND ends the frame in the buffer, if there is one, and starts the    *)
(* next.                                                                   *)
AtFend(w, d) ==
  [buf |-> <<>>, in |-> TRUE, esc |-> FALSE,
   out |-> IF d.in /\ Len(d.buf) >= w.shortest THEN Append(d.out, d.buf) ELSE d.out]

AtFesc(d) == [d EXCEPT !.esc = d.in \/ @]

Unescaped(w, d, b) ==
  LET e == [d EXCEPT !.esc = FALSE]
  IN  IF b \notin {TFEND, TFESC} \/ (w.capped /\ Len(d.buf) >= MaxFrameSize)
      THEN Resync(e)
      ELSE [e EXCEPT !.buf = Append(@, IF b = TFEND THEN FEND ELSE FESC)]

(* _decode_kiss_byte. *)
DecodeByte(w, d, b) ==
  CASE b = FEND -> AtFend(w, d)
    [] b = FESC -> AtFesc(d)
    [] b \notin {FEND, FESC} /\ d.esc -> Unescaped(w, d, b)
    [] b \notin {FEND, FESC} /\ ~d.esc /\ d.in ->
         IF Len(d.buf) >= MaxFrameSize THEN Resync(d) ELSE [d EXCEPT !.buf = Append(@, b)]
    [] OTHER -> d

ModemDecodeByte(d, b) == DecodeByte(Modem, d, b)
SerialDecodeByte(d, b) == DecodeByte(Serial, d, b)

(* A run of plain bytes is copied up to the limit, or drops the frame. *)
CopyRun(d, run) ==
  IF run = <<>> \/ ~d.in THEN d
  ELSE IF Len(run) <= MaxFrameSize - Len(d.buf) THEN [d EXCEPT !.buf = @ \o run]
  ELSE Resync(d)

(* One turn of the loop of _decode_kiss: an escaped byte, or a run of      *)
(* plain bytes and the delimiter behind it, whichever it is.               *)
RunLength(data) ==
  IF \E i \in DOMAIN data : data[i] \in {FEND, FESC}
  THEN (CHOOSE i \in DOMAIN data :
          data[i] \in {FEND, FESC} /\ \A j \in 1..(i - 1) : data[j] \notin {FEND, FESC}) - 1
  ELSE Len(data)

(* Mutant of AtDelimiter: the escape is not carried over to the next byte  *)
(* when the chunk ends with it.                                            *)
AtDelimiterForgets(w, d, data, n) ==
  IF data[n + 1] = FEND THEN AtFend(w, d)
  ELSE IF n + 1 = Len(data) THEN d ELSE AtFesc(d)
(* Mutant of AtDelimiter: a FEND ends a frame without starting the next.   *)
AtDelimiterEnds(w, d, data, n) ==
  IF data[n + 1] = FEND THEN [AtFend(w, d) EXCEPT !.in = ~d.in] ELSE AtFesc(d)

AtDelimiter(w, d, data, n) ==
  IF data[n + 1] = FEND THEN AtFend(w, d) ELSE AtFesc(d)

RECURSIVE Decode(_, _, _)
Decode(w, d, data) ==
  IF data = <<>> THEN d
  ELSE IF d.esc THEN Decode(w, Unescaped(w, d, Head(data)), Tail(data))
  ELSE LET n == RunLength(data)
           e == CopyRun(d, SubSeq(data, 1, n))
       IN  IF n = Len(data) THEN e
           ELSE Decode(w, AtDelimiter(w, e, data, n), SubSeq(data, n + 2, Len(data)))

ModemDecode(d, data) == Decode(Modem, d, data)
SerialDecode(d, data) == Decode(Serial, d, data)

-----------------------------------------------------------------------------
(* The RX worker reads a chunk and decodes it. *)
Read(chunk) ==
  /\ Len(stream) + Len(chunk) <= MaxBytes
  /\ decoder' = IF wrapper = Modem THEN ModemDecode(decoder, chunk)
                ELSE SerialDecode(decoder, chunk)
  /\ stream' = stream \o chunk
  /\ UNCHANGED wrapper

Next == \E n \in 1..MaxChunk : \E chunk \in [1..n -> Byte] : Read(chunk)

Spec == Init /\ [][Next]_vars

-----------------------------------------------------------------------------
(* The byte at a time decoder on the same bytes. *)
ByteByByte ==
  FoldLeft(LAMBDA d, b : IF wrapper = Modem THEN ModemDecodeByte(d, b) ELSE SerialDecodeByte(d, b),
           Idle, stream)

(* Every FESC of the stream is followed by TFEND or TFESC. *)
WellEscaped ==
  \A i \in 1..(Len(stream) - 1) : stream[i] = FESC => stream[i + 1] \in {TFEND, TFESC}

(* On a stream whose escape sequences are valid the bulk decoder does what *)
(* the decoder it replaces does: frames, limit and resynchronisation.      *)
AgreesWhenValid == WellEscaped => decoder = ByteByByte

(* After any garbage at all, a frame that follows is decoded, unless the   *)
(* garbage ended in an escape; the frame after it is decoded even then.    *)
Resyncs ==
  \A p \in Payloads :
    LET f == IF wrapper = Modem THEN Encode(p) ELSE SerialEncode(p)
        once == Decode(wrapper, decoder, f)
        twice == Decode(wrapper, once, f)
    IN  /\ ~decoder.esc => once.out # <<>> /\ Last(once.out) = p
        /\ twice.out # <<>> /\ Last(twice.out) = p

=============================================================================
