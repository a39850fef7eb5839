------------------------------ MODULE WireFormat ------------------------------
(***************************************************************************)
(* The message of tcp_client, and what tcp_server makes of it: three ints, *)
(* a long long and an unsigned int, each sent byte by byte with the least  *)
(* first.  Numbers are split and put together again by masks and shifts,   *)
(* so that a negative one travels as its two's complement.                 *)
(***************************************************************************)
EXTENDS Integers, Sequences

CONSTANT Byte   \* 256, the values of an unsigned char

ASSUME ByteOK == Byte \in Nat \ {0} /\ Byte % 2 = 0

TwoTo16 == Byte * Byte
TwoTo32 == TwoTo16 * TwoTo16

Bytes == 0..Byte - 1

\* Byte k of a number, as (0xff.. & i) >> 8k gives it.
Digit(i, unit) == (i \div unit) % Byte

int32_to_byte(i) ==
  <<Digit(i, 1), Digit(i, Byte), Digit(i, TwoTo16), Digit(i, TwoTo16 * Byte)>>

int64_to_byte(i) == int32_to_byte(i) \o int32_to_byte(i \div TwoTo32)

\* An int with these 32 bits.
AsInt(n) == IF n % TwoTo32 < TwoTo32 \div 2
              THEN n % TwoTo32
              ELSE (n % TwoTo32) - TwoTo32

\* The 32 bits that begin at byte k + 1.
Low(b, k) == b[k + 1] + b[k + 2] * Byte
               + b[k + 3] * TwoTo16 + b[k + 4] * (TwoTo16 * Byte)

\* Bug: the bytes are taken in the order of the network.
AsIntBigEndian(b, k) ==
  AsInt(b[k + 4] + b[k + 3] * Byte
          + b[k + 2] * TwoTo16 + b[k + 1] * (TwoTo16 * Byte))

bytes_to_int32(b, k) == AsInt(Low(b, k))

\* bytes_to_int64() puts 64 bits together, and returns an int.
bytes_to_int64(b, k) == AsInt(Low(b, k) + Low(b, k + 4) * TwoTo32)

-----------------------------------------------------------------------------
(* The buffers of print_msg() and process_conn_server().                   *)

MessageBytes == 50
UsedBytes    == 24
Padding      == [i \in 1..MessageBytes - UsedBytes |-> 0]

Encode(m) == int32_to_byte(m.hour) \o int32_to_byte(m.min)
               \o int32_to_byte(m.sec) \o int64_to_byte(m.tv_sec)
               \o int32_to_byte(m.tv_nsec) \o Padding

\* bzero(), and a read of size bytes.
Received(buf, size) == [i \in 1..MessageBytes |-> IF i <= size THEN buf[i] ELSE 0]

\* ts_nsec is an unsigned int.
Decode(b) == [hour    |-> bytes_to_int32(b, 0),
              min     |-> bytes_to_int32(b, 4),
              sec     |-> bytes_to_int32(b, 8),
              tv_sec  |-> bytes_to_int64(b, 12),
              tv_nsec |-> bytes_to_int32(b, 20) % TwoTo32]
=============================================================================
