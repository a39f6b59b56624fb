---------------------------- MODULE AudioFormats ----------------------------
(***************************************************************************)
(* audio_processor.go: conversions of a message's samples, as sequences of *)
(* bytes, before they are written to the raw file.                         *)
(***************************************************************************)
EXTENDS Integers, Sequences

Byte == 0..255

\* A byte and a little-endian 16-bit word, read as two's complement.
Int8(b) == IF b < 128 THEN b ELSE b - 256
Uint16(low, high) == low + 256 * high
Int16(w) == IF w < 32768 THEN w ELSE w - 65536

Bytes8(n) == <<n % 256>>
Bytes16(n) == <<n % 256, (n \div 256) % 256>>

\* byte(int8(b - 128)): the unsigned sample centred around zero.
Int8Process(data) == [i \in DOMAIN data |-> Bytes8(data[i] - 128)[1]]

\* Every word is read as an int16 and written back.
Int16Process(data) ==
    [i \in DOMAIN data |->
        LET low == IF i % 2 = 1 THEN i ELSE i - 1
            sample == Int16(Uint16(data[low], data[low + 1]))
        IN Bytes16(sample)[i - low + 1]]

\* 24-bit and float samples are copied.
CopyProcess(data) == data

\* ValidateAndGetProcessor: no format means 8 bits.
Int8Format == {"", "i8", "int8", "pcm8", "8"}
Int16Format == {"i16", "int16", "pcm16", "16"}
Int24Format == {"i24", "int24", "pcm24", "24"}
Float32Format == {"f32", "float32", "float", "32"}

\* Bytes per sample; zero for a format that has no processor.
Width(format) ==
    CASE format \in Int8Format -> 1
      [] format \in Int16Format -> 2
      [] format \in Int24Format -> 3
      [] format \in Float32Format -> 4
      [] OTHER -> 0

\* An empty message, an unknown format and an incomplete sample are errors.
Accepts(format, data) ==
    /\ data # <<>>
    /\ Width(format) # 0
    /\ Len(data) % Width(format) = 0

Process(format, data) ==
    CASE format \in Int8Format -> Int8Process(data)
      [] format \in Int16Format -> Int16Process(data)
      [] OTHER -> CopyProcess(data)
=============================================================================
