------------------------ MODULE FileRecordingsProofs ------------------------
(***************************************************************************)
(* Theorems about FileRecordings, for every set of recordings, ids,        *)
(* messages and replies, and every size of the words in a header.          *)
(***************************************************************************)
EXTENDS FileRecordings, NaturalsInduction, WellFoundedInduction, TLAPS

(***************************************************************************)
(* Conversions, headers and pieces of files.                               *)
(***************************************************************************)
LEMMA Remainder == ASSUME NEW a \in Int, NEW b \in Nat \ {0} PROVE a % b \in 0..(b - 1)
OBVIOUS

LEMMA SmallRemainder ==
    ASSUME NEW a \in Nat, NEW b \in Nat \ {0}, a < b PROVE a % b = a
OBVIOUS

LEMMA RemainderByte == \A a \in Int : a % 256 \in Byte
BY DEF Byte

LEMMA ByteNumbers == \A low, high \in Byte : low - 128 \in Int /\ Uint16(low, high) \in Int
BY DEF Byte, Uint16

LEMMA Int8Bytes == \A data \in Seq(Byte) : Int8Process(data) \in Seq(Byte)
<1> SUFFICES ASSUME NEW data \in Seq(Byte) PROVE Int8Process(data) \in Seq(Byte)
  OBVIOUS
<1>1. ASSUME NEW i \in 1..Len(data) PROVE Bytes8(data[i] - 128)[1] \in Byte
  <2>1. data[i] \in Byte
    OBVIOUS
  <2>2. data[i] - 128 \in Int
    BY <2>1, ByteNumbers
  <2> QED
    BY <2>2, RemainderByte DEF Bytes8
<1> QED
  BY <1>1 DEF Int8Process

LEMMA Int16Bytes ==
    \A data \in Seq(Byte) : Len(data) % 2 = 0 => Int16Process(data) \in Seq(Byte)
<1> SUFFICES ASSUME NEW data \in Seq(Byte), Len(data) % 2 = 0
             PROVE  Int16Process(data) \in Seq(Byte)
  OBVIOUS
<1> DEFINE Low(i) == IF i % 2 = 1 THEN i ELSE i - 1
           sample(i) == Int16(Uint16(data[Low(i)], data[Low(i) + 1]))
<1>1. ASSUME NEW i \in 1..Len(data) PROVE Bytes16(sample(i))[i - Low(i) + 1] \in Byte
  <2>1. Low(i) \in 1..Len(data) /\ Low(i) + 1 \in 1..Len(data) /\ i - Low(i) + 1 \in {1, 2}
    OBVIOUS
  <2>2. data[Low(i)] \in Byte /\ data[Low(i) + 1] \in Byte
    BY <2>1
  <2> HIDE DEF Low
  <2>3. sample(i) \in Int
    <3>1. Uint16(data[Low(i)], data[Low(i) + 1]) \in Int
      BY <2>2, ByteNumbers
    <3> QED
      BY <3>1 DEF Int16
  <2> HIDE DEF sample
  <2>4. sample(i) % 256 \in Byte /\ (sample(i) \div 256) % 256 \in Byte
    BY <2>3, RemainderByte
  <2> QED
    BY <2>1, <2>4 DEF Bytes16
<1>2. Int16Process(data) = [i \in 1..Len(data) |-> Bytes16(sample(i))[i - Low(i) + 1]]
  BY DEF Int16Process
<1> HIDE DEF sample, Low
<1> QED
  BY <1>1, <1>2

\* What is written for an accepted message are bytes.
LEMMA ProcessBytes ==
    ASSUME NEW format, NEW data \in Seq(Byte), Accepts(format, data)
    PROVE  Process(format, data) \in Seq(Byte)
<1>1. CASE format \in Int8Format
  <2>1. format \notin Int16Format
    BY <1>1 DEF Int8Format, Int16Format
  <2> QED
    BY <1>1, <2>1, Int8Bytes DEF Process
<1>2. CASE format \notin Int8Format /\ format \in Int16Format
  <2>1. Len(data) % 2 = 0
    <3>1. format \notin Int24Format /\ format \notin Float32Format
      BY <1>2 DEF Int16Format, Int24Format, Float32Format
    <3>2. Width(format) = 2
      BY <1>2, <3>1 DEF Width
    <3> QED
      BY <3>2 DEF Accepts
  <2> QED
    BY <1>2, <2>1, Int16Bytes DEF Process
<1>3. CASE format \notin Int8Format /\ format \notin Int16Format
  BY <1>3 DEF Process, CopyProcess
<1> QED
  BY <1>1, <1>2, <1>3

\* A word is written back as the two bytes it was read from.
LEMMA WordBack ==
    \A low, high \in Byte : Bytes16(Int16(Uint16(low, high))) = <<low, high>>
<1> SUFFICES ASSUME NEW low \in Byte, NEW high \in Byte
             PROVE  Bytes16(Int16(Uint16(low, high))) = <<low, high>>
  OBVIOUS
<1> DEFINE sample == Int16(low + 256 * high)
<1>1. sample = low + 256 * high \/ sample = low + 256 * (high - 256)
  BY DEF Byte, Int16
<1>2. sample % 256 = low /\ (sample \div 256) % 256 = high
  <2>1. \A n \in Int : (low + 256 * n) % 256 = low /\ (low + 256 * n) \div 256 = n
    BY DEF Byte
  <2>2. high % 256 = high /\ (high - 256) % 256 = high /\ high \in Int /\ high - 256 \in Int
    BY DEF Byte
  <2> HIDE DEF sample
  <2> QED
    BY <1>1, <2>1, <2>2
<1> QED
  BY <1>2 DEF Bytes16, Uint16

LEMMA Int16Kept == \A data \in Seq(Byte) : Len(data) % 2 = 0 => Int16Process(data) = data
<1> SUFFICES ASSUME NEW data \in Seq(Byte), Len(data) % 2 = 0
             PROVE  Int16Process(data) = data
  OBVIOUS
<1> DEFINE Low(i) == IF i % 2 = 1 THEN i ELSE i - 1
           out(i) == Bytes16(Int16(Uint16(data[Low(i)], data[Low(i) + 1])))[i - Low(i) + 1]
<1>1. ASSUME NEW i \in 1..Len(data) PROVE out(i) = data[i]
  <2>1. /\ Low(i) \in 1..Len(data) /\ Low(i) + 1 \in 1..Len(data)
        /\ i = Low(i) \/ i = Low(i) + 1
    OBVIOUS
  <2> HIDE DEF Low
  <2>2. data[Low(i)] \in Byte /\ data[Low(i) + 1] \in Byte
    BY <2>1
  <2>3. Bytes16(Int16(Uint16(data[Low(i)], data[Low(i) + 1]))) = <<data[Low(i)], data[Low(i) + 1]>>
    BY <2>2, WordBack
  <2> QED
    BY <2>1, <2>3
<1>2. Int16Process(data) = [i \in 1..Len(data) |-> out(i)]
  BY DEF Int16Process
<1> HIDE DEF out
<1>3. data = [i \in 1..Len(data) |-> data[i]]
  OBVIOUS
<1> QED
  BY <1>1, <1>2, <1>3

\* A sample of eight bits is written as the same level, centred around zero.
LEMMA Int8Centred ==
    \A data \in Seq(Byte) : \A i \in DOMAIN data :
        Int8(Int8Process(data)[i]) = data[i] - 128
<1> SUFFICES ASSUME NEW data \in Seq(Byte), NEW i \in DOMAIN data
             PROVE  Int8(Int8Process(data)[i]) = data[i] - 128
  OBVIOUS
<1>1. data[i] \in 0..255
  <2>1. i \in 1..Len(data) /\ data[i] \in Byte
    OBVIOUS
  <2> QED
    BY <2>1 DEF Byte
<1>2. Int8Process(data)[i] = (data[i] - 128) % 256
  BY DEF Int8Process, Bytes8
<1>3. \A b \in 0..255 : Int8((b - 128) % 256) = b - 128
  BY DEF Int8
<1> QED
  BY <1>1, <1>2, <1>3

\* No sample of an accepted message is changed on its way to the file: 16-bit,
\* 24-bit and float samples are written byte for byte, however many there are,
\* and an unsigned 8-bit sample as the same level around zero.
THEOREM SamplesKept ==
    ASSUME NEW format, NEW data \in Seq(Byte), Accepts(format, data)
    PROVE  /\ format \notin Int8Format => Process(format, data) = data
           /\ format \in Int8Format =>
                \A i \in DOMAIN data : Int8(Process(format, data)[i]) = data[i] - 128
<1>1. CASE format \in Int8Format
  <2>1. format \notin Int16Format
    BY <1>1 DEF Int8Format, Int16Format
  <2>2. Process(format, data) = Int8Process(data)
    BY <1>1, <2>1 DEF Process
  <2> QED
    BY <1>1, <2>2, Int8Centred
<1>2. CASE format \notin Int8Format /\ format \in Int16Format
  <2>1. format \notin Int24Format /\ format \notin Float32Format
    BY <1>2 DEF Int16Format, Int24Format, Float32Format
  <2>2. Width(format) = 2
    BY <1>2, <2>1 DEF Width
  <2>3. Len(data) % 2 = 0
    BY <2>2 DEF Accepts
  <2> QED
    BY <1>2, <2>3, Int16Kept DEF Process
<1>3. CASE format \notin Int8Format /\ format \notin Int16Format
  BY <1>3 DEF Process, CopyProcess
<1> QED
  BY <1>1, <1>2, <1>3

LEMMA HeaderWords == \A n \in Nat : Header(n) \in Word \X Word
<1> SUFFICES ASSUME NEW n \in Nat PROVE Header(n) \in Word \X Word
  OBVIOUS
<1>1. (n + 36) % WordSize \in Word /\ n % WordSize \in Word
  BY Remainder, BoundAssumption DEF Word
<1> QED
  BY <1>1 DEF Header

\* Up to 36 bytes below the size of a word the header tells the size of the data,
\* and of the file without its first eight bytes.
LEMMA HeaderTells ==
    \A n \in Nat : n + 36 < WordSize => Header(n) = <<n + 36, n>>
<1> SUFFICES ASSUME NEW n \in Nat, n + 36 < WordSize PROVE Header(n) = <<n + 36, n>>
  OBVIOUS
<1>1. WordSize \in Nat \ {0} /\ n \in Nat /\ n + 36 \in Nat /\ n < WordSize
  BY BoundAssumption
<1>2. n % WordSize = n
  BY <1>1, SmallRemainder
<1> DEFINE riff == n + 36
<1>3. riff % WordSize = riff
  <2>1. riff \in Nat /\ riff < WordSize
    BY <1>1
  <2> HIDE DEF riff
  <2> QED
    BY <1>1, <2>1, SmallRemainder
<1> QED
  BY <1>2, <1>3 DEF Header

LEMMA PrefixBytes == \A bytes \in Seq(Byte) : Prefixes(bytes) \subseteq Seq(Byte)
BY DEF Prefixes
(***************************************************************************)
(* The invariant: an id has one recording at a time, and where it is in    *)
(* its conversion says what its files hold.                                *)
(***************************************************************************)
NoOther(r) ==
    \A q \in Recording \ {r} : SidOf[q] = SidOf[r] => phase[q] \notin Active

Alone == \A r \in Recording : phase[r] \in Active => NoOther(r)

\* The raw file is closed.
Converted == Converting \ {"sync", "closeRaw"}

Stage(r) ==
    LET s == SidOf[r]
    IN /\ phase[r] \in Converting => audioSessions[s] \in AudioSession
       /\ phase[r] = "closeRaw" => audioSessions[s].file = "open"
       /\ phase[r] \in Converted => audioSessions[s].file = "nil"
       /\ phase[r] \in Converting \ {"sync"} =>
            /\ kept[s] # None
            /\ disk[s].tmp # None
            /\ disk[s].tmp.data = kept[s]
       /\ phase[r] \in {"header", "copy"} => disk[s].wav # None
       /\ phase[r] = "copy" => disk[s].wav.header = Header(Len(kept[s]))
       /\ phase[r] \in {"syncWav", "removeTmp"} => disk[s].wav = Wav(kept[s])

\* Behind an open descriptor is what was written for the latest raw file.
OpenFile(s) ==
    audioSessions[s] # None /\ audioSessions[s].file = "open" =>
        /\ disk[s].tmp # None
        /\ kept[s] # None
        /\ disk[s].tmp.data = kept[s]

\* The part of AudioSurvives that is about an id.
Survives(s) ==
    kept[s] # None =>
        \/ disk[s].tmp # None /\ disk[s].tmp.data = kept[s]
        \/ disk[s].wav = Wav(kept[s])

Inv ==
    /\ TypeOK
    /\ Alone
    /\ \A r \in Recording : Stage(r)
    /\ \A s \in SessionID : OpenFile(s) /\ Survives(s)

LEMMA InitInv == Init => Inv
<1> SUFFICES ASSUME Init PROVE Inv
  OBVIOUS
<1>1. TypeOK
  BY BoundAssumption DEF Init, TypeOK, Files
<1>2. \A r \in Recording : phase[r] = "idle"
  BY DEF Init
<1>3. Alone /\ \A r \in Recording : Stage(r)
  BY <1>2 DEF Alone, NoOther, Stage, Active, Converting, Converted
<1>4. \A s \in SessionID : OpenFile(s) /\ Survives(s)
  BY DEF Init, OpenFile, Survives
<1> QED
  BY <1>1, <1>3, <1>4 DEF Inv

(***************************************************************************)
(* A step of a recording leaves other recordings, and the files of other   *)
(* ids, alone: only its own part of the invariant is to be shown.          *)
(***************************************************************************)
Local(r) ==
    /\ \A q \in Recording \ {r} : phase'[q] = phase[q]
    /\ \A t \in SessionID \ {SidOf[r]} :
        /\ audioSessions'[t] = audioSessions[t]
        /\ disk'[t] = disk[t]
        /\ kept'[t] = kept[t]

LEMMA LocalStep ==
    ASSUME Inv, TypeOK', NEW r \in Recording, Local(r), NoOther(r),
           Stage(r)', OpenFile(SidOf[r])', Survives(SidOf[r])'
    PROVE  Inv'
<1>1. Alone'
  BY DEF Inv, Alone, NoOther, Local
<1>2. ASSUME NEW q \in Recording PROVE Stage(q)'
  <2>1. CASE q = r
    BY <2>1
  <2>2. CASE q # r /\ SidOf[q] = SidOf[r]
    <3>1. phase'[q] \notin Active
      BY <2>2 DEF Local, NoOther
    <3> QED
      BY <3>1 DEF Stage, Active, Converting, Converted
  <2>3. CASE SidOf[q] # SidOf[r]
    <3>1. SidOf[q] \in SessionID \ {SidOf[r]} /\ q # r /\ Stage(q)
      BY <2>3, RecordingAssumption DEF Inv
    <3> QED
      BY <3>1 DEF Stage, Local
  <2> QED
    BY <2>1, <2>2, <2>3
<1>3. ASSUME NEW s \in SessionID, s # SidOf[r] PROVE OpenFile(s)' /\ Survives(s)'
  <2>1. OpenFile(s) /\ Survives(s)
    BY DEF Inv
  <2>2. OpenFile(s)'
    BY <1>3, <2>1 DEF OpenFile, Local
  <2>3. Survives(s)'
    BY <1>3, <2>1 DEF Survives, Local
  <2> QED
    BY <2>2, <2>3
<1> QED
  BY <1>1, <1>2, <1>3 DEF Inv
(***************************************************************************)
(* The calls.                                                              *)
(***************************************************************************)
\* Files of which a part is written.
LEMMA WithData ==
    \A file \in File, bytes \in Seq(Byte) : [file EXCEPT !.data = bytes] \in File
BY DEF File

LEMMA WithTmp ==
    ASSUME NEW files \in [SessionID -> Files], NEW s \in SessionID, NEW file \in File \cup {None}
    PROVE  /\ [files EXCEPT ![s].tmp = file] \in [SessionID -> Files]
           /\ [files EXCEPT ![s].tmp = file][s].tmp = file
           /\ [files EXCEPT ![s].tmp = file][s].wav = files[s].wav
BY DEF Files

LEMMA WithWav ==
    ASSUME NEW files \in [SessionID -> Files], NEW s \in SessionID, NEW file \in File \cup {None}
    PROVE  /\ [files EXCEPT ![s].wav = file] \in [SessionID -> Files]
           /\ [files EXCEPT ![s].wav = file][s].wav = file
           /\ [files EXCEPT ![s].wav = file][s].tmp = files[s].tmp
BY DEF Files

LEMMA StartInv == 
    ASSUME Inv, NEW r \in Recording, Turn(r), StartSession(r) PROVE Inv'
<1> DEFINE s == SidOf[r]
<1>1. s \in SessionID
  BY RecordingAssumption
<1>2. /\ phase' = [phase EXCEPT ![r] = "open"]
      /\ sessions' = [sessions EXCEPT ![s] = r]
      /\ NoOther(r)
      /\ \A q \in Recording : SidOf[q] = s => phase[q] \notin Active
      /\ UNCHANGED <<by, textVars, messages, torn>>
  BY DEF Turn, StartSession, GoTo, NoOther
<1>3. CASE UNCHANGED <<audioSessions, disk, accepted, kept>>
  <2>1. TypeOK'
    BY <1>1, <1>2, <1>3 DEF Inv, TypeOK, Active, textVars
  <2>2. Local(r)
    BY <1>2, <1>3 DEF Local, Inv, TypeOK
  <2>3. phase'[r] = "open"
    BY <1>2 DEF Inv, TypeOK
  <2>4. Stage(r)'
    BY <2>3 DEF Stage, Converting, Converted
  <2>5. OpenFile(s)'
    BY <1>1, <1>3 DEF Inv, OpenFile
  <2>6. Survives(s)'
    BY <1>1, <1>2, <1>3 DEF Inv, Survives
  <2> QED
    BY <1>2, <2>1, <2>2, <2>4, <2>5, <2>6, LocalStep
<1>4. CASE /\ audioSessions' = [audioSessions EXCEPT ![s] = [path |-> "tmp", file |-> "open"]]
           /\ disk' = [disk EXCEPT ![s].tmp = Created(@)]
           /\ accepted' = [accepted EXCEPT ![r] = <<>>]
           /\ kept' = [kept EXCEPT ![s] = <<>>]
  <2>0. disk' = [disk EXCEPT ![s].tmp = Raw(<<>>)] /\ Raw(<<>>) \in File
    BY <1>4 DEF Created, Raw, File
  <2>1. TypeOK'
    <3>1. disk' \in [SessionID -> Files]
      BY <1>1, <2>0 DEF Inv, TypeOK, Files
    <3>2. audioSessions' \in [SessionID -> AudioSession \cup {None}]
      BY <1>1, <1>4 DEF Inv, TypeOK, AudioSession
    <3> QED
      BY <1>1, <1>2, <1>4, <3>1, <3>2 DEF Inv, TypeOK, Active, textVars
  <2>2. Local(r)
    BY <1>2, <1>4, <2>0 DEF Local, Inv, TypeOK
  <2>3. phase'[r] = "open" /\ kept'[s] = <<>>
    BY <1>1, <1>2, <1>4 DEF Inv, TypeOK
  <2>4. Stage(r)'
    BY <2>3 DEF Stage, Converting, Converted
  <2>5. disk'[s].tmp = Raw(<<>>) /\ disk'[s].tmp # None /\ kept'[s] # None
    <3>1. disk'[s].tmp = Raw(<<>>)
      BY <1>1, <2>0 DEF Inv, TypeOK, Files
    <3>2. kept'[s] \in Seq(Byte)
      BY <2>3
    <3> QED
      BY <2>0, <3>1, <3>2, NoneAssumption
  <2>6. OpenFile(s)' /\ Survives(s)'
    BY <2>3, <2>5 DEF OpenFile, Survives, Raw
  <2> QED
    BY <1>2, <2>1, <2>2, <2>4, <2>6, LocalStep
<1> QED
  BY <1>3, <1>4 DEF StartSession
LEMMA MessageInv ==
    ASSUME Inv, NEW r \in Recording, NEW data \in Samples, HandleAudioMessage(r, data)
    PROVE  Inv'
<1> DEFINE s == SidOf[r]
           samples == Process(FormatOf[r], data)
<1>1. /\ s \in SessionID
      /\ phase[r] = "open"
      /\ samples \in Seq(Byte)
  BY RecordingAssumption, SamplesAssumption, ProcessBytes DEF HandleAudioMessage
<1>2. NoOther(r)
  BY <1>1 DEF Inv, Alone, Active
<1>3. /\ disk[s].tmp \in File
      /\ disk[s].tmp.data = kept[s]
      /\ kept[s] \in Seq(Byte)
  <2>1. disk[s].tmp # None /\ kept[s] # None /\ disk[s].tmp.data = kept[s]
    BY <1>1 DEF HandleAudioMessage, Inv, OpenFile
  <2> QED
    BY <1>1, <2>1 DEF Inv, TypeOK, Files
<1>4. /\ UNCHANGED <<sessions, audioSessions, phase, by, textVars>>
      /\ messages' = [messages EXCEPT ![r] = @ + 1]
      /\ messages[r] < MaxMessages
      /\ accepted' \in [Recording -> Seq(Byte) \cup {None}]
      /\ torn' \in [Recording -> BOOLEAN]
  <2>1. accepted[r] = None \/ accepted[r] \o samples \in Seq(Byte)
    BY <1>1 DEF Inv, TypeOK
  <2>2. \/ UNCHANGED accepted
        \/ accepted' = [accepted EXCEPT ![r] = IF accepted[r] = None THEN None
                                               ELSE accepted[r] \o samples]
    BY DEF HandleAudioMessage
  <2>3. accepted' \in [Recording -> Seq(Byte) \cup {None}]
    <3> HIDE DEF samples
    <3> QED
      BY <2>1, <2>2 DEF Inv, TypeOK
  <2> QED
    BY <2>3 DEF HandleAudioMessage, Inv, TypeOK
<1>5. PICK bytes \in Seq(Byte) : WriteRaw(s, bytes)
  <2>1. CASE WriteRaw(s, samples)
    BY <1>1, <2>1
  <2>2. ASSUME NEW piece \in Prefixes(samples), WriteRaw(s, piece)
        PROVE  \E bytes \in Seq(Byte) : WriteRaw(s, bytes)
    BY <1>1, <2>2, PrefixBytes
  <2> QED
    BY <2>1, <2>2 DEF HandleAudioMessage
<1> HIDE DEF samples
<1> DEFINE file == [disk[s].tmp EXCEPT !.data = kept[s] \o bytes]
<1>6. disk' = [disk EXCEPT ![s].tmp = file] /\ kept' = [kept EXCEPT ![s] = kept[s] \o bytes]
  BY <1>3, <1>5 DEF WriteRaw
<1>7. /\ disk' \in [SessionID -> Files]
      /\ disk'[s].tmp = file
      /\ file \in File
      /\ file.data = kept[s] \o bytes
  <2>1. kept[s] \o bytes \in Seq(Byte)
    BY <1>3
  <2>2. file \in File /\ file.data = kept[s] \o bytes
    BY <1>3, <2>1 DEF File
  <2>3. disk \in [SessionID -> Files]
    BY DEF Inv, TypeOK
  <2>4. s \in SessionID
    BY <1>1
  <2> HIDE DEF file, s
  <2>5. file \in File \cup {None}
    BY <2>2
  <2>6. /\ [disk EXCEPT ![s].tmp = file] \in [SessionID -> Files]
        /\ [disk EXCEPT ![s].tmp = file][s].tmp = file
    BY <2>3, <2>4, <2>5, WithTmp
  <2>7. disk' = [disk EXCEPT ![s].tmp = file]
    BY <1>6
  <2> QED
    BY <2>2, <2>6, <2>7
<1>8. /\ kept' \in [SessionID -> Seq(Byte) \cup {None}]
      /\ kept'[s] = kept[s] \o bytes
      /\ kept'[s] \in Seq(Byte)
  <2> HIDE DEF file
  <2> QED
    BY <1>1, <1>3, <1>6 DEF Inv, TypeOK
<1> HIDE DEF file
<1>9. TypeOK'
  BY <1>4, <1>7, <1>8, BoundAssumption DEF Inv, TypeOK, textVars
<1>10. Local(r)
  BY <1>4, <1>6 DEF Local, Inv, TypeOK
<1>11. Stage(r)'
  BY <1>1, <1>4 DEF Stage, Converting, Converted
<1>12. OpenFile(s)' /\ Survives(s)'
  BY <1>7, <1>8, NoneAssumption DEF OpenFile, Survives
<1> QED
  BY <1>2, <1>9, <1>10, <1>11, <1>12, LocalStep
\* A handler whose Close returned goes on, or the session is over.
LEMMA ReturnedPhase ==
    ASSUME Inv, NEW r \in Recording, NEW caller, NEW ok, Returned(r, caller, ok)
    PROVE  /\ sessions' \in [SessionID -> Recording \cup {None}]
           /\ \E place \in {"fixing", "closing", "ended"} : phase' = [phase EXCEPT ![r] = place]
BY RecordingAssumption DEF Inv, TypeOK, Returned, GoTo

LEMMA CallInv ==
    ASSUME Inv, NEW r \in Recording, HandleStopMessage(r) \/ CloseSession(r)
    PROVE  Inv'
<1> DEFINE s == SidOf[r]
<1>1. s \in SessionID /\ NoOther(r) /\ phase[r] \in {"open", "closing"}
  BY RecordingAssumption DEF HandleStopMessage, CloseSession, Inv, Alone, Active
<1>2. PICK caller \in {"stop", "close"} : CallClose(r, caller)
  BY DEF HandleStopMessage, CloseSession
<1>3. /\ by' \in [Recording -> {"none", "stop", "close"}]
      /\ UNCHANGED <<audioSessions, disk, kept, messages, accepted, torn, textVars>>
  BY <1>2 DEF CallClose, fileVars, clientVars, Inv, TypeOK
<1>4. PICK place \in {"fixing", "closing", "ended", "sync"} :
        /\ phase' = [phase EXCEPT ![r] = place]
        /\ sessions' \in [SessionID -> Recording \cup {None}]
        /\ place = "sync" => audioSessions[s] # None
  <2>1. CASE GoTo(r, "sync") /\ UNCHANGED sessions /\ audioSessions[s] # None
    BY <2>1 DEF GoTo, Inv, TypeOK
  <2>2. CASE Returned(r, caller, TRUE) \/ Returned(r, caller, FALSE)
    BY <2>2, ReturnedPhase
  <2> QED
    BY <1>2, <2>1, <2>2 DEF CallClose
<1>5. TypeOK'
  BY <1>3, <1>4 DEF Inv, TypeOK, Active, Converting, textVars
<1>6. phase'[r] = place /\ Local(r)
  BY <1>3, <1>4 DEF Local, Inv, TypeOK
<1>7. Stage(r)'
  <2>1. audioSessions[s] # None => audioSessions[s] \in AudioSession
    BY <1>1 DEF Inv, TypeOK
  <2> QED
    BY <1>3, <1>4, <1>6, <2>1 DEF Stage, Converting, Converted
<1>8. OpenFile(s)' /\ Survives(s)'
  <2>1. OpenFile(s) /\ Survives(s)
    BY <1>1 DEF Inv
  <2> QED
    BY <1>3, <2>1 DEF OpenFile, Survives
<1> QED
  BY <1>1, <1>5, <1>6, <1>7, <1>8, LocalStep

\* Where a recording in its conversion is, and that it is alone there.
LEMMA InConversion ==
    ASSUME Inv, NEW r \in Recording, phase[r] \in Converting
    PROVE  /\ SidOf[r] \in SessionID
           /\ NoOther(r)
           /\ Stage(r)
           /\ OpenFile(SidOf[r])
           /\ Survives(SidOf[r])
           /\ audioSessions[SidOf[r]] \in AudioSession
           /\ audioSessions[SidOf[r]] # None
BY RecordingAssumption, NoneAssumption DEF Inv, Alone, Active, Stage

\* A conversion that goes on in the maps only.
LEMMA GoOn ==
    ASSUME TypeOK, NEW r \in Recording, NEW place \in Active, GoTo(r, place)
    PROVE  /\ phase' \in [Recording -> Active \cup {"idle", "ended", "lost"}]
           /\ phase'[r] = place
           /\ \A q \in Recording \ {r} : phase'[q] = phase[q]
BY DEF GoTo, TypeOK
(***************************************************************************)
(* The steps of the conversion.                                            *)
(***************************************************************************)
LEMMA SyncRawInv == ASSUME Inv, NEW r \in Recording, SyncRaw(r) PROVE Inv'
<1> DEFINE s == SidOf[r]
<1>1. /\ phase[r] = "sync"
      /\ audioSessions[s].file = "open"
      /\ GoTo(r, "closeRaw")
      /\ UNCHANGED <<sessions, audioSessions, disk, kept, by, clientVars, textVars>>
  BY DEF SyncRaw, fileVars
<1>2. /\ NoOther(r)
      /\ OpenFile(s)
      /\ Survives(s)
      /\ audioSessions[s] \in AudioSession
      /\ audioSessions[s] # None
  BY <1>1, InConversion DEF Converting
<1>3. disk[s].tmp # None /\ kept[s] # None /\ disk[s].tmp.data = kept[s]
  BY <1>1, <1>2 DEF OpenFile
<1>4. /\ phase' \in [Recording -> Active \cup {"idle", "ended", "lost"}]
      /\ phase'[r] = "closeRaw"
      /\ \A q \in Recording \ {r} : phase'[q] = phase[q]
  BY <1>1, GoOn DEF Inv, Active, Converting
<1>5. TypeOK'
  BY <1>1, <1>4 DEF Inv, TypeOK, clientVars, textVars
<1>6. Local(r)
  BY <1>1, <1>4 DEF Local
<1>7. Stage(r)'
  BY <1>1, <1>2, <1>3, <1>4 DEF Stage, Converting, Converted
<1>8. OpenFile(s)' /\ Survives(s)'
  BY <1>1, <1>2 DEF OpenFile, Survives
<1> QED
  BY <1>2, <1>5, <1>6, <1>7, <1>8, LocalStep
LEMMA CloseRawInv == ASSUME Inv, NEW r \in Recording, CloseRaw(r) PROVE Inv'
<1> DEFINE s == SidOf[r]
<1>1. /\ phase[r] = "closeRaw"
      /\ audioSessions' = [audioSessions EXCEPT ![s].file = "nil"]
      /\ GoTo(r, "openRaw")
      /\ UNCHANGED <<sessions, disk, kept, by, clientVars, textVars>>
  BY DEF CloseRaw, fileVars
<1>2. /\ s \in SessionID
      /\ NoOther(r)
      /\ Stage(r)
      /\ Survives(s)
      /\ audioSessions[s] \in AudioSession
  BY <1>1, InConversion DEF Converting
<1>3. /\ audioSessions' \in [SessionID -> AudioSession \cup {None}]
      /\ audioSessions'[s] \in AudioSession
      /\ audioSessions'[s].file = "nil"
  BY <1>1, <1>2 DEF Inv, TypeOK, AudioSession
<1>4. /\ phase' \in [Recording -> Active \cup {"idle", "ended", "lost"}]
      /\ phase'[r] = "openRaw"
      /\ \A q \in Recording \ {r} : phase'[q] = phase[q]
  BY <1>1, GoOn DEF Inv, Active, Converting
<1>5. TypeOK'
  BY <1>1, <1>3, <1>4 DEF Inv, TypeOK, clientVars, textVars
<1>6. Local(r)
  BY <1>1, <1>4 DEF Local, Inv, TypeOK
<1>7. Stage(r)'
  BY <1>1, <1>2, <1>3, <1>4 DEF Stage, Converting, Converted
<1>8. OpenFile(s)' /\ Survives(s)'
  BY <1>1, <1>2, <1>3 DEF OpenFile, Survives
<1> QED
  BY <1>2, <1>5, <1>6, <1>7, <1>8, LocalStep

LEMMA OpenRawInv == ASSUME Inv, NEW r \in Recording, OpenRaw(r) PROVE Inv'
<1> DEFINE s == SidOf[r]
<1>1. /\ phase[r] = "openRaw"
      /\ GoTo(r, "createWav")
      /\ UNCHANGED <<sessions, audioSessions, disk, kept, by, clientVars, textVars>>
  BY DEF OpenRaw, fileVars
<1>2. /\ NoOther(r)
      /\ Stage(r)
      /\ OpenFile(s)
      /\ Survives(s)
  BY <1>1, InConversion DEF Converting
<1>3. /\ phase' \in [Recording -> Active \cup {"idle", "ended", "lost"}]
      /\ phase'[r] = "createWav"
      /\ \A q \in Recording \ {r} : phase'[q] = phase[q]
  BY <1>1, GoOn DEF Inv, Active, Converting
<1>4. TypeOK'
  BY <1>1, <1>3 DEF Inv, TypeOK, clientVars, textVars
<1>5. Local(r)
  BY <1>1, <1>3 DEF Local
<1>6. Stage(r)'
  BY <1>1, <1>2, <1>3 DEF Stage, Converting, Converted
<1>7. audioSessions[s].file = "nil"
  BY <1>1, <1>2 DEF Stage, Converting, Converted
<1>8. OpenFile(s)' /\ Survives(s)'
  BY <1>1, <1>2, <1>7 DEF OpenFile, Survives
<1> QED
  BY <1>2, <1>4, <1>5, <1>6, <1>8, LocalStep

LEMMA CreateWavInv == ASSUME Inv, NEW r \in Recording, CreateWav(r) PROVE Inv'
<1> DEFINE s == SidOf[r]
           file == Raw(<<>>)
<1>1. /\ phase[r] = "createWav"
      /\ GoTo(r, "header")
      /\ UNCHANGED <<sessions, audioSessions, kept, by, clientVars, textVars>>
  BY DEF CreateWav
<1>2. /\ s \in SessionID
      /\ NoOther(r)
      /\ Stage(r)
      /\ OpenFile(s)
  BY <1>1, InConversion DEF Converting
<1>3. /\ disk[s].tmp \in File
      /\ disk[s].tmp.data = kept[s]
      /\ kept[s] \in Seq(Byte)
  <2>1. disk[s].tmp # None /\ disk[s].tmp.data = kept[s]
    BY <1>1, <1>2 DEF Stage, Converting
  <2>2. disk[s].tmp \in File
    BY <1>2, <2>1 DEF Inv, TypeOK, Files
  <2> QED
    BY <2>1, <2>2 DEF File
<1>4. file \in File
  BY DEF Raw, File
<1>5. disk' = [disk EXCEPT ![s].wav = file]
  BY DEF CreateWav
<1>6. /\ disk' \in [SessionID -> Files]
      /\ disk'[s].wav = file
      /\ disk'[s].tmp = disk[s].tmp
  <2>1. disk \in [SessionID -> Files]
    BY DEF Inv, TypeOK
  <2> HIDE DEF file
  <2> QED
    BY <1>2, <1>4, <1>5, <2>1, WithWav
<1>7. /\ phase' \in [Recording -> Active \cup {"idle", "ended", "lost"}]
      /\ phase'[r] = "header"
      /\ \A q \in Recording \ {r} : phase'[q] = phase[q]
  BY <1>1, GoOn DEF Inv, Active, Converting
<1>8. TypeOK'
  BY <1>1, <1>6, <1>7 DEF Inv, TypeOK, clientVars, textVars
<1>9. Local(r)
  <2> HIDE DEF file
  <2> QED
    BY <1>1, <1>5, <1>7 DEF Local, Inv, TypeOK
<1>10. Stage(r)'
  BY <1>1, <1>2, <1>4, <1>6, <1>7, NoneAssumption DEF Stage, Converting, Converted
<1>11. OpenFile(s)' /\ Survives(s)'
  <2>1. OpenFile(s)'
    <3>1. audioSessions'[s].file = "nil"
      BY <1>1, <1>2 DEF Stage, Converting, Converted
    <3> QED
      BY <3>1 DEF OpenFile
  <2>2. Survives(s)'
    BY <1>1, <1>3, <1>6, NoneAssumption DEF Survives
  <2> QED
    BY <2>1, <2>2
<1> QED
  BY <1>2, <1>8, <1>9, <1>10, <1>11, LocalStep

LEMMA WriteWavHeaderInv == ASSUME Inv, NEW r \in Recording, WriteWavHeader(r) PROVE Inv'
<1> DEFINE s == SidOf[r]
           file == [disk[s].wav EXCEPT !.header = Header(Len(disk[s].tmp.data))]
<1>1. /\ phase[r] = "header"
      /\ GoTo(r, "copy")
      /\ UNCHANGED <<sessions, audioSessions, kept, by, clientVars, textVars>>
  BY DEF WriteWavHeader
<1>2. /\ s \in SessionID
      /\ NoOther(r)
      /\ Stage(r)
      /\ OpenFile(s)
  BY <1>1, InConversion DEF Converting
<1>3. /\ disk[s].tmp \in File
      /\ disk[s].tmp.data = kept[s]
      /\ kept[s] \in Seq(Byte)
  <2>1. disk[s].tmp # None /\ disk[s].tmp.data = kept[s]
    BY <1>1, <1>2 DEF Stage, Converting
  <2>2. disk[s].tmp \in File
    BY <1>2, <2>1 DEF Inv, TypeOK, Files
  <2> QED
    BY <2>1, <2>2 DEF File
<1>4. file \in File /\ file.header = Header(Len(kept[s]))
  <2>1. disk[s].wav # None
    BY <1>1, <1>2 DEF Stage
  <2>2. disk[s].wav \in File
    BY <1>2, <2>1 DEF Inv, TypeOK, Files
  <2>3. Header(Len(kept[s])) \in Word \X Word
    BY <1>3, HeaderWords
  <2> QED
    BY <1>3, <2>2, <2>3 DEF File
<1>5. disk' = [disk EXCEPT ![s].wav = file]
  BY DEF WriteWavHeader
<1>6. /\ disk' \in [SessionID -> Files]
      /\ disk'[s].wav = file
      /\ disk'[s].tmp = disk[s].tmp
  <2>1. disk \in [SessionID -> Files]
    BY DEF Inv, TypeOK
  <2> HIDE DEF file
  <2> QED
    BY <1>2, <1>4, <1>5, <2>1, WithWav
<1>7. /\ phase' \in [Recording -> Active \cup {"idle", "ended", "lost"}]
      /\ phase'[r] = "copy"
      /\ \A q \in Recording \ {r} : phase'[q] = phase[q]
  BY <1>1, GoOn DEF Inv, Active, Converting
<1>8. TypeOK'
  BY <1>1, <1>6, <1>7 DEF Inv, TypeOK, clientVars, textVars
<1>9. Local(r)
  <2> HIDE DEF file
  <2> QED
    BY <1>1, <1>5, <1>7 DEF Local, Inv, TypeOK
<1>10. Stage(r)'
  BY <1>1, <1>2, <1>4, <1>6, <1>7, <1>3, NoneAssumption DEF Stage, Converting, Converted
<1>11. OpenFile(s)' /\ Survives(s)'
  <2>1. OpenFile(s)'
    <3>1. audioSessions'[s].file = "nil"
      BY <1>1, <1>2 DEF Stage, Converting, Converted
    <3> QED
      BY <3>1 DEF OpenFile
  <2>2. Survives(s)'
    BY <1>1, <1>3, <1>6, NoneAssumption DEF Survives
  <2> QED
    BY <2>1, <2>2
<1> QED
  BY <1>2, <1>8, <1>9, <1>10, <1>11, LocalStep

LEMMA CopyDataInv == ASSUME Inv, NEW r \in Recording, CopyData(r) PROVE Inv'
<1> DEFINE s == SidOf[r]
<1>1. /\ phase[r] = "copy"
      /\ UNCHANGED <<sessions, audioSessions, kept, by, clientVars, textVars>>
  BY DEF CopyData
<1>2. /\ s \in SessionID
      /\ NoOther(r)
      /\ Stage(r)
      /\ OpenFile(s)
  BY <1>1, InConversion DEF Converting
<1>3. /\ disk[s].tmp \in File
      /\ disk[s].tmp.data = kept[s]
      /\ kept[s] \in Seq(Byte)
  <2>1. disk[s].tmp # None /\ disk[s].tmp.data = kept[s]
    BY <1>1, <1>2 DEF Stage, Converting
  <2>2. disk[s].tmp \in File
    BY <1>2, <2>1 DEF Inv, TypeOK, Files
  <2> QED
    BY <2>1, <2>2 DEF File
<1>4. PICK piece \in Prefixes(kept[s]) :
        /\ disk' = [disk EXCEPT ![s].wav.data = piece]
        /\ GoTo(r, IF piece = kept[s] THEN "syncWav" ELSE "copy")
  BY <1>1, <1>3 DEF CopyData
<1> DEFINE file == [disk[s].wav EXCEPT !.data = piece]
           place == IF piece = kept[s] THEN "syncWav" ELSE "copy"
<1>5. /\ file \in File
      /\ file.header = Header(Len(kept[s]))
      /\ piece = kept[s] => file = Wav(kept[s])
  <2>1. disk[s].wav # None /\ disk[s].wav.header = Header(Len(kept[s]))
    BY <1>1, <1>2 DEF Stage
  <2>2. disk[s].wav \in File
    BY <1>2, <2>1 DEF Inv, TypeOK, Files
  <2>3. piece \in Seq(Byte)
    BY <1>3, <1>4, PrefixBytes
  <2> QED
    BY <2>1, <2>2, <2>3 DEF File, Wav
<1>6. /\ disk' \in [SessionID -> Files]
      /\ disk'[s].wav = file
      /\ disk'[s].tmp = disk[s].tmp
      /\ \A u \in SessionID \ {s} : disk'[u] = disk[u]
  <2>1. disk \in [SessionID -> Files] /\ disk' = [disk EXCEPT ![s].wav = file]
    BY <1>4 DEF Inv, TypeOK
  <2> HIDE DEF file
  <2> QED
    BY <1>2, <1>5, <2>1, WithWav
<1> HIDE DEF file
<1>7. /\ phase' \in [Recording -> Active \cup {"idle", "ended", "lost"}]
      /\ phase'[r] = place
      /\ place \in {"copy", "syncWav"}
      /\ place = "syncWav" => file = Wav(kept[s])
      /\ \A q \in Recording \ {r} : phase'[q] = phase[q]
  <2>1. place \in Active
    BY DEF Active, Converting
  <2>2. GoTo(r, place)
    BY <1>4
  <2>3. place \in {"copy", "syncWav"} /\ (place = "syncWav" => piece = kept[s])
    OBVIOUS
  <2> HIDE DEF place
  <2> QED
    BY <1>5, <2>1, <2>2, <2>3, GoOn DEF Inv
<1> HIDE DEF place
<1>8. TypeOK'
  BY <1>1, <1>6, <1>7 DEF Inv, TypeOK, clientVars, textVars
<1>9. Local(r)
  BY <1>1, <1>6, <1>7 DEF Local, Inv, TypeOK
<1>10. Stage(r)'
  BY <1>1, <1>2, <1>3, <1>5, <1>6, <1>7, NoneAssumption DEF Stage, Converting, Converted
<1>11. OpenFile(s)' /\ Survives(s)'
  <2>1. audioSessions'[s].file = "nil" /\ disk'[s].tmp # None
    BY <1>1, <1>2, <1>6 DEF Stage, Converting, Converted
  <2> QED
    BY <1>1, <1>3, <1>6, <2>1 DEF OpenFile, Survives
<1> QED
  BY <1>2, <1>8, <1>9, <1>10, <1>11, LocalStep

LEMMA SyncWavInv == ASSUME Inv, NEW r \in Recording, SyncWav(r) PROVE Inv'
<1> DEFINE s == SidOf[r]
<1>1. /\ phase[r] = "syncWav"
      /\ GoTo(r, "removeTmp")
      /\ UNCHANGED <<sessions, audioSessions, disk, kept, by, clientVars, textVars>>
  BY DEF SyncWav, fileVars
<1>2. /\ NoOther(r)
      /\ Stage(r)
      /\ OpenFile(s)
      /\ Survives(s)
  BY <1>1, InConversion DEF Converting
<1>3. /\ phase' \in [Recording -> Active \cup {"idle", "ended", "lost"}]
      /\ phase'[r] = "removeTmp"
      /\ \A q \in Recording \ {r} : phase'[q] = phase[q]
  BY <1>1, GoOn DEF Inv, Active, Converting
<1>4. TypeOK'
  BY <1>1, <1>3 DEF Inv, TypeOK, clientVars, textVars
<1>5. Local(r)
  BY <1>1, <1>3 DEF Local
<1>6. Stage(r)'
  BY <1>1, <1>2, <1>3 DEF Stage, Converting, Converted
<1>7. OpenFile(s)' /\ Survives(s)'
  BY <1>1, <1>2 DEF OpenFile, Survives
<1> QED
  BY <1>2, <1>4, <1>5, <1>6, <1>7, LocalStep

LEMMA RemoveTmpInv == ASSUME Inv, NEW r \in Recording, RemoveTmp(r) PROVE Inv'
<1> DEFINE s == SidOf[r]
<1>1. /\ phase[r] = "removeTmp"
      /\ disk' = [disk EXCEPT ![s].tmp = None] \/ UNCHANGED disk
      /\ audioSessions' = [audioSessions EXCEPT ![s].path = "wav"]
      /\ Returned(r, by[r], TRUE)
      /\ UNCHANGED <<kept, by, clientVars, textVars>>
  BY DEF RemoveTmp
<1>2. /\ s \in SessionID
      /\ NoOther(r)
      /\ audioSessions[s] \in AudioSession
      /\ audioSessions[s].file = "nil"
      /\ disk[s].wav = Wav(kept[s])
  BY <1>1, InConversion DEF Converting, Converted, Stage
<1>3. disk' \in [SessionID -> Files] /\ disk'[s].wav = disk[s].wav
  <2>1. disk \in [SessionID -> Files] /\ None \in File \cup {None}
    BY DEF Inv, TypeOK
  <2>2. CASE disk' = [disk EXCEPT ![s].tmp = None]
    BY <1>2, <2>1, <2>2, WithTmp
  <2> QED
    BY <1>1, <2>1, <2>2
<1>4. /\ audioSessions' \in [SessionID -> AudioSession \cup {None}]
      /\ audioSessions'[s].file = "nil"
  BY <1>1, <1>2 DEF Inv, TypeOK, AudioSession
<1>5. PICK place \in {"fixing", "closing", "ended"} : phase' = [phase EXCEPT ![r] = place]
  BY <1>1, ReturnedPhase
<1>6. TypeOK'
  <2>1. sessions' \in [SessionID -> Recording \cup {None}]
    BY <1>1, ReturnedPhase
  <2> QED
    BY <1>1, <1>3, <1>4, <1>5, <2>1 DEF Inv, TypeOK, Active, clientVars, textVars
<1>7. phase'[r] = place /\ Local(r)
  BY <1>1, <1>5 DEF Local, Inv, TypeOK
<1>8. Stage(r)'
  BY <1>7 DEF Stage, Converting, Converted
<1>9. OpenFile(s)' /\ Survives(s)'
  BY <1>1, <1>2, <1>3, <1>4 DEF OpenFile, Survives
<1> QED
  BY <1>2, <1>6, <1>7, <1>8, <1>9, LocalStep

LEMMA StepFailsInv == ASSUME Inv, NEW r \in Recording, StepFails(r) PROVE Inv'
<1> DEFINE s == SidOf[r]
<1>1. /\ phase[r] \in Converting
      /\ Returned(r, by[r], FALSE)
      /\ UNCHANGED <<disk, kept, by, clientVars, textVars>>
  BY DEF StepFails, fileVars
<1>2. /\ s \in SessionID
      /\ NoOther(r)
      /\ Stage(r)
      /\ OpenFile(s)
      /\ Survives(s)
      /\ audioSessions[s] \in AudioSession
  BY <1>1, InConversion
<1>3. PICK place \in {"fixing", "closing", "ended"} : phase' = [phase EXCEPT ![r] = place]
  BY <1>1, ReturnedPhase
<1>4. /\ audioSessions' \in [SessionID -> AudioSession \cup {None}]
      /\ audioSessions' = audioSessions \/ audioSessions'[s].file = "broken"
      /\ phase[r] = "closeRaw" => audioSessions'[s].file = "broken"
      /\ \A t \in SessionID \ {s} : audioSessions'[t] = audioSessions[t]
  <2>1. audioSessions \in [SessionID -> AudioSession \cup {None}]
    BY DEF Inv, TypeOK
  <2>2. CASE /\ phase[r] = "closeRaw"
             /\ audioSessions' = [audioSessions EXCEPT ![s].file = "broken"]
    <3>1. [audioSessions[s] EXCEPT !.file = "broken"] \in AudioSession
      BY <1>2 DEF AudioSession
    <3> QED
      BY <1>2, <2>1, <2>2, <3>1 DEF AudioSession
  <2>3. CASE phase[r] # "closeRaw" /\ UNCHANGED audioSessions
    BY <2>1, <2>3
  <2> QED
    BY <2>2, <2>3 DEF StepFails
<1>5. TypeOK'
  <2>1. sessions' \in [SessionID -> Recording \cup {None}]
    BY <1>1, ReturnedPhase
  <2> QED
    BY <1>1, <1>3, <1>4, <2>1 DEF Inv, TypeOK, Active, clientVars, textVars
<1>6. phase'[r] = place /\ Local(r)
  BY <1>1, <1>3, <1>4 DEF Local, Inv, TypeOK
<1>7. Stage(r)'
  BY <1>6 DEF Stage, Converting, Converted
<1>8. OpenFile(s)' /\ Survives(s)'
  BY <1>1, <1>2, <1>4 DEF OpenFile, Survives
<1> QED
  BY <1>2, <1>5, <1>6, <1>7, <1>8, LocalStep

LEMMA FixTextInv == ASSUME Inv, NEW r \in Recording, FixTextAnswer(r) PROVE Inv'
<1> DEFINE s == SidOf[r]
<1>1. /\ phase[r] = "fixing"
      /\ GoTo(r, "closing")
      /\ UNCHANGED <<sessions, audioSessions, disk, kept, by, clientVars>>
  BY DEF FixTextAnswer, fileVars
<1>2. /\ s \in SessionID
      /\ NoOther(r)
      /\ OpenFile(s)
      /\ Survives(s)
  BY <1>1, RecordingAssumption DEF Inv, Alone, Active
<1>3. /\ phase' \in [Recording -> Active \cup {"idle", "ended", "lost"}]
      /\ phase'[r] = "closing"
      /\ \A q \in Recording \ {r} : phase'[q] = phase[q]
  BY <1>1, GoOn DEF Inv, Active
<1>4. TypeOK'
  BY <1>1, <1>3 DEF Inv, TypeOK, clientVars
<1>5. Local(r)
  BY <1>1, <1>3 DEF Local
<1>6. Stage(r)'
  BY <1>3 DEF Stage, Converting, Converted
<1>7. OpenFile(s)' /\ Survives(s)'
  BY <1>1, <1>2 DEF OpenFile, Survives
<1> QED
  BY <1>2, <1>4, <1>5, <1>6, <1>7, LocalStep
(***************************************************************************)
(* The program stops.                                                      *)
(***************************************************************************)
LEMMA CrashInv == ASSUME Inv, Crash PROVE Inv'
<1>1. /\ \A r \in Recording : phase'[r] \notin Active
      /\ phase' \in [Recording -> Active \cup {"idle", "ended", "lost"}]
  BY DEF Crash, Inv, TypeOK, Active, Converting
<1>2. TypeOK'
  BY <1>1 DEF Crash, Inv, TypeOK, clientVars, textVars, fileVars
<1>3. Alone' /\ \A r \in Recording : Stage(r)'
  BY <1>1 DEF Alone, Stage, Active, Converting, Converted
<1>4. \A s \in SessionID : OpenFile(s)' /\ Survives(s)'
  BY DEF Crash, Inv, OpenFile, Survives, fileVars
<1> QED
  BY <1>2, <1>3, <1>4 DEF Inv

LEMMA StepInv == Inv /\ [TurnsNext]_vars => Inv'
<1> SUFFICES ASSUME Inv, [TurnsNext]_vars PROVE Inv'
  OBVIOUS
<1>1. ASSUME NEW r \in Recording, Turn(r), StartSession(r) PROVE Inv'
  BY <1>1, StartInv
<1>2. ASSUME NEW r \in Recording, HandleStopMessage(r) \/ CloseSession(r) PROVE Inv'
  BY <1>2, CallInv
<1>3. ASSUME NEW r \in Recording, NEW data \in Samples, HandleAudioMessage(r, data) PROVE Inv'
  BY <1>3, MessageInv
<1>4. ASSUME NEW r \in Recording, Convert(r) PROVE Inv'
  BY <1>4, SyncRawInv, CloseRawInv, OpenRawInv, CreateWavInv, WriteWavHeaderInv,
     CopyDataInv, SyncWavInv, RemoveTmpInv DEF Convert
<1>5. ASSUME NEW r \in Recording, StepFails(r) \/ FixTextAnswer(r) PROVE Inv'
  BY <1>5, StepFailsInv, FixTextInv
<1>6. CASE Crash
  BY <1>6, CrashInv
<1>7. CASE UNCHANGED vars
  BY <1>7 DEF vars, fileVars, clientVars, textVars, Inv, TypeOK, Alone, NoOther, Stage,
              OpenFile, Survives
<1> QED
  BY <1>1, <1>2, <1>3, <1>4, <1>5, <1>6, <1>7 DEF TurnsNext

\* Maps, files and phases keep their types; the sizes in a header fit a word.
THEOREM TypeCorrect == TurnsSpec => []TypeOK
<1>1. Inv => TypeOK
  BY DEF Inv
<1> QED
  BY <1>1, InitInv, StepInv, PTL DEF TurnsSpec

\* No failing step, second close or stop of the program loses audio that was written.
THEOREM AudioKept == TurnsSpec => []AudioSurvives
<1>1. Inv => AudioSurvives
  BY DEF Inv, Survives, AudioSurvives
<1> QED
  BY <1>1, InitInv, StepInv, PTL DEF TurnsSpec
(***************************************************************************)
(* The answer.                                                             *)
(***************************************************************************)
LEMMA MinOf == ASSUME NEW S \in SUBSET Nat, S # {} PROVE Min(S) \in S
<1>1. PICK x \in S : \A y \in S : ~ (<<y, x>> \in OpToRel(<, Nat))
  BY NatLessThanWellFounded, WFMin
<1>2. \A y \in S : x <= y
  <2>1. ASSUME NEW a \in Nat, NEW b \in Nat, a < b PROVE <<a, b>> \in OpToRel(<, Nat)
    BY <2>1 DEF OpToRel
  <2>2. ASSUME NEW y \in S PROVE ~(y < x)
    BY <1>1, <2>1
  <2> QED
    BY <2>2
<1> QED
  BY <1>2 DEF Min

LEMMA ContentTextIn ==
    ASSUME NEW contents \in Seq(Content), contents # <<>>
    PROVE  \E j \in DOMAIN contents : ContentText(contents) = contents[j].text
<1>1. CASE HasOutputText(contents)
  <2> DEFINE found == {j \in 1..Len(contents) : IsOutputText(contents[j])}
  <2>1. found # {} /\ found \in SUBSET Nat
    BY <1>1 DEF HasOutputText
  <2>2. Min(found) \in found
    BY <2>1, MinOf
  <2>3. ContentText(contents) = contents[Min(found)].text
    BY <1>1, <2>1 DEF ContentText, SelectInSeq
  <2> HIDE DEF found
  <2>4. Min(found) \in DOMAIN contents
    BY <2>2 DEF found
  <2> QED
    BY <2>3, <2>4
<1>2. CASE ~HasOutputText(contents)
  BY <1>2 DEF ContentText
<1> QED
  BY <1>1, <1>2

LEMMA ExtractIn ==
    ASSUME NEW output \in Seq(OutputItem)
    PROVE  /\ ExtractTextFromResponse(output) \in Texts(output) \cup {NoText}
           /\ (\E i \in Messages(output) : HasOutputText(output[i].content))
                => ExtractTextFromResponse(output) \in MessageTexts(output)
<1> DEFINE found == {i \in 1..Len(output) : Answers(output[i])}
<1>1. ExtractTextFromResponse(output) =
        CASE output = <<>> -> NoText
          [] found # {} /\ Min(found) # 0 -> ContentText(output[Min(found)].content)
          [] OTHER -> IF output[1].content = <<>> THEN NoText
                      ELSE ContentText(output[1].content)
  BY DEF ExtractTextFromResponse, SelectInSeq
<1>2. ASSUME NEW i \in DOMAIN output, output[i].content # <<>>
      PROVE  ContentText(output[i].content) \in ItemTexts(output[i])
  <2>1. output[i] \in OutputItem
    OBVIOUS
  <2>2. output[i].content \in Seq(Content)
    BY <2>1 DEF OutputItem
  <2> QED
    BY <1>2, <2>2, ContentTextIn DEF ItemTexts
<1>3. CASE found # {}
  <2> DEFINE i == Min(found)
  <2>1. i \in found
    <3>1. found \in SUBSET Nat
      OBVIOUS
    <3> HIDE DEF found
    <3> QED
      BY <1>3, <3>1, MinOf
  <2> HIDE DEF i
  <2>2. i \in DOMAIN output /\ i # 0 /\ Answers(output[i]) /\ output # <<>>
    BY <2>1
  <2>3. ExtractTextFromResponse(output) = ContentText(output[i].content)
    <3> HIDE DEF found
    <3> QED
      BY <1>1, <1>3, <2>2 DEF i
  <2>4. i \in Messages(output) /\ output[i].content # <<>>
    BY <2>2 DEF Answers, Messages
  <2>5. ExtractTextFromResponse(output) \in ItemTexts(output[i])
    BY <1>2, <2>2, <2>3, <2>4
  <2>6. ExtractTextFromResponse(output) \in Texts(output)
    BY <2>2, <2>5 DEF Texts
  <2>7. ExtractTextFromResponse(output) \in MessageTexts(output)
    BY <2>4, <2>5 DEF MessageTexts
  <2> QED
    BY <2>6, <2>7
<1>4. CASE found = {}
  <2>0. ExtractTextFromResponse(output) =
          IF output = <<>> \/ output[1].content = <<>> THEN NoText
          ELSE ContentText(output[1].content)
    <3> HIDE DEF found
    <3> QED
      BY <1>1, <1>4
  <2>1. ~ \E i \in Messages(output) : HasOutputText(output[i].content)
    <3>1. ASSUME NEW i \in Messages(output), HasOutputText(output[i].content)
          PROVE  Answers(output[i])
      BY <3>1 DEF Messages, Answers, HasOutputText
    <3> QED
      BY <1>4, <3>1 DEF Messages
  <2>2. CASE output = <<>> \/ output[1].content = <<>>
    BY <2>0, <2>1, <2>2
  <2>4. CASE output # <<>> /\ output[1].content # <<>>
    <3>1. 1 \in DOMAIN output
      BY <2>4
    <3> QED
      BY <1>2, <2>0, <2>1, <2>4, <3>1 DEF Texts
  <2> QED
    BY <2>2, <2>4
<1> QED
  BY <1>3, <1>4

\* What FixTextAnswer answers about an exchange.
LEMMA CorrectedIs ==
    ASSUME NEW made \in Exchange
    PROVE  Corrected(Transcription, made) =
             IF Succeeded(made) THEN ExtractTextFromResponse(made.output) ELSE Transcription
<1>1. CASE Succeeded(made)
  <2>1. FixText(Transcription, made) = {ExtractTextFromResponse(made.output)}
    BY <1>1, TranscriptionAssumption DEF FixText, GenerateResponse
  <2> QED
    BY <1>1, <2>1 DEF Corrected
<1>2. CASE ~Succeeded(made)
  <2>1. FixText(Transcription, made) = {}
    BY <1>2, TranscriptionAssumption DEF FixText, GenerateResponse
  <2> QED
    BY <1>2, <2>1 DEF Corrected
<1> QED
  BY <1>1, <1>2

AnswerInv ==
    /\ DOMAIN answer = Recording /\ answer = [r \in Recording |-> answer[r]]
    /\ DOMAIN exchange = Recording /\ exchange = [r \in Recording |-> exchange[r]]
    /\ AnswerIsCorrection

\* The answer is the correction of the text, or the text, for every reply.
THEOREM AnswerCorrect == TurnsSpec => []AnswerIsCorrection
<1>1. Init => AnswerInv
  BY DEF Init, AnswerInv, AnswerIsCorrection
<1>2. AnswerInv /\ UNCHANGED textVars => AnswerInv'
  BY DEF AnswerInv, AnswerIsCorrection, textVars
<1>3. ASSUME AnswerInv, NEW r \in Recording, FixTextAnswer(r) PROVE AnswerInv'
  <2>1. PICK made \in Exchanges :
          /\ exchange' = [exchange EXCEPT ![r] = made]
          /\ answer' = [answer EXCEPT ![r] = Corrected(Transcription, made)]
    BY <1>3 DEF FixTextAnswer
  <2>2. made \in Exchange /\ made.output \in Seq(OutputItem)
    BY <2>1, ExchangesAssumption DEF Exchange
  <2>3. answer'[r] = Corrected(Transcription, made) /\ exchange'[r] = made
    BY <1>3, <2>1 DEF AnswerInv
  <2>4. \A q \in Recording \ {r} : answer'[q] = answer[q] /\ exchange'[q] = exchange[q]
    BY <1>3, <2>1 DEF AnswerInv
  <2>5. LET output == made.output
            answered == made.went = "through" /\ made.status = 200 /\ made.json
        IN /\ ~answered => answer'[r] = Transcription
           /\ answered => answer'[r] \in Texts(output) \cup {NoText}
           /\ answered /\ (\E i \in Messages(output) : HasOutputText(output[i].content))
                => answer'[r] \in MessageTexts(output)
    BY <2>2, <2>3, CorrectedIs, ExtractIn DEF Succeeded
  <2>6. AnswerIsCorrection'
    BY <1>3, <2>3, <2>4, <2>5 DEF AnswerInv, AnswerIsCorrection
  <2> QED
    BY <1>3, <2>1, <2>6 DEF AnswerInv
<1>4. AnswerInv /\ [TurnsNext]_vars => AnswerInv'
  <2> SUFFICES ASSUME AnswerInv, [TurnsNext]_vars PROVE AnswerInv'
    OBVIOUS
  <2>1. (\E r \in Recording : FixTextAnswer(r)) \/ UNCHANGED textVars
    <3>1. ASSUME NEW r \in Recording,
                 StartSession(r) \/ HandleStopMessage(r) \/ CloseSession(r)
          PROVE  UNCHANGED textVars
      BY <3>1 DEF StartSession, HandleStopMessage, CloseSession, CallClose
    <3>2. ASSUME NEW r \in Recording, NEW data \in Samples, HandleAudioMessage(r, data)
          PROVE  UNCHANGED textVars
      BY <3>2 DEF HandleAudioMessage
    <3>3. ASSUME NEW r \in Recording, Convert(r) \/ StepFails(r) PROVE UNCHANGED textVars
      BY <3>3 DEF Convert, SyncRaw, CloseRaw, OpenRaw, CreateWav, WriteWavHeader, CopyData,
                  SyncWav, RemoveTmp, StepFails
    <3>4. CASE Crash
      BY <3>4 DEF Crash
    <3>5. CASE UNCHANGED vars
      BY <3>5 DEF vars, textVars
    <3> QED
      BY <3>1, <3>2, <3>3, <3>4, <3>5 DEF TurnsNext
  <2> QED
    BY <1>2, <1>3, <2>1
<1>5. AnswerInv => AnswerIsCorrection
  BY DEF AnswerInv
<1> QED
  BY <1>1, <1>4, <1>5, PTL DEF TurnsSpec
(***************************************************************************)
(* What was acknowledged is in the raw file, until the stop has its WAV.   *)
(***************************************************************************)
Heard(r) ==
    LET s == SidOf[r]
        whole == ~torn[r] => disk[s].tmp.data = accepted[r]
    IN accepted[r] # None =>
         /\ phase[r] # "idle"
         /\ phase[r] = "open" =>
              audioSessions[s] # None /\ audioSessions[s].file = "open" /\ whole
         /\ phase[r] \in Converting /\ by[r] = "stop" => whole

HeardInv == Inv /\ \A r \in Recording : Heard(r)

\* Only the recording that steps has to be looked at.
LEMMA HeardLocal ==
    ASSUME HeardInv, NEW r \in Recording, Local(r), NoOther(r), Heard(r)',
           \A q \in Recording \ {r} : accepted'[q] = accepted[q] /\ torn'[q] = torn[q]
                                       /\ by'[q] = by[q]
    PROVE  \A q \in Recording : Heard(q)'
<1> SUFFICES ASSUME NEW q \in Recording, q # r PROVE Heard(q)'
  OBVIOUS
<1>1. Heard(q) /\ phase'[q] = phase[q]
  BY DEF HeardInv, Local
<1>2. CASE SidOf[q] = SidOf[r]
  BY <1>1, <1>2 DEF NoOther, Heard, Active
<1>3. CASE SidOf[q] # SidOf[r]
  <2>1. SidOf[q] \in SessionID \ {SidOf[r]}
    BY <1>3, RecordingAssumption
  <2> QED
    BY <1>1, <2>1 DEF Heard, Local
<1> QED
  BY <1>2, <1>3

LEMMA StartHeard ==
    ASSUME HeardInv, NEW r \in Recording, Turn(r), StartSession(r)
    PROVE  \A q \in Recording : Heard(q)'
<1> DEFINE s == SidOf[r]
<1>1. /\ s \in SessionID
      /\ NoOther(r)
      /\ phase[r] = "idle"
      /\ phase' = [phase EXCEPT ![r] = "open"]
      /\ UNCHANGED <<by, torn>>
  BY RecordingAssumption DEF Turn, StartSession, GoTo, NoOther
<1>2. accepted[r] = None
  BY <1>1 DEF HeardInv, Heard
<1>3. CASE UNCHANGED <<audioSessions, disk, accepted, kept>>
  <2>1. Local(r)
    BY <1>1, <1>3 DEF Local, HeardInv, Inv, TypeOK
  <2>2. Heard(r)'
    BY <1>2, <1>3 DEF Heard
  <2> QED
    BY <1>1, <1>3, <2>1, <2>2, HeardLocal
<1>4. CASE /\ audioSessions' = [audioSessions EXCEPT ![s] = [path |-> "tmp", file |-> "open"]]
           /\ disk' = [disk EXCEPT ![s].tmp = Created(@)]
           /\ accepted' = [accepted EXCEPT ![r] = <<>>]
           /\ kept' = [kept EXCEPT ![s] = <<>>]
  <2>1. disk' = [disk EXCEPT ![s].tmp = Raw(<<>>)] /\ Raw(<<>>) \in File
    BY <1>4 DEF Created, Raw, File
  <2>2. disk'[s].tmp = Raw(<<>>)
    BY <1>1, <2>1 DEF HeardInv, Inv, TypeOK, Files
  <2>3. /\ audioSessions'[s] = [path |-> "tmp", file |-> "open"]
        /\ accepted'[r] = <<>>
        /\ phase'[r] = "open"
    BY <1>1, <1>4 DEF HeardInv, Inv, TypeOK
  <2>4. audioSessions'[s] # None
    BY <2>3, NoneAssumption DEF AudioSession
  <2>5. Heard(r)'
    BY <2>2, <2>3, <2>4 DEF Heard, Raw, Converting
  <2>6. Local(r)
    BY <1>1, <1>4, <2>1 DEF Local, HeardInv, Inv, TypeOK
  <2>7. \A q \in Recording \ {r} : accepted'[q] = accepted[q]
    BY <1>4 DEF HeardInv, Inv, TypeOK
  <2> QED
    BY <1>1, <2>5, <2>6, <2>7, HeardLocal
<1> QED
  BY <1>3, <1>4 DEF StartSession

LEMMA MessageHeard ==
    ASSUME HeardInv, NEW r \in Recording, NEW data \in Samples, HandleAudioMessage(r, data)
    PROVE  \A q \in Recording : Heard(q)'
<1> DEFINE s == SidOf[r]
           samples == Process(FormatOf[r], data)
<1>1. /\ s \in SessionID
      /\ NoOther(r)
      /\ phase[r] = "open"
      /\ Heard(r)
      /\ UNCHANGED <<audioSessions, phase, by>>
      /\ audioSessions[s] # None
      /\ audioSessions[s].file = "open"
  BY RecordingAssumption DEF HandleAudioMessage, HeardInv, Inv, Alone, Active
<1>2. disk[s].tmp \in File
  <2>1. disk[s].tmp # None
    BY <1>1 DEF HeardInv, Inv, OpenFile
  <2> QED
    BY <1>1, <2>1 DEF HeardInv, Inv, TypeOK, Files
<1>3. CASE /\ WriteRaw(s, samples)
           /\ accepted' = [accepted EXCEPT ![r] = IF @ = None THEN None ELSE @ \o samples]
           /\ UNCHANGED torn
  <2> DEFINE bytes == disk[s].tmp.data \o samples
  <2>1. disk' = [disk EXCEPT ![s].tmp.data = bytes] /\ kept' = [kept EXCEPT ![s] = @ \o samples]
    BY <1>3 DEF WriteRaw
  <2>2. accepted'[r] = IF accepted[r] = None THEN None ELSE accepted[r] \o samples
    BY <1>3 DEF HeardInv, Inv, TypeOK
  <2>3. \A q \in Recording \ {r} : accepted'[q] = accepted[q]
    BY <1>3 DEF HeardInv, Inv, TypeOK
  <2>4. ~torn[r] /\ accepted[r] # None => bytes = accepted[r] \o samples
    BY <1>1 DEF Heard
  <2> HIDE DEF bytes, samples
  <2>5. disk'[s].tmp.data = bytes /\ \A t \in SessionID \ {s} : disk'[t] = disk[t]
    BY <1>1, <1>2, <2>1 DEF HeardInv, Inv, TypeOK, Files, File
  <2>6. Heard(r)'
    BY <1>1, <1>3, <2>2, <2>4, <2>5 DEF Heard, Converting
  <2>7. Local(r)
    BY <1>1, <2>1, <2>5 DEF Local, HeardInv, Inv, TypeOK
  <2> QED
    BY <1>1, <1>3, <2>3, <2>6, <2>7, HeardLocal
<1>4. CASE /\ \E piece \in Prefixes(samples) \ {samples} : WriteRaw(s, piece)
           /\ torn' = [torn EXCEPT ![r] = TRUE]
           /\ UNCHANGED accepted
  <2>1. torn'[r] /\ \A q \in Recording \ {r} : torn'[q] = torn[q]
    BY <1>4 DEF HeardInv, Inv, TypeOK
  <2>2. \A t \in SessionID \ {s} : disk'[t] = disk[t] /\ kept'[t] = kept[t]
    BY <1>4 DEF WriteRaw, HeardInv, Inv, TypeOK
  <2>3. Heard(r)'
    BY <1>1, <2>1 DEF Heard, Converting
  <2>4. Local(r)
    BY <1>1, <2>2 DEF Local
  <2> QED
    BY <1>1, <1>4, <2>1, <2>3, <2>4, HeardLocal
<1> QED
  BY <1>3, <1>4 DEF HandleAudioMessage

LEMMA CallHeard ==
    ASSUME HeardInv, NEW r \in Recording, HandleStopMessage(r) \/ CloseSession(r)
    PROVE  /\ \A q \in Recording : Heard(q)'
           /\ phase'[r] = "fixing" => accepted[r] = None
<1> DEFINE s == SidOf[r]
<1>1. /\ s \in SessionID
      /\ NoOther(r)
      /\ phase[r] \in {"open", "closing"}
      /\ Heard(r)
  BY RecordingAssumption DEF HandleStopMessage, CloseSession, HeardInv, Inv, Alone, Active
<1>2. PICK caller \in {"stop", "close"} :
        CallClose(r, caller) /\ (caller = "stop" => phase[r] = "open")
  BY DEF HandleStopMessage, CloseSession
<1>3. /\ by' = [by EXCEPT ![r] = caller]
      /\ UNCHANGED <<audioSessions, disk, kept, accepted, torn>>
  BY <1>2 DEF CallClose, fileVars, clientVars
<1>4. \/ phase' = [phase EXCEPT ![r] = "sync"]
      \/ /\ phase' = [phase EXCEPT ![r] = "fixing"]
         /\ caller = "stop" /\ audioSessions[s].file = "nil"
      \/ phase' = [phase EXCEPT ![r] = "closing"]
      \/ phase' = [phase EXCEPT ![r] = "ended"]
  BY <1>2 DEF CallClose, Returned, GoTo
<1>5. /\ by'[r] = caller
      /\ \A q \in Recording \ {r} : by'[q] = by[q] /\ phase'[q] = phase[q]
      /\ phase'[r] \in {"sync", "fixing", "closing", "ended"}
      /\ phase'[r] = "fixing" => caller = "stop" /\ audioSessions[s].file = "nil"
  BY <1>3, <1>4 DEF HeardInv, Inv, TypeOK
<1>6. phase'[r] = "fixing" => accepted[r] = None
  BY <1>1, <1>2, <1>5 DEF Heard
<1>7. Heard(r)'
  BY <1>1, <1>2, <1>3, <1>5 DEF Heard, Converting
<1>8. Local(r)
  BY <1>3, <1>5 DEF Local
<1> QED
  BY <1>1, <1>3, <1>5, <1>6, <1>7, <1>8, HeardLocal
\* A step of the conversion is one of its recording only.
LEMMA LocalConvert ==
    ASSUME Inv, NEW r \in Recording, Convert(r) \/ StepFails(r)
    PROVE  Local(r)
<1> DEFINE s == SidOf[r]
<1> USE DEF Inv, TypeOK
<1>1. \A q \in Recording \ {r} : phase'[q] = phase[q]
  BY DEF Convert, SyncRaw, CloseRaw, OpenRaw, CreateWav, WriteWavHeader, CopyData, SyncWav,
         RemoveTmp, StepFails, Returned, GoTo
<1>2. \A t \in SessionID \ {s} : disk'[t] = disk[t]
  BY DEF Convert, SyncRaw, CloseRaw, OpenRaw, CreateWav, WriteWavHeader, CopyData, SyncWav,
         RemoveTmp, StepFails, fileVars
<1>3. \A t \in SessionID \ {s} : audioSessions'[t] = audioSessions[t]
  BY DEF Convert, SyncRaw, CloseRaw, OpenRaw, CreateWav, WriteWavHeader, CopyData, SyncWav,
         RemoveTmp, StepFails
<1>4. \A t \in SessionID \ {s} : kept'[t] = kept[t]
  BY DEF Convert, SyncRaw, CloseRaw, OpenRaw, CreateWav, WriteWavHeader, CopyData, SyncWav,
         RemoveTmp, StepFails, fileVars
<1> QED
  BY <1>1, <1>2, <1>3, <1>4 DEF Local

\* A step of the conversion keeps the raw file, but for the last, which has the
\* WAV file in its place.
LEMMA ConvertHeard ==
    ASSUME HeardInv, NEW r \in Recording, Convert(r) \/ StepFails(r)
    PROVE  /\ \A q \in Recording : Heard(q)'
           /\ phase'[r] = "fixing" =>
                (accepted[r] # None /\ ~torn[r] => disk'[SidOf[r]].wav = Wav(accepted[r]))
<1> DEFINE s == SidOf[r]
<1>1. phase[r] \in Converting /\ UNCHANGED <<by, accepted, torn>>
  BY DEF Convert, SyncRaw, CloseRaw, OpenRaw, CreateWav, WriteWavHeader, CopyData, SyncWav,
         RemoveTmp, StepFails, Converting, clientVars
<1>2. /\ s \in SessionID
      /\ NoOther(r)
      /\ Stage(r)
      /\ Heard(r)
  BY <1>1, InConversion DEF HeardInv
<1>3. disk \in [SessionID -> Files] /\ phase \in [Recording -> Active \cup {"idle", "ended", "lost"}]
  BY DEF HeardInv, Inv, TypeOK
<1>4. Local(r)
  BY LocalConvert DEF HeardInv
<1>5. CASE RemoveTmp(r)
  <2>1. phase[r] = "removeTmp" /\ Returned(r, by[r], TRUE)
    BY <1>5 DEF RemoveTmp
  <2>2. /\ disk[s].wav = Wav(kept[s])
        /\ disk[s].tmp.data = kept[s]
    BY <1>2, <2>1 DEF Stage, Converting
  <2>3. phase'[r] \notin Converting \cup {"idle", "open"} /\ (phase'[r] = "fixing" => by[r] = "stop")
    BY <1>3, <2>1 DEF Returned, GoTo, Converting
  <2>4. disk'[s].wav = disk[s].wav
    <3>1. CASE disk' = [disk EXCEPT ![s].tmp = None]
      <4>1. None \in File \cup {None}
        OBVIOUS
      <4> QED
        BY <1>2, <1>3, <3>1, <4>1, WithTmp
    <3> QED
      BY <1>5, <3>1 DEF RemoveTmp
  <2>5. Heard(r)'
    BY <2>3 DEF Heard
  <2>6. \A q \in Recording : Heard(q)'
    BY <1>1, <1>2, <1>4, <2>5, HeardLocal
  <2>7. accepted[r] # None /\ ~torn[r] /\ by[r] = "stop" => kept[s] = accepted[r]
    BY <1>1, <1>2, <2>2 DEF Heard
  <2> QED
    BY <2>2, <2>3, <2>4, <2>6, <2>7
<1>6. CASE StepFails(r)
  <2>1. Returned(r, by[r], FALSE)
    BY <1>6 DEF StepFails
  <2>2. phase'[r] \in {"closing", "ended"}
    BY <1>3, <2>1 DEF Returned, GoTo
  <2>3. Heard(r)'
    BY <2>2 DEF Heard, Converting
  <2>4. \A q \in Recording : Heard(q)'
    BY <1>1, <1>2, <1>4, <2>3, HeardLocal
  <2> QED
    BY <2>2, <2>4
<1>7. CASE SyncRaw(r) \/ CloseRaw(r) \/ OpenRaw(r) \/ CreateWav(r) \/ WriteWavHeader(r)
           \/ CopyData(r) \/ SyncWav(r)
  <2>1. phase'[r] \in Converting
    BY <1>3, <1>7 DEF SyncRaw, CloseRaw, OpenRaw, CreateWav, WriteWavHeader, CopyData, SyncWav,
                      GoTo, Converting
  <2>2. disk'[s].tmp = disk[s].tmp
    BY <1>2, <1>3, <1>7 DEF SyncRaw, CloseRaw, OpenRaw, CreateWav, WriteWavHeader, CopyData,
                            SyncWav, fileVars, Files
  <2>3. Heard(r)'
    BY <1>1, <1>2, <2>1, <2>2 DEF Heard, Converting
  <2>4. \A q \in Recording : Heard(q)'
    BY <1>1, <1>2, <1>4, <2>3, HeardLocal
  <2> QED
    BY <2>1, <2>4 DEF Converting
<1> QED
  BY <1>5, <1>6, <1>7 DEF Convert

LEMMA OtherHeard ==
    ASSUME HeardInv,
           (\E r \in Recording : FixTextAnswer(r)) \/ Crash \/ UNCHANGED vars
    PROVE  \A q \in Recording : Heard(q)' /\ (phase'[q] = "fixing" => phase[q] = "fixing")
<1>1. ASSUME NEW r \in Recording, FixTextAnswer(r)
      PROVE  \A q \in Recording : Heard(q)' /\ (phase'[q] = "fixing" => phase[q] = "fixing")
  <2>1. /\ phase' = [phase EXCEPT ![r] = "closing"]
        /\ UNCHANGED <<audioSessions, disk, by, accepted, torn>>
    BY <1>1 DEF FixTextAnswer, GoTo, fileVars, clientVars
  <2>2. \A q \in Recording : phase'[q] = IF q = r THEN "closing" ELSE phase[q]
    BY <2>1 DEF HeardInv, Inv, TypeOK
  <2> QED
    BY <2>1, <2>2 DEF HeardInv, Heard, Converting
<1>2. CASE Crash
  <2>1. \A q \in Recording : phase'[q] \notin Active /\ (phase'[q] = "idle" => phase[q] = "idle")
    BY <1>2 DEF Crash, Active, Converting
  <2>2. UNCHANGED accepted
    BY <1>2 DEF Crash, clientVars
  <2> QED
    BY <2>1, <2>2 DEF HeardInv, Heard, Active
<1>3. CASE UNCHANGED vars
  BY <1>3 DEF vars, HeardInv, Heard
<1> QED
  BY <1>1, <1>2, <1>3

\* A stop that goes on to transcribe has all of its recording in the WAV file.
THEOREM StopFinds == TurnsSpec => StopFindsItsAudio
<1>1. Init => HeardInv
  BY InitInv DEF Init, HeardInv, Heard
<1>2. ASSUME HeardInv, [TurnsNext]_vars
      PROVE  /\ HeardInv'
             /\ \A r \in Recording :
                  phase[r] # "fixing" /\ phase'[r] = "fixing" /\ accepted[r] # None /\ ~torn[r]
                    => disk'[SidOf[r]].wav = Wav(accepted[r])
  <2>0. Inv'
    BY <1>2, StepInv DEF HeardInv
  <2> DEFINE HasWav(r) ==
               phase[r] # "fixing" /\ phase'[r] = "fixing" /\ accepted[r] # None /\ ~torn[r]
                 => disk'[SidOf[r]].wav = Wav(accepted[r])
  <2>1. ASSUME NEW r \in Recording, Turn(r), StartSession(r)
        PROVE  /\ \A q \in Recording : Heard(q)'
               /\ \A q \in Recording : HasWav(q)
    <3>1. \A q \in Recording : phase[q] # "fixing" => phase'[q] # "fixing"
      BY <1>2, <2>1 DEF StartSession, GoTo, HeardInv, Inv, TypeOK
    <3> QED
      BY <1>2, <2>1, <3>1, StartHeard
  <2>2. ASSUME NEW r \in Recording, NEW data \in Samples, HandleAudioMessage(r, data)
        PROVE  /\ \A q \in Recording : Heard(q)'
               /\ \A q \in Recording : HasWav(q)
    <3>1. phase' = phase
      BY <2>2 DEF HandleAudioMessage
    <3> QED
      BY <1>2, <2>2, <3>1, MessageHeard
  <2>3. ASSUME NEW r \in Recording, HandleStopMessage(r) \/ CloseSession(r)
        PROVE  /\ \A q \in Recording : Heard(q)'
               /\ \A q \in Recording : HasWav(q)
    <3>1. \A q \in Recording \ {r} : phase'[q] = phase[q]
      BY <1>2, <2>3 DEF HandleStopMessage, CloseSession, CallClose, Returned, GoTo,
                        HeardInv, Inv, TypeOK
    <3>2. (\A q \in Recording : Heard(q)') /\ (phase'[r] = "fixing" => accepted[r] = None)
      BY <1>2, <2>3, CallHeard
    <3> QED
      BY <3>1, <3>2
  <2>4. ASSUME NEW r \in Recording, Convert(r) \/ StepFails(r)
        PROVE  /\ \A q \in Recording : Heard(q)'
               /\ \A q \in Recording : HasWav(q)
    <3>1. \A q \in Recording \ {r} : phase'[q] = phase[q]
      BY <1>2, <2>4, LocalConvert DEF HeardInv, Local
    <3>2. /\ \A q \in Recording : Heard(q)'
          /\ phase'[r] = "fixing" =>
               (accepted[r] # None /\ ~torn[r] => disk'[SidOf[r]].wav = Wav(accepted[r]))
      BY <1>2, <2>4, ConvertHeard
    <3> QED
      BY <3>1, <3>2
  <2>5. ASSUME (\E r \in Recording : FixTextAnswer(r)) \/ Crash \/ UNCHANGED vars
        PROVE  /\ \A q \in Recording : Heard(q)'
               /\ \A q \in Recording : HasWav(q)
    <3>1. \A q \in Recording : Heard(q)' /\ (phase'[q] = "fixing" => phase[q] = "fixing")
      <4> HIDE DEF HasWav
      <4> QED
        BY <1>2, <2>5, OtherHeard
    <3> QED
      BY <3>1
  <2> HIDE DEF HasWav
  <2>6. /\ \A q \in Recording : Heard(q)'
        /\ \A q \in Recording : HasWav(q)
    <3>1. CASE \E r \in Recording : Turn(r) /\ StartSession(r)
      BY <3>1, <2>1
    <3>2. CASE \E r \in Recording : \E data \in Samples : HandleAudioMessage(r, data)
      BY <3>2, <2>2
    <3>3. CASE \E r \in Recording : HandleStopMessage(r) \/ CloseSession(r)
      BY <3>3, <2>3
    <3>4. CASE \E r \in Recording : Convert(r) \/ StepFails(r)
      BY <3>4, <2>4
    <3>5. CASE (\E r \in Recording : FixTextAnswer(r)) \/ Crash \/ UNCHANGED vars
      BY <3>5, <2>5
    <3> QED
      BY <1>2, <3>1, <3>2, <3>3, <3>4, <3>5 DEF TurnsNext
  <2>7. \A r \in Recording :
          phase[r] # "fixing" /\ phase'[r] = "fixing" /\ accepted[r] # None /\ ~torn[r]
            => disk'[SidOf[r]].wav = Wav(accepted[r])
    BY <2>6 DEF HasWav
  <2> QED
    BY <2>0, <2>6, <2>7 DEF HeardInv
<1> QED
  BY <1>1, <1>2, PTL DEF TurnsSpec, StopFindsItsAudio
=============================================================================
