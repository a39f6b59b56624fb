--------------------------- MODULE UpdatesProofs ---------------------------
(***************************************************************************)
(* Theorems about Updates, for every set of clients, releases and names,   *)
(* and however often releases are published and the server restarted.      *)
(***************************************************************************)
EXTENDS Updates, TLAPS

(***************************************************************************)
(* Types.                                                                  *)
(***************************************************************************)
LEMMA BlankType == \A version \in Version : Blank(version) \in Request
BY DEF Blank, Request

LEMMA SetFileType ==
    ASSUME TypeOK, NEW d \in Directory, NEW p \in Program, NEW s \in Signed,
           NEW bytes \in Bytes \cup {None}, SetFile(d, p, s, bytes)
    PROVE  TypeOK'
<1>1. files' \in [Directory -> [Program -> [Signed -> Bytes \cup {None}]]]
  BY DEF SetFile, TypeOK
<1> QED
  BY <1>1 DEF SetFile, TypeOK

LEMMA NoReleaseType == \A c \in Client : TypeOK /\ NoRelease(c) => TypeOK'
BY BlankType DEF TypeOK, NoRelease, Done, Goto, published

\* A request looks at a directory of releases, for a program that was found there.
Places ==
    \A c \in Client :
        /\ pc[c] \notin {"idle", "stat"} => ReleasePath(c) \in Directory
        /\ pc[c] \notin {"idle", "stat", "find"} => req[c].program \in Program

LEMMA ClientType == \A c \in Client : TypeOK /\ Places /\ ClientStep(c) => TypeOK'
<1> SUFFICES ASSUME NEW c \in Client, TypeOK, Places, ClientStep(c) PROVE TypeOK'
  OBVIOUS
<1> USE NoReleaseType
<1>1. CASE Ask(c)
  BY <1>1, BlankType DEF TypeOK, Ask, Goto, published
<1>2. CASE StatDirectory(c)
  BY <1>2 DEF TypeOK, StatDirectory, Goto, published
<1>3. CASE FindProgramFile(c)
  <2>1. CASE NoRelease(c)
    BY <2>1
  <2>2. ASSUME NEW i \in DOMAIN Names,
               req' = [req EXCEPT ![c].program = Names[i]],
               Goto(c, "statSig"), UNCHANGED <<published, opened, installed>>
        PROVE  TypeOK'
    <3>1. Names[i] \in Program
      BY DEF Program
    <3>2. req' \in [Client -> Request]
      BY <2>2, <3>1 DEF TypeOK, Request
    <3> QED
      BY <2>2, <3>2 DEF TypeOK, Goto, published
  <2> QED
    BY <1>3, <2>1, <2>2 DEF FindProgramFile
<1>4. CASE StatSignature(c)
  BY <1>4 DEF TypeOK, StatSignature, Goto, published
<1>5. CASE ReadSignature(c)
  <2>1. CASE NoRelease(c)
    BY <2>1
  <2>2. CASE ~NoRelease(c)
    <3> DEFINE bytes == files[ReleasePath(c)][req[c].program]["signature"]
    <3>1. /\ ReleasePath(c) \in Directory
          /\ bytes # None
          /\ req' = [req EXCEPT ![c].signature = bytes]
          /\ Goto(c, "info")
          /\ UNCHANGED <<published, opened, installed>>
      BY <1>5, <2>2 DEF ReadSignature, FileExists
    <3>2. req[c].program \in Program
      BY <1>5 DEF Places, ReadSignature
    <3>3. bytes \in Bytes \cup {None}
      BY <3>1, <3>2 DEF TypeOK, Signed
    <3>4. req' \in [Client -> Request]
      BY <3>1, <3>3 DEF TypeOK, Request
    <3> QED
      BY <3>1, <3>4 DEF TypeOK, Goto, published
  <2> QED
    BY <2>1, <2>2
<1>6. CASE OfferRelease(c)
  BY <1>6 DEF TypeOK, OfferRelease, Goto, published
<1>7. CASE Download(c)
  <2>1. ReleasePath(c) \in Directory /\ req[c].program \in Program
    BY <1>7 DEF Places, Download
  <2>2. Served(c) \in Bytes \cup {None}
    BY <2>1 DEF TypeOK, Served, Signed
  <2>3. opened' \in [Directory -> [Program -> Bytes \cup {None}]]
    BY <1>7, <2>1, <2>2 DEF TypeOK, Download
  <2> QED
    BY <1>7, <2>3, BlankType DEF TypeOK, Download, Done, Goto, published, Request, Version
<1> QED
  BY <1>1, <1>2, <1>3, <1>4, <1>5, <1>6, <1>7 DEF ClientStep
LEMMA PublisherType == \A d \in Directory : TypeOK /\ PublisherStep(d) => TypeOK'
<1> SUFFICES ASSUME NEW d \in Directory, TypeOK, PublisherStep(d) PROVE TypeOK'
  OBVIOUS
<1>1. CASE Publish(d) \/ Withdraw(d) \/ RemoveDirectory(d)
  <2>1. phase' \in [Directory -> {"absent", "publishing", "withdrawing"}]
    BY <1>1 DEF TypeOK, Publish, Withdraw, RemoveDirectory
  <2>2. build' \in [Directory -> Nat]
    <3>1. build \in [Directory -> Nat] /\ build[d] + 1 \in Nat
      BY DEF TypeOK
    <3>2. build' = build \/ build' = [build EXCEPT ![d] = build[d] + 1]
      BY <1>1 DEF Publish, Withdraw, RemoveDirectory
    <3> QED
      BY <3>1, <3>2
  <2>3. UNCHANGED <<actual, restarts, files, opened, installed, pc, req>>
    BY <1>1 DEF Publish, Withdraw, RemoveDirectory
  <2> QED
    BY <2>1, <2>2, <2>3 DEF TypeOK
<1>2. ASSUME NEW p \in Program, NEW s \in Signed,
             CopyBegin(d, p, s) \/ CopyEnd(d, p, s) \/ RemoveFile(d, p, s)
      PROVE  TypeOK'
  <2>1. PICK bytes \in Bytes \cup {None} : SetFile(d, p, s, bytes)
    BY <1>2 DEF CopyBegin, CopyEnd, RemoveFile, TypeOK, Bytes
  <2> QED
    BY <2>1, SetFileType
<1> QED
  BY <1>1, <1>2 DEF PublisherStep

LEMMA CloseType ==
    \A d \in Directory, p \in Program : TypeOK /\ CloseOpened(d, p) => TypeOK'
BY DEF TypeOK, CloseOpened, published

LEMMA RestartType == \A version \in Version : TypeOK /\ Restart(version) => TypeOK'
<1> SUFFICES ASSUME NEW version \in Version, TypeOK, Restart(version) PROVE TypeOK'
  OBVIOUS
<1> USE UpdatesAssumption
<1>1. req' \in [Client -> Request]
  BY BlankType DEF TypeOK, Restart
<1> QED
  BY <1>1 DEF TypeOK, Restart, NothingOpen

LEMMA NoReleasePlaces == \A c \in Client : TypeOK /\ Places /\ NoRelease(c) => Places'
BY DEF TypeOK, Places, NoRelease, Done, Goto, ReleasePath

LEMMA ClientPlaces == \A c \in Client : TypeOK /\ Places /\ ClientStep(c) => Places'
<1> SUFFICES ASSUME NEW c \in Client, TypeOK, Places, ClientStep(c) PROVE Places'
  OBVIOUS
<1> USE NoReleasePlaces DEF TypeOK, Places, Goto, ReleasePath
<1>1. CASE Ask(c)
  BY <1>1 DEF Ask
<1>2. CASE StatDirectory(c)
  BY <1>2 DEF StatDirectory, Exists
<1>3. CASE FindProgramFile(c)
  <2>1. CASE NoRelease(c)
    BY <2>1
  <2>2. ASSUME NEW i \in DOMAIN Names,
               req' = [req EXCEPT ![c].program = Names[i]],
               pc' = [pc EXCEPT ![c] = "statSig"]
        PROVE  Places'
    <3>1. Names[i] \in Program
      BY DEF Program
    <3>2. req'[c].program = Names[i] /\ req'[c].version = req[c].version
      BY <2>2 DEF Request
    <3>3. ReleasePath(c) \in Directory
      BY <1>3 DEF FindProgramFile
    <3> QED
      BY <2>2, <3>1, <3>2, <3>3
  <2>3. CASE ~NoRelease(c)
    <3>1. PICK i \in DOMAIN Names :
            /\ req' = [req EXCEPT ![c].program = Names[i]]
            /\ pc' = [pc EXCEPT ![c] = "statSig"]
      BY <1>3, <2>3 DEF FindProgramFile
    <3> QED
      BY <3>1, <2>2
  <2> QED
    BY <2>1, <2>3
<1>4. CASE StatSignature(c)
  BY <1>4 DEF StatSignature
<1>5. CASE ReadSignature(c)
  <2>1. CASE NoRelease(c)
    BY <2>1
  <2>2. CASE ~NoRelease(c)
    <3>1. /\ req' = [req EXCEPT ![c].signature =
                        files[ReleasePath(c)][req[c].program]["signature"]]
          /\ pc' = [pc EXCEPT ![c] = "info"]
          /\ pc[c] = "readSig"
      BY <1>5, <2>2 DEF ReadSignature
    <3>2. req'[c].program = req[c].program /\ req'[c].version = req[c].version
      BY <3>1 DEF Request
    <3> QED
      BY <3>1, <3>2
  <2> QED
    BY <2>1, <2>2
<1>6. CASE OfferRelease(c)
  BY <1>6 DEF OfferRelease
<1>7. CASE Download(c)
  BY <1>7 DEF Download, Done
<1> QED
  BY <1>1, <1>2, <1>3, <1>4, <1>5, <1>6, <1>7 DEF ClientStep

LEMMA RequestsKept ==
    ASSUME UNCHANGED <<pc, req>>, Places
    PROVE  Places'
BY DEF Places, ReleasePath

LEMMA PublisherKeeps ==
    \A d \in Directory :
        PublisherStep(d) => UNCHANGED <<actual, restarts, opened, installed, pc, req>>
BY DEF PublisherStep, Publish, Withdraw, RemoveDirectory, CopyBegin, CopyEnd, RemoveFile, SetFile

\* Every variable keeps its type, and a request its place.
THEOREM TypeCorrect == Spec => [](TypeOK /\ Places)
<1>1. Init => TypeOK /\ Places
  BY BlankType, UpdatesAssumption DEF Init, TypeOK, NothingOpen, Places, Signed
<1>2. TypeOK /\ Places /\ [Next]_vars => TypeOK' /\ Places'
  <2> SUFFICES ASSUME TypeOK, Places, [Next]_vars PROVE TypeOK' /\ Places'
    OBVIOUS
  <2>1. ASSUME NEW c \in Client, ClientStep(c) PROVE TypeOK' /\ Places'
    BY <2>1, ClientType, ClientPlaces
  <2>2. ASSUME NEW d \in Directory, PublisherStep(d) PROVE TypeOK' /\ Places'
    BY <2>2, PublisherType, PublisherKeeps, RequestsKept
  <2>3. ASSUME NEW version \in Version, Restart(version) PROVE TypeOK' /\ Places'
    BY <2>3, RestartType DEF Restart, Places, ReleasePath, TypeOK
  <2>4. ASSUME NEW d \in Directory, NEW p \in Program, CloseOpened(d, p)
        PROVE  TypeOK' /\ Places'
    BY <2>4, CloseType, RequestsKept DEF CloseOpened
  <2>5. CASE UNCHANGED vars
    BY <2>5 DEF vars, TypeOK, Places, ReleasePath
  <2> QED
    BY <2>1, <2>2, <2>3, <2>4, <2>5 DEF Next
<1> QED
  BY <1>1, <1>2, PTL DEF Spec
(***************************************************************************)
(* What the files say of each other, and what a request has read of them.  *)
(***************************************************************************)

\* The whole program file of a build.
WholeProgram(p, b) == [of |-> p, build |-> b, whole |-> TRUE]

\* A directory holds files of its current build only, and while it is being
\* published no signature without the whole program.
FilesInv ==
    \A d \in Directory, p \in Program :
        /\ \A s \in Signed : files[d][p][s] # None =>
            /\ phase[d] # "absent"
            /\ files[d][p][s].of = p
            /\ files[d][p][s].build = build[d]
        /\ phase[d] = "publishing" /\ files[d][p]["signature"] # None =>
            files[d][p]["program"] = WholeProgram(p, build[d])

\* What a request read is a signature of its program, of a build that was there;
\* while that build is, so is the whole program.
ReadInv ==
    \A c \in Client : pc[c] \in {"info", "offered"} =>
        LET d == ReleasePath(c)
            signature == req[c].signature
        IN /\ signature # None
           /\ signature.of = req[c].program
           /\ signature.build <= build[d]
           /\ phase[d] = "publishing" /\ signature.build = build[d] =>
                files[d][req[c].program]["program"] = WholeProgram(req[c].program, build[d])

Inv == TypeOK /\ Places /\ FilesInv /\ ReadInv

LEMMA ReadOfOne == Inv => OfferIsOfOneRelease
<1> SUFFICES ASSUME Inv, NEW c \in Client, pc[c] = "offered"
             PROVE  LET d == ReleasePath(c)
                        signature == req[c].signature
                    IN /\ signature # None
                       /\ signature.of = req[c].program
                       /\ phase[d] = "publishing" /\ signature.build = build[d] =>
                            files[d][req[c].program]["program"]
                                = [of |-> signature.of, build |-> signature.build, whole |-> TRUE]
  BY DEF OfferIsOfOneRelease
<1> QED
  BY DEF Inv, ReadInv, WholeProgram

\* A step of a client changes no file, and what it reads it keeps as it was.
LEMMA ClientReads == \A c \in Client : Inv /\ ClientStep(c) => ReadInv'
<1> SUFFICES ASSUME NEW c \in Client, Inv, ClientStep(c) PROVE ReadInv'
  OBVIOUS
<1>1. UNCHANGED published
  BY DEF ClientStep, Ask, StatDirectory, FindProgramFile, StatSignature, ReadSignature,
         OfferRelease, Download, NoRelease, Done
<1>2. \A e \in Client : e # c => pc'[e] = pc[e] /\ req'[e] = req[e]
  BY DEF ClientStep, Ask, StatDirectory, FindProgramFile, StatSignature, ReadSignature,
         OfferRelease, Download, NoRelease, Done, Goto, Inv, TypeOK
<1>3. CASE pc'[c] \notin {"info", "offered"}
  BY <1>1, <1>2, <1>3 DEF ReadInv, Inv, published, ReleasePath
<1>4. CASE pc'[c] \in {"info", "offered"}
  <2>1. CASE ReadSignature(c)
    <3>1. /\ pc[c] = "readSig"
          /\ req' = [req EXCEPT ![c].signature =
                        files[ReleasePath(c)][req[c].program]["signature"]]
          /\ FileExists(ReleasePath(c), req[c].program, "signature")
      BY <2>1, <1>4 DEF ReadSignature, NoRelease, Done, Goto, Inv, TypeOK
    <3>2. /\ req'[c].program = req[c].program
          /\ req'[c].version = req[c].version
          /\ req'[c].signature = files[ReleasePath(c)][req[c].program]["signature"]
      BY <3>1 DEF Inv, TypeOK, Request
    <3>3. ReleasePath(c) \in Directory /\ req[c].program \in Program
      BY <3>1 DEF Inv, Places
    <3>4. build[ReleasePath(c)] \in Nat
      BY <3>3 DEF Inv, TypeOK
    <3> DEFINE d == ReleasePath(c)
               p == req[c].program
               bytes == files[d][p]["signature"]
    <3>5. /\ bytes # None
          /\ bytes.of = p
          /\ bytes.build = build[d]
          /\ phase[d] = "publishing" => files[d][p]["program"] = WholeProgram(p, build[d])
      BY <3>1, <3>3 DEF FileExists, Inv, FilesInv, Signed
    <3>6. ReleasePath(c)' = d
      BY <3>2 DEF ReleasePath
    <3> HIDE DEF d, p, bytes
    <3>7. req'[c].program = p /\ req'[c].signature = bytes /\ build[d] \in Nat
      BY <3>2, <3>4 DEF d, p, bytes
    <3>8. ASSUME NEW e \in Client, e # c, pc'[e] \in {"info", "offered"}
          PROVE  LET f == ReleasePath(e)'
                     signature == req'[e].signature
                 IN /\ signature # None
                    /\ signature.of = req'[e].program
                    /\ signature.build <= build'[f]
                    /\ phase'[f] = "publishing" /\ signature.build = build'[f] =>
                        files'[f][req'[e].program]["program"]
                            = WholeProgram(req'[e].program, build'[f])
      BY <3>8, <1>1, <1>2 DEF Inv, ReadInv, published, ReleasePath
    <3> QED
      BY <1>1, <3>5, <3>6, <3>7, <3>8 DEF ReadInv, published, ReleasePath
  <2>2. CASE OfferRelease(c)
    <3>1. pc[c] = "info" /\ req' = req
      BY <2>2, <1>4 DEF OfferRelease, NoRelease, Done, Goto, Inv, TypeOK
    <3> QED
      BY <3>1, <1>1, <1>2 DEF ReadInv, Inv, published, ReleasePath
  <2>3. CASE Ask(c) \/ StatDirectory(c) \/ FindProgramFile(c) \/ StatSignature(c) \/ Download(c)
    BY <2>3, <1>4 DEF Ask, StatDirectory, FindProgramFile, StatSignature, Download,
                      NoRelease, Done, Goto, Inv, TypeOK
  <2> QED
    BY <2>1, <2>2, <2>3 DEF ClientStep
<1> QED
  BY <1>3, <1>4

LEMMA ClientFiles == \A c \in Client : FilesInv /\ ClientStep(c) => FilesInv'
BY DEF ClientStep, Ask, StatDirectory, FindProgramFile, StatSignature, ReadSignature,
       OfferRelease, Download, NoRelease, Done, FilesInv, published
\* Copying and removing a file: only this file changes.
LEMMA CopiedFile ==
    ASSUME Inv, NEW d \in Directory, NEW p \in Program, NEW s \in Signed,
           CopyBegin(d, p, s) \/ CopyEnd(d, p, s) \/ RemoveFile(d, p, s)
    PROVE  FilesInv' /\ ReadInv'
<1>1. /\ UNCHANGED <<actual, restarts, phase, build, installed, pc, req>>
      /\ \A e \in Directory, q \in Program, t \in Signed :
            e # d \/ q # p \/ t # s => files'[e][q][t] = files[e][q][t]
  BY DEF CopyBegin, CopyEnd, RemoveFile, SetFile, Inv, TypeOK
<1>2. CASE RemoveFile(d, p, s)
  <2>1. phase[d] = "withdrawing" /\ files'[d][p][s] = None
    BY <1>2 DEF RemoveFile, SetFile, Inv, TypeOK
  <2>2. FilesInv'
    BY <1>1, <2>1 DEF Inv, FilesInv, Signed
  <2>3. ReadInv'
    BY <1>1, <2>1 DEF Inv, ReadInv, ReleasePath, Places, Signed
  <2> QED
    BY <2>2, <2>3
<1>3. CASE CopyBegin(d, p, s) \/ CopyEnd(d, p, s)
  <2>1. /\ phase[d] = "publishing"
        /\ ~files[d][p][s].whole
        /\ files'[d][p][s].of = p
        /\ files'[d][p][s].build = build[d]
        /\ CopyBegin(d, p, s) \/ files[d][p][s] # None
    BY <1>3 DEF CopyBegin, CopyEnd, SetFile, None, Inv, TypeOK
  <2>2. \A q \in Program, b \in Nat : WholeProgram(q, b).whole
    BY DEF WholeProgram
  <2>3. build[d] \in Nat
    BY DEF Inv, TypeOK
  <2>4. CASE s = "program"
    <3>1. files[d][p]["signature"] = None
      BY <2>1, <2>2, <2>3, <2>4 DEF Inv, FilesInv
    <3>2. FilesInv'
      BY <1>1, <2>1, <2>4, <3>1 DEF Inv, FilesInv, Signed
    <3>3. ASSUME NEW c \in Client, pc[c] \in {"info", "offered"}, ReleasePath(c) = d,
                 req[c].program = p, req[c].signature.build = build[d]
          PROVE  FALSE
      BY <2>1, <2>2, <2>3, <2>4, <3>3 DEF Inv, ReadInv
    <3>4. ReadInv'
      BY <1>1, <3>3, <2>4 DEF Inv, ReadInv, ReleasePath, Places, Signed
    <3> QED
      BY <3>2, <3>4
  <2>5. CASE s = "signature"
    <3>1. files[d][p]["program"] = WholeProgram(p, build[d])
      <4>1. CASE CopyBegin(d, p, s)
        <5>1. files[d][p]["program"].whole
          BY <4>1, <2>5 DEF CopyBegin
        <5>2. files[d][p]["program"] \in Bytes \cup {None}
          BY DEF Inv, TypeOK, Signed
        <5>3. files[d][p]["program"] # None
          BY <5>1 DEF None
        <5>4. files[d][p]["program"].of = p /\ files[d][p]["program"].build = build[d]
          BY <5>3 DEF Inv, FilesInv, Signed
        <5> QED
          BY <5>1, <5>2, <5>3, <5>4 DEF Bytes, WholeProgram
      <4>2. CASE files[d][p][s] # None
        BY <4>2, <2>1, <2>5 DEF Inv, FilesInv
      <4> QED
        BY <2>1, <4>1, <4>2
    <3>2. FilesInv'
      BY <1>1, <2>1, <2>5, <3>1 DEF Inv, FilesInv, Signed
    <3>3. ReadInv'
      BY <1>1, <2>5 DEF Inv, ReadInv, ReleasePath, Places, Signed
    <3> QED
      BY <3>2, <3>3
  <2> QED
    BY <2>4, <2>5 DEF Signed
<1> QED
  BY <1>2, <1>3

LEMMA PublisherReads == \A d \in Directory : Inv /\ PublisherStep(d) => FilesInv' /\ ReadInv'
<1> SUFFICES ASSUME NEW d \in Directory, Inv, PublisherStep(d) PROVE FilesInv' /\ ReadInv'
  OBVIOUS
<1>1. ASSUME NEW p \in Program, NEW s \in Signed,
             CopyBegin(d, p, s) \/ CopyEnd(d, p, s) \/ RemoveFile(d, p, s)
      PROVE  FilesInv' /\ ReadInv'
  BY <1>1, CopiedFile
<1>2. CASE Publish(d)
  <2>1. /\ phase[d] = "absent"
        /\ phase' = [phase EXCEPT ![d] = "publishing"]
        /\ build' = [build EXCEPT ![d] = @ + 1]
        /\ UNCHANGED <<files, pc, req>>
        /\ phase \in [Directory -> {"absent", "publishing", "withdrawing"}]
        /\ build \in [Directory -> Nat]
    BY <1>2 DEF Publish, Inv, TypeOK
  <2>2. \A p \in Program, s \in Signed : files[d][p][s] = None
    BY <2>1 DEF Inv, FilesInv
  <2>3. FilesInv'
    BY <2>1, <2>2 DEF Inv, FilesInv, Signed
  <2>4. ASSUME NEW c \in Client, pc[c] \in {"info", "offered"}, ReleasePath(c) = d
        PROVE  req[c].signature.build < build'[d] /\ req[c].signature.build \in Nat
    <3>1. req[c].signature \in Bytes
      BY <2>4 DEF Inv, TypeOK, ReadInv, Request
    <3>2. req[c].signature.build \in Nat
      BY <3>1 DEF Bytes
    <3>3. req[c].signature.build <= build[d]
      BY <2>4 DEF Inv, ReadInv
    <3> QED
      BY <2>1, <3>2, <3>3
  <2>5. ReadInv'
    BY <2>1, <2>4 DEF Inv, ReadInv, ReleasePath, Places
  <2> QED
    BY <2>3, <2>5
<1>3. CASE Withdraw(d) \/ RemoveDirectory(d)
  <2>1. /\ phase'[d] # "publishing"
        /\ phase'[d] = "absent" => \A p \in Program, s \in Signed : files[d][p][s] = None
        /\ \A e \in Directory : e # d => phase'[e] = phase[e]
        /\ UNCHANGED <<files, build, pc, req>>
    BY <1>3 DEF Withdraw, RemoveDirectory, Inv, TypeOK
  <2>2. FilesInv'
    BY <2>1 DEF Inv, FilesInv, Signed
  <2>3. ReadInv'
    BY <2>1 DEF Inv, ReadInv, ReleasePath, Places
  <2> QED
    BY <2>2, <2>3
<1> QED
  BY <1>1, <1>2, <1>3 DEF PublisherStep

LEMMA Invariant == Spec => []Inv
<1>1. Init => FilesInv /\ ReadInv
  BY DEF Init, FilesInv, ReadInv
<1>2. Inv /\ [Next]_vars => FilesInv' /\ ReadInv'
  <2> SUFFICES ASSUME Inv, [Next]_vars PROVE FilesInv' /\ ReadInv'
    OBVIOUS
  <2>1. ASSUME NEW c \in Client, ClientStep(c) PROVE FilesInv' /\ ReadInv'
    BY <2>1, ClientReads, ClientFiles DEF Inv
  <2>2. ASSUME NEW d \in Directory, PublisherStep(d) PROVE FilesInv' /\ ReadInv'
    BY <2>2, PublisherReads
  <2>3. ASSUME NEW version \in Version, Restart(version) PROVE FilesInv' /\ ReadInv'
    <3>1. FilesInv'
      BY <2>3 DEF Inv, FilesInv, Restart
    <3>2. ReadInv'
      BY <2>3 DEF Inv, TypeOK, ReadInv, Restart, ReleasePath
    <3> QED
      BY <3>1, <3>2
  <2>4. CASE UNCHANGED <<phase, build, files, pc, req>>
    BY <2>4 DEF Inv, FilesInv, ReadInv, ReleasePath
  <2> QED
    BY <2>1, <2>2, <2>3, <2>4 DEF Next, CloseOpened, published, vars
<1> QED
  BY <1>1, <1>2, TypeCorrect, PTL DEF Inv, Spec

\* An offer is of one release, whoever copies, removes and restarts when.
THEOREM OfferConsistent == Spec => []OfferIsOfOneRelease
BY Invariant, ReadOfOne, PTL

\* An offer that was answered installs for as long as its build is published, also
\* over a restart, but for a download from a file that was opened before.
THEOREM OfferHolds == Spec => OfferedInstalls
<1> DEFINE A(c) ==
        LET d == ReleasePath(c)
        IN /\ pc[c] = "offered" /\ pc'[c] # "offered"
           /\ req[c].signature.whole
           /\ phase[d] = "publishing"
           /\ req[c].signature.build = build[d]
           /\ ~Outdated(d, req[c].program)
           => installed'[c] = req[c].version.number
<1>1. Inv /\ [Next]_vars => [\A c \in Client : A(c)]_vars
  <2> SUFFICES ASSUME Inv, Next, NEW c \in Client,
                      pc[c] = "offered", pc'[c] # "offered",
                      req[c].signature.whole,
                      phase[ReleasePath(c)] = "publishing",
                      req[c].signature.build = build[ReleasePath(c)],
                      ~Outdated(ReleasePath(c), req[c].program)
               PROVE  installed'[c] = req[c].version.number
    OBVIOUS
  <2>1. Download(c)
    <3>1. ~ \E version \in Version : Restart(version)
      BY DEF Restart
    <3>2. ~ \E d \in Directory : PublisherStep(d)
      BY PublisherKeeps
    <3>3. PICK e \in Client : ClientStep(e)
      BY <3>1, <3>2 DEF Next, CloseOpened
    <3>4. e = c
      BY <3>3 DEF ClientStep, Ask, StatDirectory, FindProgramFile, StatSignature,
                  ReadSignature, OfferRelease, Download, NoRelease, Done, Goto, Inv, TypeOK
    <3> QED
      BY <3>3, <3>4 DEF ClientStep, Ask, StatDirectory, FindProgramFile, StatSignature,
                        ReadSignature, OfferRelease
  <2>2. req[c].signature \in Bytes /\ req[c].signature # None
    BY DEF Inv, TypeOK, ReadInv, Request
  <2>3. Served(c) = req[c].signature
    BY <2>2 DEF Inv, ReadInv, Served, Outdated, WholeProgram, Bytes
  <2> QED
    BY <2>1, <2>2, <2>3 DEF Download, Verifies, Inv, TypeOK
<1> QED
  BY <1>1, Invariant, PTL DEF Spec, OfferedInstalls

(***************************************************************************)
(* How far a client is from running the actual version: what               *)
(* ClientsConverge and UpdatesStop rest on.                                *)
(***************************************************************************)
\* A request is for the actual version of the server it runs on, of a program of
\* the release; an offer may be older.  No directory holds a file that its release
\* does not consist of.
AskedInv ==
    /\ \A c \in Client :
        /\ pc[c] \notin {"idle", "offered"} => req[c].version = actual
        /\ pc[c] \notin {"idle", "stat", "find"} => req[c].program \in Bundle[ReleasePath(c)]
    /\ \A d \in Directory, p \in Program, s \in Signed :
        files[d][p][s] # None => p \in Bundle[d]

\* What was read is the whole signature of the build of the actual version.
Current(c) ==
    /\ req[c].version = actual
    /\ req[c].signature.whole
    /\ req[c].signature.build = build[ReleasePath(c)]

\* The steps of its own that a client has before it, at most, while the release of
\* the actual version is complete; what it read before that costs it a round, and
\* so does a download from a file that was opened before that.
Rank(c) ==
    CASE pc[c] = "idle" /\ installed[c] = actual.number -> 0
      [] pc[c] = "offered" /\ Current(c) -> 1
      [] pc[c] = "info" /\ Current(c) -> 2
      [] pc[c] = "readSig" -> 3
      [] pc[c] = "statSig" -> 4
      [] pc[c] = "find" -> 5
      [] pc[c] = "stat" -> 6
      [] pc[c] = "idle" /\ installed[c] # actual.number -> 7
      [] pc[c] = "offered" /\ ~Current(c) -> 8
      [] pc[c] = "info" /\ ~Current(c) -> 9

\* Each step of a client brings it nearer, but for the download of an outdated
\* file, and no step of anyone else but a restart of the server takes it further
\* away; once there, it stays.
RankFalls ==
    [][\A c \in Client : Complete(c) /\ Complete(c)' /\ restarts' = restarts =>
        \/ Rank(c)' < Rank(c)
        \/ Rank(c)' = Rank(c) /\ (~ClientStep(c) \/ Rank(c) = 0)
        \/ Download(c) /\ Outdated(ReleasePath(c), req[c].program)]_vars

\* No file of a complete release becomes outdated: what the server opens is it.
NoneOutdates ==
    [][\A c \in Client : Complete(c) /\ Complete(c)' /\ restarts' = restarts =>
        LET d == [target |-> TargetOf[c], version |-> actual]
        IN \A p \in Program : Outdated(d, p)' => Outdated(d, p)]_vars

\* A client that runs the actual version and holds no offer downloads nothing until
\* the server is told another version.
SettledStays ==
    [][\A c \in Client : Rank(c) = 0 /\ actual'.number = actual.number
                           => Rank(c)' = 0]_vars

RankValues ==
    \A c \in Client :
        /\ pc[c] = "idle" => Rank(c) = IF installed[c] = actual.number THEN 0 ELSE 7
        /\ pc[c] = "stat" => Rank(c) = 6
        /\ pc[c] = "find" => Rank(c) = 5
        /\ pc[c] = "statSig" => Rank(c) = 4
        /\ pc[c] = "readSig" => Rank(c) = 3
        /\ pc[c] = "info" => Rank(c) = IF Current(c) THEN 2 ELSE 9
        /\ pc[c] = "offered" => Rank(c) = IF Current(c) THEN 1 ELSE 8

LEMMA RankIs == RankValues /\ RankValues'
<1>1. RankValues
  BY DEF RankValues, Rank
<1>2. RankValues'
  BY DEF RankValues, Rank
<1> QED
  BY <1>1, <1>2

\* A step of a client looks at what the publishers left.
LEMMA ClientLooks == \A c \in Client : ClientStep(c) => UNCHANGED published
BY DEF ClientStep, Ask, StatDirectory, FindProgramFile, StatSignature, ReadSignature,
       OfferRelease, Download, NoRelease, Done

LEMMA OthersKept ==
    ASSUME TypeOK, NEW c \in Client, ClientStep(c)
    PROVE  \A e \in Client : e # c =>
             pc'[e] = pc[e] /\ req'[e] = req[e] /\ installed'[e] = installed[e]
BY DEF ClientStep, Ask, StatDirectory, FindProgramFile, StatSignature, ReadSignature,
       OfferRelease, Download, NoRelease, Done, Goto, TypeOK

\* What a client does, place by place.
LEMMA ClientMoves ==
    ASSUME Inv, NEW c \in Client, ClientStep(c)
    PROVE  \/ /\ pc'[c] = "idle"
              /\ pc[c] \in {"stat", "find", "statSig", "readSig", "info", "idle"}
              /\ installed'[c] = installed[c]
              /\ pc[c] = "idle" => installed[c] = actual.number
              /\ pc[c] = "stat" => ~Exists(ReleasePath(c))
              /\ pc[c] = "find" => TargetOf[c] # "windows"
                    \/ \A p \in Program : ~FileExists(ReleasePath(c), p, "program")
              /\ pc[c] \in {"statSig", "readSig"} =>
                    ~FileExists(ReleasePath(c), req[c].program, "signature")
              /\ pc[c] = "info" => ~FileExists(ReleasePath(c), req[c].program, "program")
           \/ /\ pc[c] = "idle" /\ pc'[c] = "stat"
              /\ req'[c] = Blank(actual)
              /\ installed[c] # actual.number
           \/ /\ pc[c] = "stat" /\ pc'[c] = "find"
              /\ req'[c] = req[c]
           \/ /\ pc[c] = "find" /\ pc'[c] = "statSig"
              /\ req'[c].version = req[c].version
              /\ req'[c].program \in Program
              /\ FileExists(ReleasePath(c), req'[c].program, "program")
           \/ /\ pc[c] = "statSig" /\ pc'[c] = "readSig"
              /\ req'[c] = req[c]
           \/ /\ pc[c] = "readSig" /\ pc'[c] = "info"
              /\ req'[c].version = req[c].version
              /\ req'[c].program = req[c].program
              /\ req'[c].signature = files[ReleasePath(c)][req[c].program]["signature"]
           \/ /\ pc[c] = "info" /\ pc'[c] = "offered"
              /\ req'[c] = req[c]
           \/ /\ pc[c] = "offered" /\ pc'[c] = "idle"
              /\ req'[c] = Blank(actual)
              /\ installed'[c] = IF Verifies(req[c].signature, Served(c))
                                   THEN req[c].version.number ELSE installed[c]
<1> USE DEF Inv, TypeOK, Goto, NoRelease, Done
<1>1. CASE Ask(c)
  BY <1>1 DEF Ask, NeedsUpdate
<1>2. CASE StatDirectory(c)
  BY <1>2 DEF StatDirectory
<1>3. CASE FindProgramFile(c)
  <2>1. CASE NoRelease(c)
    BY <1>3, <2>1 DEF FindProgramFile
  <2>2. ASSUME NEW i \in DOMAIN Names,
               FirstListed(ReleasePath(c), i, "program"),
               req' = [req EXCEPT ![c].program = Names[i]],
               pc' = [pc EXCEPT ![c] = "statSig"]
        PROVE  /\ pc[c] = "find" /\ pc'[c] = "statSig"
               /\ req'[c].version = req[c].version
               /\ req'[c].program \in Program
               /\ FileExists(ReleasePath(c), req'[c].program, "program")
    <3>1. Names[i] \in Program
      BY DEF Program
    <3>2. req'[c].program = Names[i] /\ req'[c].version = req[c].version
      BY <2>2 DEF Request
    <3> QED
      BY <1>3, <2>2, <3>1, <3>2 DEF FindProgramFile, FirstListed
  <2> QED
    BY <1>3, <2>1, <2>2 DEF FindProgramFile
<1>4. CASE StatSignature(c)
  BY <1>4 DEF StatSignature
<1>5. CASE ReadSignature(c)
  <2>1. CASE FileExists(ReleasePath(c), req[c].program, "signature")
    <3>1. /\ req' = [req EXCEPT ![c].signature =
                        files[ReleasePath(c)][req[c].program]["signature"]]
          /\ pc' = [pc EXCEPT ![c] = "info"]
          /\ pc[c] = "readSig"
      BY <1>5, <2>1 DEF ReadSignature
    <3>2. /\ req'[c].program = req[c].program /\ req'[c].version = req[c].version
          /\ req'[c].signature = files[ReleasePath(c)][req[c].program]["signature"]
      BY <3>1 DEF Request
    <3> QED
      BY <3>1, <3>2
  <2>2. CASE ~FileExists(ReleasePath(c), req[c].program, "signature")
    BY <1>5, <2>2 DEF ReadSignature
  <2> QED
    BY <2>1, <2>2
<1>6. CASE OfferRelease(c)
  BY <1>6 DEF OfferRelease
<1>7. CASE Download(c)
  BY <1>7 DEF Download
<1> QED
  BY <1>1, <1>2, <1>3, <1>4, <1>5, <1>6, <1>7 DEF ClientStep

LEMMA ReleaseKept ==
    ASSUME NEW c \in Client, req'[c].version = req[c].version
    PROVE  ReleasePath(c)' = ReleasePath(c)
BY DEF ReleasePath

\* A request stays with the version and the bundle it is about.
LEMMA AskedStep ==
    ASSUME Inv, AskedInv, [Next]_vars
    PROVE  AskedInv'
<1>1. ASSUME NEW c \in Client, ClientStep(c) PROVE AskedInv'
  <2>1. UNCHANGED published
    BY <1>1, ClientLooks
  <2>2. \A e \in Client : e # c => pc'[e] = pc[e] /\ req'[e] = req[e]
    BY <1>1, OthersKept DEF Inv
  <2>3. ASSUME NEW e \in Client, e # c
        PROVE  /\ pc'[e] \notin {"idle", "offered"} => req'[e].version = actual'
               /\ pc'[e] \notin {"idle", "stat", "find"} =>
                    req'[e].program \in Bundle[ReleasePath(e)']
    BY <2>1, <2>2, <2>3 DEF AskedInv, published, ReleasePath
  <2>4. /\ pc'[c] \notin {"idle", "offered"} => req'[c].version = actual'
        /\ pc'[c] \notin {"idle", "stat", "find"} =>
             req'[c].program \in Bundle[ReleasePath(c)']
    <3>1. CASE pc'[c] = "idle"
      BY <3>1
    <3>2. CASE pc'[c] = "stat" /\ req'[c] = Blank(actual)
      BY <2>1, <3>2 DEF Blank, published
    <3>3. CASE pc[c] = "stat" /\ pc'[c] = "find" /\ req'[c] = req[c]
      BY <2>1, <3>3 DEF AskedInv, published
    <3>4. CASE /\ pc[c] = "find" /\ pc'[c] = "statSig"
               /\ req'[c].version = req[c].version
               /\ req'[c].program \in Program
               /\ FileExists(ReleasePath(c), req'[c].program, "program")
      <4>1. ReleasePath(c)' = ReleasePath(c)
        BY <3>4, ReleaseKept
      <4>2. req'[c].program \in Bundle[ReleasePath(c)]
        BY <3>4 DEF AskedInv, FileExists, Signed
      <4> QED
        BY <2>1, <3>4, <4>1, <4>2 DEF AskedInv, published
    <3>5. CASE /\ pc[c] \in {"statSig", "readSig", "info"}
               /\ pc'[c] \in {"readSig", "info", "offered"}
               /\ req'[c].version = req[c].version
               /\ req'[c].program = req[c].program
      <4>1. ReleasePath(c)' = ReleasePath(c)
        BY <3>5, ReleaseKept
      <4> QED
        BY <2>1, <3>5, <4>1 DEF AskedInv, published
    <3> QED
      BY <1>1, <3>1, <3>2, <3>3, <3>4, <3>5, ClientMoves
  <2>5. \A d \in Directory, p \in Program, s \in Signed :
          files'[d][p][s] # None => p \in Bundle[d]
    BY <2>1 DEF AskedInv, published
  <2> QED
    BY <2>3, <2>4, <2>5 DEF AskedInv
<1>2. ASSUME NEW d \in Directory, PublisherStep(d) PROVE AskedInv'
  <2>1. UNCHANGED <<actual, pc, req>>
    BY <1>2, PublisherKeeps
  <2>2. \A e \in Directory, p \in Program, s \in Signed :
          files'[e][p][s] # None => p \in Bundle[e]
    <3>1. CASE UNCHANGED files
      BY <3>1 DEF AskedInv
    <3>2. ASSUME NEW p \in Program, NEW s \in Signed,
                 CopyBegin(d, p, s) \/ CopyEnd(d, p, s) \/ RemoveFile(d, p, s)
          PROVE  \A e \in Directory, q \in Program, t \in Signed :
                   files'[e][q][t] # None => q \in Bundle[e]
      <4>1. PICK bytes : files' = [files EXCEPT ![d][p][s] = bytes]
        BY <3>2 DEF CopyBegin, CopyEnd, RemoveFile, SetFile
      <4>2. p \in Bundle[d]
        BY <3>2 DEF CopyBegin, CopyEnd, RemoveFile, AskedInv
      <4> QED
        BY <4>1, <4>2 DEF AskedInv, Inv, TypeOK
    <3> QED
      BY <1>2, <3>1, <3>2 DEF PublisherStep, Publish, Withdraw, RemoveDirectory
  <2> QED
    BY <2>1, <2>2 DEF AskedInv, ReleasePath
<1>3. ASSUME NEW version \in Version, Restart(version) PROVE AskedInv'
  <2>1. \A c \in Client : \/ pc'[c] = "idle"
                          \/ pc'[c] = "offered" /\ pc[c] = "offered" /\ req'[c] = req[c]
    BY <1>3 DEF Restart
  <2>2. UNCHANGED files
    BY <1>3 DEF Restart
  <2> QED
    BY <2>1, <2>2 DEF AskedInv, ReleasePath
<1>4. CASE UNCHANGED <<actual, files, pc, req>>
  BY <1>4 DEF AskedInv, ReleasePath
<1> QED
  BY <1>1, <1>2, <1>3, <1>4 DEF Next, CloseOpened, published, vars

LEMMA AskedInvariant == Spec => []AskedInv
<1>1. Init => AskedInv
  BY DEF Init, AskedInv
<1> QED
  BY <1>1, AskedStep, Invariant, PTL DEF Spec

\* What a complete release offers to a request for it.
LEMMA CompleteServes ==
    ASSUME Inv, AskedInv, NEW c \in Client, Complete(c), req[c].version = actual
    PROVE  LET d == ReleasePath(c) IN
           /\ Exists(d) /\ phase[d] = "publishing" /\ TargetOf[c] = "windows"
           /\ \E p \in Program : FileExists(d, p, "program")
           /\ \A p \in Bundle[d], s \in Signed :
                FileExists(d, p, s) /\ files[d][p][s].whole /\ files[d][p][s].build = build[d]
<1> DEFINE d == ReleasePath(c)
<1>1. /\ d \in Directory /\ TargetOf[c] = "windows" /\ phase[d] = "publishing"
      /\ Bundle[d] # {}
      /\ \A p \in Bundle[d], s \in Signed : files[d][p][s].whole
  BY DEF Complete, ReleasePath
<1>2. Bundle[d] \subseteq Program
  BY <1>1, UpdatesAssumption
<1> HIDE DEF d
<1>3. ASSUME NEW p \in Bundle[d], NEW s \in Signed
      PROVE  FileExists(d, p, s) /\ files[d][p][s].build = build[d]
  <2>1. files[d][p][s] # None
    BY <1>1, <1>3 DEF None
  <2> QED
    BY <1>1, <1>2, <2>1 DEF FileExists, Inv, FilesInv
<1> QED
  BY <1>1, <1>2, <1>3 DEF d, Exists, Signed

\* A step of the client itself brings it nearer.
LEMMA OwnStepNearer ==
    ASSUME Inv, AskedInv, NEW c \in Client, Complete(c), ClientStep(c),
           pc[c] = "offered" => ~Outdated(ReleasePath(c), req[c].program)
    PROVE  Rank(c)' < Rank(c) \/ (Rank(c) = 0 /\ Rank(c)' = 0)
<1>1. UNCHANGED <<actual, phase, build, files>>
  BY ClientLooks DEF published
<1>2. pc[c] \notin {"idle", "offered"} => req[c].version = actual
  BY DEF AskedInv
<1>3. pc[c] \notin {"idle", "stat", "find"} => req[c].program \in Bundle[ReleasePath(c)]
  BY DEF AskedInv
<1>4. CASE /\ pc'[c] = "idle"
           /\ pc[c] \in {"stat", "find", "statSig", "readSig", "info", "idle"}
           /\ installed'[c] = installed[c]
           /\ pc[c] = "idle" => installed[c] = actual.number
           /\ pc[c] = "stat" => ~Exists(ReleasePath(c))
           /\ pc[c] = "find" => TargetOf[c] # "windows"
                 \/ \A p \in Program : ~FileExists(ReleasePath(c), p, "program")
           /\ pc[c] \in {"statSig", "readSig"} =>
                 ~FileExists(ReleasePath(c), req[c].program, "signature")
           /\ pc[c] = "info" => ~FileExists(ReleasePath(c), req[c].program, "program")
  <2>1. pc[c] = "idle"
    BY <1>2, <1>3, <1>4, CompleteServes DEF Signed
  <2> QED
    BY <1>1, <1>4, <2>1, RankIs DEF RankValues
<1>5. CASE pc[c] = "idle" /\ pc'[c] = "stat" /\ installed[c] # actual.number
  BY <1>5, RankIs DEF RankValues
<1>6. CASE \/ pc[c] = "stat" /\ pc'[c] = "find"
           \/ pc[c] = "find" /\ pc'[c] = "statSig"
           \/ pc[c] = "statSig" /\ pc'[c] = "readSig"
  BY <1>6, RankIs DEF RankValues
<1>7. CASE /\ pc[c] = "readSig" /\ pc'[c] = "info"
           /\ req'[c].version = req[c].version
           /\ req'[c].program = req[c].program
           /\ req'[c].signature = files[ReleasePath(c)][req[c].program]["signature"]
  <2>1. ReleasePath(c)' = ReleasePath(c)
    BY <1>7, ReleaseKept
  <2>2. /\ req'[c].signature.whole
        /\ req'[c].signature.build = build[ReleasePath(c)]
    BY <1>2, <1>3, <1>7, CompleteServes DEF Signed
  <2>3. Current(c)'
    BY <1>1, <1>2, <1>7, <2>1, <2>2 DEF Current
  <2> QED
    BY <1>7, <2>3, RankIs DEF RankValues
<1>8. CASE pc[c] = "info" /\ pc'[c] = "offered" /\ req'[c] = req[c]
  <2>1. ReleasePath(c)' = ReleasePath(c)
    BY <1>8, ReleaseKept
  <2>2. Current(c)' <=> Current(c)
    BY <1>1, <1>8, <2>1 DEF Current
  <2> QED
    BY <1>8, <2>2, RankIs DEF RankValues
<1>9. CASE /\ pc[c] = "offered" /\ pc'[c] = "idle"
           /\ installed'[c] = IF Verifies(req[c].signature, Served(c))
                                THEN req[c].version.number ELSE installed[c]
  <2>1. Rank(c)' \in {0, 7}
    BY <1>9, RankIs DEF RankValues
  <2>2. CASE Current(c)
    <3>1. req[c].version = actual /\ phase[ReleasePath(c)] = "publishing"
      BY <2>2, CompleteServes DEF Current
    <3>2. req[c].signature \in Bytes /\ req[c].signature # None /\ req[c].signature.whole
      BY <1>9, <2>2 DEF Inv, TypeOK, ReadInv, Request, Current
    <3>3. Served(c) = req[c].signature
      BY <1>9, <2>2, <3>1, <3>2 DEF Inv, ReadInv, Served, Outdated, WholeProgram, Bytes, Current
    <3>4. installed'[c] = actual.number
      BY <1>9, <3>1, <3>2, <3>3 DEF Verifies
    <3> QED
      BY <1>1, <1>9, <2>2, <3>4, RankIs DEF RankValues
  <2>3. CASE ~Current(c)
    BY <1>9, <2>1, <2>3, RankIs DEF RankValues
  <2> QED
    BY <2>2, <2>3
<1> QED
  BY <1>4, <1>5, <1>6, <1>7, <1>8, <1>9, ClientMoves

\* Nobody else's step takes it further away, but a restart.
LEMMA OthersStepSame ==
    ASSUME Inv, NEW c \in Client, Complete(c), Next, ~ClientStep(c), restarts' = restarts
    PROVE  Rank(c)' = Rank(c)
<1>1. /\ UNCHANGED actual
      /\ pc'[c] = pc[c] /\ req'[c] = req[c] /\ installed'[c] = installed[c]
      /\ \A d \in Directory : phase[d] = "publishing" => build'[d] = build[d]
  <2>1. ASSUME NEW e \in Client, ClientStep(e)
        PROVE  /\ UNCHANGED <<actual, build>>
               /\ pc'[c] = pc[c] /\ req'[c] = req[c] /\ installed'[c] = installed[c]
    BY <2>1, ClientLooks, OthersKept DEF published, Inv
  <2>2. ASSUME NEW d \in Directory, PublisherStep(d)
        PROVE  /\ UNCHANGED <<actual, pc, req, installed>>
               /\ \A e \in Directory : phase[e] = "publishing" => build'[e] = build[e]
    BY <2>2, PublisherKeeps
    DEF PublisherStep, Publish, Withdraw, RemoveDirectory, CopyBegin, CopyEnd, RemoveFile,
        SetFile, Inv, TypeOK
  <2>3. ~ \E version \in Version : Restart(version)
    <3>1. restarts \in Int
      BY UpdatesAssumption DEF Inv, TypeOK
    <3> QED
      BY <3>1 DEF Restart
  <2> QED
    BY <2>1, <2>2, <2>3 DEF Next, CloseOpened, published
<1>2. ReleasePath(c)' = ReleasePath(c)
  BY <1>1, ReleaseKept
<1>3. req[c].version = actual => build'[ReleasePath(c)] = build[ReleasePath(c)]
  BY <1>1 DEF Complete, ReleasePath
<1>4. Current(c)' <=> Current(c)
  BY <1>1, <1>2, <1>3 DEF Current
<1>5. pc[c] \in {"idle", "stat", "find", "statSig", "readSig", "info", "offered"}
  BY DEF Inv, TypeOK
<1> QED
  BY <1>1, <1>4, <1>5, RankIs DEF RankValues

\* Of the files of a complete release none is copied or removed, so the file that a
\* download opens is the one of the release.
LEMMA OutdatedStep ==
    ASSUME Inv, AskedInv, Next, restarts' = restarts, NEW c \in Client, Complete(c),
           NEW p \in Program, Outdated([target |-> TargetOf[c], version |-> actual], p)'
    PROVE  Outdated([target |-> TargetOf[c], version |-> actual], p)
<1> DEFINE d == [target |-> TargetOf[c], version |-> actual]
<1>1. /\ d \in Directory
      /\ phase[d] = "publishing"
      /\ \A q \in Bundle[d], s \in Signed : files[d][q][s].whole
  BY DEF Complete
<1>2. ~ \E version \in Version : Restart(version)
  <2>1. restarts \in Int
    BY UpdatesAssumption DEF Inv, TypeOK
  <2> QED
    BY <2>1 DEF Restart
<1> DEFINE f == files[d][p]["program"]
<1>3. ASSUME NEW e \in Client, ClientStep(e)
      PROVE  /\ d' = d /\ files' = files
             /\ opened'[d][p] = opened[d][p] \/ (opened[d][p] = None /\ opened'[d][p] = f)
  <2>1. actual' = actual /\ files' = files
    BY <1>3, ClientLooks DEF published
  <2>2. CASE Download(e)
    <3>1. opened' = [opened EXCEPT ![ReleasePath(e)][req[e].program] = Served(e)]
      BY <2>2 DEF Download
    <3> QED
      BY <1>1, <2>1, <3>1 DEF Served, Inv, TypeOK
  <2>3. CASE ~Download(e)
    <3>1. opened' = opened
      BY <1>3, <2>3 DEF ClientStep, Ask, StatDirectory, FindProgramFile, StatSignature,
                        ReadSignature, OfferRelease, NoRelease
    <3> QED
      BY <2>1, <3>1
  <2> QED
    BY <2>2, <2>3
<1>4. ASSUME NEW g \in Directory, PublisherStep(g)
      PROVE  d' = d /\ opened' = opened /\ files'[d][p]["program"] = f
  <2>1. d' = d /\ opened' = opened
    BY <1>4, PublisherKeeps
  <2>2. ASSUME NEW q \in Program, NEW s \in Signed,
               CopyBegin(g, q, s) \/ CopyEnd(g, q, s) \/ RemoveFile(g, q, s)
        PROVE  files'[d][p]["program"] = f
    <3>1. PICK bytes : files' = [files EXCEPT ![g][q][s] = bytes]
      BY <2>2 DEF CopyBegin, CopyEnd, RemoveFile, SetFile
    <3>2. CASE g # d \/ q # p \/ s # "program"
      BY <1>1, <3>1, <3>2 DEF Inv, TypeOK, Signed
    <3>3. CASE g = d /\ q = p /\ s = "program"
      <4>1. CopyBegin(d, p, "program") => p \in Bundle[d] /\ f = None
        BY DEF CopyBegin
      <4>2. CopyEnd(d, p, "program") => p \in Bundle[d] /\ ~f.whole
        BY <1>1 DEF CopyEnd, AskedInv, Signed
      <4>3. ~RemoveFile(d, p, "program")
        BY <1>1 DEF RemoveFile
      <4>4. p \in Bundle[d] => f.whole
        BY <1>1 DEF Signed
      <4> QED
        BY <2>2, <3>3, <4>1, <4>2, <4>3, <4>4 DEF None
    <3> QED
      BY <3>2, <3>3
  <2>3. CASE Publish(g) \/ Withdraw(g) \/ RemoveDirectory(g)
    BY <2>3 DEF Publish, Withdraw, RemoveDirectory
  <2> QED
    BY <1>4, <2>1, <2>2, <2>3 DEF PublisherStep
<1>5. ASSUME NEW g \in Directory, NEW q \in Program, CloseOpened(g, q)
      PROVE  d' = d /\ files' = files /\ opened'[d][p] \in {opened[d][p], None}
  BY <1>1, <1>5 DEF CloseOpened, published, Inv, TypeOK
<1>6. /\ d' = d
      /\ files'[d][p]["program"] = f
      /\ opened'[d][p] \in {opened[d][p], None, f}
  BY <1>2, <1>3, <1>4, <1>5 DEF Next
<1>7. opened'[d][p] # None /\ opened'[d][p] # f
  BY <1>6 DEF Outdated
<1> QED
  BY <1>6, <1>7 DEF Outdated

\* While the release of the actual version is complete and the server is not
\* restarted, every step of a client brings it nearer to running that version, of
\* nine at most, and no step of the publishers or of other clients sets it back; but
\* a download may be of a file that the server had open before, of which no new
\* ones come about.
THEOREM ClientsApproach == Spec => RankFalls /\ NoneOutdates
<1>1. Inv /\ AskedInv /\ [Next]_vars =>
        [\A c \in Client : Complete(c) /\ Complete(c)' /\ restarts' = restarts =>
            \/ Rank(c)' < Rank(c)
            \/ Rank(c)' = Rank(c) /\ (~ClientStep(c) \/ Rank(c) = 0)
            \/ Download(c) /\ Outdated(ReleasePath(c), req[c].program)]_vars
  <2> SUFFICES ASSUME Inv, AskedInv, Next, NEW c \in Client,
                      Complete(c), restarts' = restarts
               PROVE  \/ Rank(c)' < Rank(c)
                      \/ Rank(c)' = Rank(c) /\ (~ClientStep(c) \/ Rank(c) = 0)
                      \/ Download(c) /\ Outdated(ReleasePath(c), req[c].program)
    OBVIOUS
  <2>1. CASE ~ClientStep(c)
    BY <2>1, OthersStepSame
  <2>2. CASE ClientStep(c) /\ (pc[c] = "offered" => ~Outdated(ReleasePath(c), req[c].program))
    BY <2>2, OwnStepNearer
  <2>3. CASE ClientStep(c) /\ pc[c] = "offered"
    BY <2>2, <2>3 DEF ClientStep, Ask, StatDirectory, FindProgramFile, StatSignature,
                      ReadSignature, OfferRelease
  <2> QED
    BY <2>1, <2>2, <2>3
<1>2. Inv /\ AskedInv /\ [Next]_vars =>
        [\A c \in Client : Complete(c) /\ Complete(c)' /\ restarts' = restarts =>
            LET d == [target |-> TargetOf[c], version |-> actual]
            IN \A p \in Program : Outdated(d, p)' => Outdated(d, p)]_vars
  BY OutdatedStep
<1> QED
  BY <1>1, <1>2, Invariant, AskedInvariant, PTL DEF Spec, RankFalls, NoneOutdates

\* A client that has settled stays so, whatever is published or withdrawn, and over
\* every restart with a version of the same number.
THEOREM SettledClients == Spec => SettledStays
<1>1. Inv /\ [Next]_vars =>
        [\A c \in Client : Rank(c) = 0 /\ actual'.number = actual.number => Rank(c)' = 0]_vars
  <2> SUFFICES ASSUME Inv, Next, NEW c \in Client, Rank(c) = 0,
                      actual'.number = actual.number
               PROVE  Rank(c)' = 0
    OBVIOUS
  <2>1. pc[c] = "idle" /\ installed[c] = actual.number
    <3>1. pc[c] \in {"idle", "stat", "find", "statSig", "readSig", "info", "offered"}
      BY DEF Inv, TypeOK
    <3> QED
      BY <3>1, RankIs DEF RankValues
  <2>2. pc'[c] = "idle" /\ installed'[c] = installed[c]
    <3>1. ASSUME NEW e \in Client, ClientStep(e)
          PROVE  pc'[c] = "idle" /\ installed'[c] = installed[c]
      <4>1. CASE e = c
        BY <2>1, <3>1, <4>1, ClientMoves
      <4>2. CASE e # c
        BY <2>1, <3>1, <4>2, OthersKept DEF Inv
      <4> QED
        BY <4>1, <4>2
    <3>2. ASSUME NEW d \in Directory, PublisherStep(d)
          PROVE  pc'[c] = "idle" /\ installed'[c] = installed[c]
      BY <2>1, <3>2, PublisherKeeps
    <3>3. ASSUME NEW version \in Version, Restart(version)
          PROVE  pc'[c] = "idle" /\ installed'[c] = installed[c]
      BY <2>1, <3>3 DEF Restart
    <3> QED
      BY <2>1, <3>1, <3>2, <3>3 DEF Next, CloseOpened
  <2> QED
    BY <2>1, <2>2, RankIs DEF RankValues
<1> QED
  BY <1>1, Invariant, PTL DEF Spec, SettledStays
=============================================================================
