------------------------------ MODULE Updates ------------------------------
(***************************************************************************)
(* The updater of the desktop application: GetUpdaterAction and            *)
(* GetReleaseFileAction of PublicController, and ReleasesService.          *)
(*                                                                         *)
(* A release is a directory of files that people copy by hand into a       *)
(* mounted volume (README, docker-compose.prod.yml): nothing but the       *)
(* reads below keeps a half-copied release from being offered, and nothing *)
(* ties the directory to releases.actual_version, which the server reads   *)
(* once, when it starts.  A request is a sequence of reads of the file     *)
(* system, each of which sees the files as they are then.  The download is *)
(* another request, of another server process perhaps, and Fiber's         *)
(* SendFile (external) answers it from a file that the process has kept    *)
(* open since an earlier download, with the bytes it had when it was       *)
(* opened: for ten seconds or so, whatever became of the file meanwhile.   *)
(*                                                                         *)
(* A version is a number and whether its name is written with a "v" in     *)
(* front.  The people who publish (external) copy a program whole before   *)
(* they copy its signature, never replace a file in place, and may remove  *)
(* a release, in any order of its files, to publish another build of it.   *)
(* The application (external) installs what it downloads when the offered  *)
(* signature is the signature of it, and asks again, for ever.             *)
(***************************************************************************)
EXTENDS Integers, Sequences, FiniteSets

CONSTANTS
    Number,         \* versions of the application
    Client,         \* installed applications
    TargetOf,       \* the platform of a client
    Directory,      \* the release directories that may come to exist
    Names,          \* the program files, in the order in which a directory lists them
    Bundle,         \* the program files that a release consists of
    MaxBuilds,      \* bound: how often each release is published
    MaxRestarts     \* bound: how often the server is restarted

\* The name of a version, in the configuration or in a request.
Version == [number : Number, v : BOOLEAN]

Target == {"windows", "linux"}
Program == {Names[i] : i \in DOMAIN Names}
Signed == {"program", "signature"}

ASSUME UpdatesAssumption ==
    /\ Number \subseteq Int
    /\ TargetOf \in [Client -> Target]
    /\ Directory \subseteq [target : Target, version : Version]
    /\ Names \in Seq(STRING)
    /\ Bundle \in [Directory -> SUBSET Program]
    /\ MaxBuilds \in [Directory -> Nat]
    /\ MaxRestarts \in Nat

\* What a file holds: nothing, or the bytes of a build, all of them or not yet.
None == [of |-> "none", build |-> 0, whole |-> FALSE]
Bytes == [of : Program, build : Nat, whole : BOOLEAN]

VARIABLES
    actual,     \* cfg.Releases.ActualVersion of the running server
    restarts,   \* how often it was restarted
    phase,      \* what the publishers do with a directory
    build,      \* the builds of a release so far
    files,      \* the program files of a directory and their .sig files
    opened,     \* what the server keeps open of the program files
    installed,  \* the version that a client runs
    pc,         \* where a client's request is
    req         \* what the request holds

published == <<actual, restarts, phase, build, files>>
vars == <<actual, restarts, phase, build, files, opened, installed, pc, req>>

Request == [version : Version, program : Program \cup {"none"}, signature : Bytes \cup {None}]

\* A request for the release of a version, before any file was looked at.
Blank(version) == [version |-> version, program |-> "none", signature |-> None]

NothingOpen == [d \in Directory |-> [p \in Program |-> None]]

TypeOK ==
    /\ actual \in Version
    /\ restarts \in 0..MaxRestarts
    /\ phase \in [Directory -> {"absent", "publishing", "withdrawing"}]
    /\ build \in [Directory -> Nat]
    /\ files \in [Directory -> [Program -> [Signed -> Bytes \cup {None}]]]
    /\ opened \in [Directory -> [Program -> Bytes \cup {None}]]
    /\ installed \in [Client -> Number]
    /\ pc \in [Client -> {"idle", "stat", "find", "statSig", "readSig", "info", "offered"}]
    /\ req \in [Client -> Request]

Init ==
    /\ actual \in Version
    /\ restarts = 0
    /\ phase = [d \in Directory |-> "absent"]
    /\ build = [d \in Directory |-> 0]
    /\ files = [d \in Directory |-> [p \in Program |-> [s \in Signed |-> None]]]
    /\ opened = NothingOpen
    /\ installed \in [Client -> Number]
    /\ pc = [c \in Client |-> "idle"]
    /\ req = [c \in Client |-> Blank(actual)]

-----------------------------------------------------------------------------
(* The file system. *)

\* releasePath: the directory of the release for a client.
ReleasePath(c) == [target |-> TargetOf[c], version |-> req[c].version]

Exists(d) == d \in Directory /\ phase[d] # "absent"

FileExists(d, p, s) == d \in Directory /\ files[d][p][s] # None

\* The i-th name is the first of a directory's files of a kind.
FirstListed(d, i, s) ==
    /\ FileExists(d, Names[i], s)
    /\ \A j \in 1..(i - 1) : ~FileExists(d, Names[j], s)

-----------------------------------------------------------------------------
(* GetReleases: a client asks whether there is something newer. *)

\* Mutant: the names are compared as they are written.
NeedsUpdateAsWritten(current, wanted) == current # wanted

\* Mutant: only a higher number is an update.
NeedsUpdateNewer(current, wanted) == current.number < wanted.number

\* needsUpdate: the names without their "v" differ.  An older actual version
\* is an update too: that is how a release is rolled back.
NeedsUpdate(current, wanted) == current.number # wanted.number

Goto(c, place) == pc' = [pc EXCEPT ![c] = place]

\* The request is over, and what it held is gone.
Done(c) ==
    /\ Goto(c, "idle")
    /\ req' = [req EXCEPT ![c] = Blank(actual)]

\* 204, or 500: the client hears that there is nothing for it now.
NoRelease(c) ==
    /\ Done(c)
    /\ UNCHANGED <<published, opened, installed>>

Ask(c) ==
    /\ pc[c] = "idle"
    /\ \E v \in BOOLEAN :
        LET current == [number |-> installed[c], v |-> v]
        IN /\ req' = [req EXCEPT ![c] = Blank(actual)]
           /\ Goto(c, IF NeedsUpdate(current, actual) THEN "stat" ELSE "idle")
    /\ UNCHANGED <<published, opened, installed>>

StatDirectory(c) ==
    /\ pc[c] = "stat"
    /\ IF Exists(ReleasePath(c))
       THEN Goto(c, "find") /\ UNCHANGED <<published, opened, installed, req>>
       ELSE NoRelease(c)

\* Mutant: goes on when there is no program file.
FindProgramFileUnchecked(c) ==
    LET d == ReleasePath(c)
    IN /\ pc[c] = "find"
       /\ \/ \E i \in DOMAIN Names :
                FirstListed(d, i, "program") /\ req' = [req EXCEPT ![c].program = Names[i]]
          \/ /\ \A p \in Program : ~FileExists(d, p, "program")
             /\ req' = [req EXCEPT ![c].program = ""]
       /\ Goto(c, "statSig")
       /\ UNCHANGED <<published, opened, installed>>

\* findProgramFile: an error for a platform it does not know and for a
\* directory that has gone; nothing when no program file is there yet.
FindProgramFile(c) ==
    LET d == ReleasePath(c)
    IN /\ pc[c] = "find"
       /\ \/ \E i \in DOMAIN Names :
                /\ TargetOf[c] = "windows"
                /\ FirstListed(d, i, "program")
                /\ req' = [req EXCEPT ![c].program = Names[i]]
                /\ Goto(c, "statSig")
                /\ UNCHANGED <<published, opened, installed>>
          \/ /\ TargetOf[c] # "windows" \/ \A p \in Program : ~FileExists(d, p, "program")
             /\ NoRelease(c)

StatSignature(c) ==
    /\ pc[c] = "statSig"
    /\ IF FileExists(ReleasePath(c), req[c].program, "signature")
       THEN Goto(c, "readSig") /\ UNCHANGED <<published, opened, installed, req>>
       ELSE NoRelease(c)

\* Mutant: reads the first signature that the directory lists.
ReadSignatureFirst(c) ==
    LET d == ReleasePath(c)
    IN /\ pc[c] = "readSig"
       /\ \E i \in DOMAIN Names :
            /\ FirstListed(d, i, "signature")
            /\ req' = [req EXCEPT ![c].signature = files[d][Names[i]]["signature"]]
       /\ Goto(c, "info")
       /\ UNCHANGED <<published, opened, installed>>

\* The bytes that are in the signature file now; an error when it has gone.
ReadSignature(c) ==
    LET d == ReleasePath(c)
    IN /\ pc[c] = "readSig"
       /\ IF FileExists(d, req[c].program, "signature")
          THEN /\ req' = [req EXCEPT ![c].signature = files[d][req[c].program]["signature"]]
               /\ Goto(c, "info")
               /\ UNCHANGED <<published, opened, installed>>
          ELSE NoRelease(c)

\* The date is the program file's, so the file must still be there; the notes
\* are added when they can be read, and the offer is answered.
OfferRelease(c) ==
    /\ pc[c] = "info"
    /\ IF FileExists(ReleasePath(c), req[c].program, "program")
       THEN Goto(c, "offered") /\ UNCHANGED <<published, opened, installed, req>>
       ELSE NoRelease(c)

-----------------------------------------------------------------------------
(* GetReleaseFileAction: the client downloads what it was offered. *)

\* The signature is one of the bytes (the client's check, external).
Verifies(signature, bytes) ==
    /\ signature # None
    /\ signature.whole
    /\ bytes = signature

\* Mutant: the file is looked up in the actual version of the server.
ServedActual(c) ==
    LET d == [target |-> TargetOf[c], version |-> actual]
    IN IF d \in Directory THEN files[d][req[c].program]["program"] ELSE None

\* The file that the offered URL names: its path is the one of the offer, so a
\* server with another actual version finds it as well.  One that is kept open
\* is not looked for.
Served(c) ==
    LET d == ReleasePath(c)
        p == req[c].program
    IN IF opened[d][p] # None THEN opened[d][p] ELSE files[d][p]["program"]

\* 404, a file that is not the signed one, or an update.
Download(c) ==
    /\ pc[c] = "offered"
    /\ installed' = [installed EXCEPT ![c] =
                        IF Verifies(req[c].signature, Served(c))
                        THEN req[c].version.number ELSE @]
    /\ opened' = [opened EXCEPT ![ReleasePath(c)][req[c].program] = Served(c)]
    /\ Done(c)
    /\ UNCHANGED published

\* The file is closed some seconds after it was opened, used or not.
CloseOpened(d, p) ==
    /\ opened[d][p] # None
    /\ opened' = [opened EXCEPT ![d][p] = None]
    /\ UNCHANGED <<published, installed, pc, req>>

-----------------------------------------------------------------------------
(* The people who publish, and the server that is restarted. *)

SetFile(d, p, s, bytes) ==
    /\ files' = [files EXCEPT ![d][p][s] = bytes]
    /\ UNCHANGED <<actual, restarts, phase, build, opened, installed, pc, req>>

Publish(d) ==
    /\ phase[d] = "absent"
    /\ build[d] < MaxBuilds[d]
    /\ phase' = [phase EXCEPT ![d] = "publishing"]
    /\ build' = [build EXCEPT ![d] = @ + 1]
    /\ UNCHANGED <<actual, restarts, files, opened, installed, pc, req>>

\* A file is there before all of its bytes are.
CopyBegin(d, p, s) ==
    /\ phase[d] = "publishing"
    /\ p \in Bundle[d]
    /\ files[d][p][s] = None
    /\ s = "signature" => files[d][p]["program"].whole
    /\ SetFile(d, p, s, [of |-> p, build |-> build[d], whole |-> FALSE])

CopyEnd(d, p, s) ==
    /\ phase[d] = "publishing"
    /\ files[d][p][s] # None
    /\ ~files[d][p][s].whole
    /\ SetFile(d, p, s, [of |-> p, build |-> build[d], whole |-> TRUE])

Withdraw(d) ==
    /\ phase[d] = "publishing"
    /\ build[d] < MaxBuilds[d]
    /\ phase' = [phase EXCEPT ![d] = "withdrawing"]
    /\ UNCHANGED <<actual, restarts, build, files, opened, installed, pc, req>>

RemoveFile(d, p, s) ==
    /\ phase[d] = "withdrawing"
    /\ files[d][p][s] # None
    /\ SetFile(d, p, s, None)

RemoveDirectory(d) ==
    /\ phase[d] = "withdrawing"
    /\ \A p \in Program, s \in Signed : files[d][p][s] = None
    /\ phase' = [phase EXCEPT ![d] = "absent"]
    /\ UNCHANGED <<actual, restarts, build, files, opened, installed, pc, req>>

\* The server is restarted with another actual_version; requests that it was
\* serving are lost, an offer that was answered is not.
Restart(version) ==
    /\ restarts < MaxRestarts
    /\ restarts' = restarts + 1
    /\ actual' = version
    /\ pc' = [c \in Client |-> IF pc[c] = "offered" THEN "offered" ELSE "idle"]
    /\ req' = [c \in Client |-> IF pc[c] = "offered" THEN req[c] ELSE Blank(version)]
    /\ opened' = NothingOpen
    /\ UNCHANGED <<phase, build, files, installed>>

ClientStep(c) ==
    \/ Ask(c)
    \/ StatDirectory(c)
    \/ FindProgramFile(c)
    \/ StatSignature(c)
    \/ ReadSignature(c)
    \/ OfferRelease(c)
    \/ Download(c)

PublisherStep(d) ==
    \/ Publish(d)
    \/ Withdraw(d)
    \/ RemoveDirectory(d)
    \/ \E p \in Program, s \in Signed :
        \/ CopyBegin(d, p, s)
        \/ CopyEnd(d, p, s)
        \/ RemoveFile(d, p, s)

Next ==
    \/ \E c \in Client : ClientStep(c)
    \/ \E d \in Directory : PublisherStep(d)
    \/ \E d \in Directory, p \in Program : CloseOpened(d, p)
    \/ \E version \in Version : Restart(version)

Spec == Init /\ [][Next]_vars

\* The server goes on with a request and closes its files in the end, and a client
\* goes on asking; nobody has to publish anything.
FairSpec ==
    /\ Spec
    /\ \A c \in Client : WF_vars(ClientStep(c))
    /\ \A d \in Directory, p \in Program : WF_vars(CloseOpened(d, p))

-----------------------------------------------------------------------------
(* Properties. *)

\* An offer is of one release: the signature is the one of the very program
\* that the URL names, and unless that build was withdrawn since, all bytes of
\* the program are there for the download, also from a server that has been
\* restarted with another actual version.
OfferIsOfOneRelease ==
    \A c \in Client : pc[c] = "offered" =>
        LET d == ReleasePath(c)
            signature == req[c].signature
        IN /\ signature # None
           /\ signature.of = req[c].program
           /\ phase[d] = "publishing" /\ signature.build = build[d] =>
                files[d][req[c].program]["program"]
                    = [of |-> signature.of, build |-> signature.build, whole |-> TRUE]

\* The server keeps a file open that is no longer the one of that name.
Outdated(d, p) == opened[d][p] # None /\ opened[d][p] # files[d][p]["program"]

\* A download of an offer whose signature was copied whole ends in the update,
\* whatever happened to the server and its actual version in between, unless
\* the build that was offered is being withdrawn, or was, or the server still
\* has a file open that was there before the offered one.
OfferedInstalls ==
    [][\A c \in Client :
        LET d == ReleasePath(c)
        IN /\ pc[c] = "offered" /\ pc'[c] # "offered"
           /\ req[c].signature.whole
           /\ phase[d] = "publishing"
           /\ req[c].signature.build = build[d]
           /\ ~Outdated(d, req[c].program)
           => installed'[c] = req[c].version.number]_vars

\* The release of the actual version is complete for a client's platform.
Complete(c) ==
    LET d == [target |-> TargetOf[c], version |-> actual]
    IN /\ d \in Directory
       /\ TargetOf[c] = "windows"
       /\ phase[d] = "publishing"
       /\ Bundle[d] # {}
       /\ \A p \in Bundle[d], s \in Signed : files[d][p][s].whole

\* Once a complete release of the actual version stays, its clients come to
\* run it, whatever offers of half-copied, withdrawn or former releases and
\* whatever outdated files they met before, and also when the actual version is an older one.
ClientsConverge ==
    \A c \in Client :
        (<>[] Complete(c)) => <>[](installed[c] = actual.number)

\* A client that runs the actual version is left alone: from some time on no
\* client downloads, whichever way it and the configuration write the version.
UpdatesStop ==
    \A c \in Client : (<>[] Complete(c)) => <>[](pc[c] # "offered")
=============================================================================
