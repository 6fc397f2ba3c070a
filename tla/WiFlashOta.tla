----------------------------- MODULE WiFlashOta -----------------------------
(***************************************************************************)
(* wiflashDownloadAndApply(): the over-the-air update the board tries once *)
(* per boot, with the server that publishes an image as four files one     *)
(* after the other, the flash that survives a restart, the boot loader     *)
(* that applies a downloaded image, and power losses between any two       *)
(* steps.                                                                  *)
(*                                                                         *)
(* An image is a sequence of blocks; a block is its content and what has   *)
(* happened to it: "good", "flipped" (a corruption CRC32 sees) or          *)
(* "collides" (one it does not see).  MD5 and the RSA/SHA-256 signature    *)
(* tell any two sequences of blocks apart.                                 *)
(***************************************************************************)
EXTENDS Naturals, Sequences

CONSTANTS
  N,                \* versions 1..N are published, in this order
  Image,            \* the contents of the blocks of each version
  MaxBlockRetries,  \* MAX_BLOCK_RETRIES (8 in the code)
  FaultSets         \* what may go wrong, see below: one of these sets

AllFaults == {"network", "corruption", "flash", "commit", "power"}

Versions == 1..N

ASSUME VersionsAssumption == N \in Nat \ {0}
ASSUME ImageAssumption    == \A v \in Versions : Image[v] \in Seq(Nat) /\ Image[v] # <<>>
ASSUME RetriesAssumption  == MaxBlockRetries \in Nat \ {0}
ASSUME FaultsAssumption   == FaultSets \subseteq SUBSET AllFaults

None     == 0         \* no current.md5 on the board
Garbled  == N + 1     \* a sidecar file that was corrupted on its way
NoLength == 0         \* http.getSize() found no Content-Length: -1, 2^32 - 1 as a size_t

VARIABLES
  pc,         \* where the board is: the boot loader, a step of the update, or the application
  ram,        \* the locals of wiflashDownloadAndApply()
  result,     \* what the update of this boot returned
  staging,    \* LittleFS firmware.bin
  marker,     \* LittleFS current.md5
  otaCmd,     \* picoOTA's command for the boot loader is stored
  running,    \* the image in program flash
  faults,     \* what may go wrong, which no step changes
  files,      \* the server's .md5, .sig, .bin and .crc32 files: the version each belongs to
  published   \* the version being published

flashVars  == <<staging, marker, otaCmd, running>>
serverVars == <<faults, files, published>>
vars == <<pc, ram, result, flashVars, serverVars>>

-----------------------------------------------------------------------------
Block(id, quality) == [id |-> id, quality |-> quality]

Good(v) == [i \in 1..Len(Image[v]) |-> Block(Image[v][i], "good")]

(* The file is the image of version v, to the last bit: equal MD5, valid signature. *)
IsImage(file, v) == v \in Versions /\ file = Good(v)

(* crc32() of the block is the one the list of version v gives for place i. *)
CrcMatches(b, v, i) ==
  v \in Versions /\ b.quality # "flipped" /\ b.id = Image[v][i]

May(fault) == fault \in faults

(* A sidecar file as it arrives. *)
Arrives(file) == {files[file]} \cup (IF May("corruption") THEN {Garbled} ELSE {})

NoLocals == [want |-> None, sig |-> None, total |-> NoLength, crc |-> None,
             summed |-> <<>>, tries |-> 0, since |-> None, block |-> Block(0, "good")]

Init ==
  /\ pc = "boot"
  /\ ram = NoLocals
  /\ result = "none"
  /\ staging = <<>>
  /\ marker = None
  /\ otaCmd = FALSE
  /\ running = Good(1)
  /\ faults \in FaultSets
  /\ files = [f \in {"md5", "sig", "bin", "crc"} |-> 1]
  /\ published = 1

-----------------------------------------------------------------------------
(* wiflashDownloadAndApply() returns to setup(): the application starts.   *)
Return(r) ==
  /\ pc' = "app"
  /\ result' = r
  /\ ram' = NoLocals

Go(label) == pc' = label /\ UNCHANGED result

(* A request fails: no connection, another HTTP code, an unexpected size,  *)
(* a stalled or interrupted transfer of a sidecar file.                    *)
RequestFails ==
  /\ May("network")
  /\ pc \in {"md5", "sig", "size", "crc"}
  /\ Return("Failed")
  /\ UNCHANGED <<flashVars, serverVars>>

(* Mutant: the marker is saved as soon as the new MD5 is known. *)
FetchMd5MarksEarly ==
  /\ pc = "md5"
  /\ \E v \in Arrives("md5") :
       IF marker = v
       THEN Return("UpToDate") /\ UNCHANGED marker
       ELSE Go("sig") /\ ram' = [ram EXCEPT !.want = v] /\ marker' = v
  /\ UNCHANGED <<staging, otaCmd, running, serverVars>>

(* Step 1: the MD5 of the published image, and the version marker. *)
FetchMd5 ==
  /\ pc = "md5"
  /\ \E v \in Arrives("md5") :
       IF marker = v
       THEN Return("UpToDate")
       ELSE Go("sig") /\ ram' = [ram EXCEPT !.want = v]
  /\ UNCHANGED <<flashVars, serverVars>>

(* Step 1b: the signature, verified only at the end. *)
FetchSignature ==
  /\ pc = "sig"
  /\ \E v \in Arrives("sig") : ram' = [ram EXCEPT !.sig = v]
  /\ Go("size")
  /\ UNCHANGED <<flashVars, serverVars>>

(* Step 2: the size; with no Content-Length the number of blocks wraps to 0. *)
QuerySize ==
  /\ pc = "size"
  /\ \E n \in {Len(Image[files.bin])} \cup (IF May("network") THEN {NoLength} ELSE {}) :
       ram' = [ram EXCEPT !.total = n]
  /\ Go("crc")
  /\ UNCHANGED <<flashVars, serverVars>>

(* Step 3: the CRC32 of every block. *)
FetchCrcList ==
  /\ pc = "crc"
  /\ \E v \in Arrives("crc") : ram' = [ram EXCEPT !.crc = v]
  /\ Go("stage")
  /\ UNCHANGED <<flashVars, serverVars>>

(* Step 4: firmware.bin as an empty file, and the MD5 of nothing. *)
PrepareStaging ==
  /\ pc = "stage"
  /\ staging' = <<>>
  /\ ram' = [ram EXCEPT !.summed = <<>>, !.since = files.bin]
  /\ Go("block")
  /\ UNCHANGED <<marker, otaCmd, running, serverVars>>

Place == Len(ram.summed) + 1

(* Step 5: the list has no line for the next block. *)
CrcListTooShort ==
  /\ pc = "block"
  /\ Place <= ram.total
  /\ ram.crc \in Versions /\ Place > Len(Image[ram.crc])
  /\ Return("Failed")
  /\ UNCHANGED <<flashVars, serverVars>>

(* What a download of the next block may bring.  fetchSome() is called     *)
(* until the block is complete: when the file is replaced in the meantime, *)
(* its pieces are of two versions, which CRC32 sees.                       *)
Downloads ==
  IF Place > Len(Image[files.bin]) THEN {}
  ELSE {Block(Image[files.bin][Place], q) :
          q \in {"good"}
                \cup (IF May("corruption") THEN {"flipped", "collides"} ELSE {})
                \cup (IF files.bin # ram.since THEN {"flipped"} ELSE {})}

Unverified(b) == ~CrcMatches(b, ram.crc, Place)

(* downloadBlock(): a complete block whose CRC32 matches. *)
BlockVerified ==
  /\ pc = "block"
  /\ Place <= ram.total
  /\ ram.crc \in Versions => Place <= Len(Image[ram.crc])
  /\ \E b \in Downloads :
       /\ ~Unverified(b)
       /\ ram' = [ram EXCEPT !.block = b]
  /\ Go("store")
  /\ UNCHANGED <<flashVars, serverVars>>

(* Mutant: one try more than MAX_BLOCK_RETRIES. *)
CountTryLate ==
  IF ram.tries < MaxBlockRetries
  THEN ram' = [ram EXCEPT !.tries = @ + 1, !.since = files.bin] /\ UNCHANGED <<pc, result>>
  ELSE Return("Failed")

(* Mutant: the tries of a block start over. *)
CountTryOver ==
  /\ ram' = [ram EXCEPT !.tries = (@ + 1) % MaxBlockRetries, !.since = files.bin]
  /\ UNCHANGED <<pc, result>>

(* downloadBlock() tries a block MAX_BLOCK_RETRIES times, then gives up.   *)
CountTry ==
  IF ram.tries + 1 < MaxBlockRetries
  THEN ram' = [ram EXCEPT !.tries = @ + 1, !.since = files.bin] /\ UNCHANGED <<pc, result>>
  ELSE Return("Failed")

(* downloadBlock(): the block is incomplete or its CRC32 is wrong.         *)
BlockAttemptFails ==
  /\ pc = "block"
  /\ Place <= ram.total
  /\ ram.crc \in Versions => Place <= Len(Image[ram.crc])
  /\ \/ May("network")
     \/ Downloads = {}
     \/ \E b \in Downloads : Unverified(b)
  /\ CountTry
  /\ UNCHANGED <<flashVars, serverVars>>

(* The verified block goes to firmware.bin and into the MD5 - which is     *)
(* computed over the buffer, not over what reached the flash.              *)
StoreBlock ==
  /\ pc = "store"
  /\ \E q \in {ram.block.quality} \cup (IF May("flash") THEN {"flipped"} ELSE {}) :
       staging' = Append(staging, [ram.block EXCEPT !.quality = q])
  /\ ram' = [ram EXCEPT !.summed = Append(@, ram.block), !.tries = 0, !.since = files.bin]
  /\ Go("block")
  /\ UNCHANGED <<marker, otaCmd, running, serverVars>>

(* A flash write that fails visibly, in one of the steps that write. *)
WriteFails ==
  /\ May("flash")
  /\ pc \in {"stage", "store"}
  /\ Return("Failed")
  /\ UNCHANGED <<flashVars, serverVars>>

(* Mutant: the signature is trusted, the MD5 not compared. *)
VerifySizeOnly ==
  /\ pc = "block"
  /\ Place > ram.total
  /\ IF ram.total # NoLength /\ Len(staging) = ram.total
     THEN Go("signature") /\ UNCHANGED ram
     ELSE Return("Failed")
  /\ UNCHANGED <<flashVars, serverVars>>

(* Step 6: the size of the file and the MD5 of what was downloaded. *)
VerifyMd5 ==
  /\ pc = "block"
  /\ Place > ram.total
  /\ IF ram.total # NoLength /\ Len(staging) = ram.total /\ IsImage(ram.summed, ram.want)
     THEN Go("signature") /\ UNCHANGED ram
     ELSE Return("Failed")
  /\ UNCHANGED <<flashVars, serverVars>>

(* Mutant: the MD5 of what was downloaded is trusted, the file not read back. *)
VerifyNoSignature ==
  /\ pc = "signature"
  /\ Go("marker")
  /\ UNCHANGED <<ram, flashVars, serverVars>>

(* Step 6b: the signature, over the file as it is read back. *)
VerifySignature ==
  /\ pc = "signature"
  /\ IF IsImage(staging, ram.sig)
     THEN Go("marker") /\ UNCHANGED ram
     ELSE Return("Failed")
  /\ UNCHANGED <<flashVars, serverVars>>

(* Step 7: the version marker, before the command.                         *)
SaveMarker ==
  /\ pc = "marker"
  /\ marker' = ram.want
  /\ Go("commit")
  /\ UNCHANGED <<ram, staging, otaCmd, running, serverVars>>

(* The marker cannot be opened, or is written short and matches nothing.   *)
SaveMarkerFails ==
  /\ May("flash")
  /\ pc = "marker"
  /\ marker' \in {marker, None}
  /\ Return("Failed")
  /\ UNCHANGED <<staging, otaCmd, running, serverVars>>

(* Step 8: the command for the boot loader, then a restart. *)
Commit ==
  /\ pc = "commit"
  /\ otaCmd' = TRUE
  /\ Go("restart")
  /\ UNCHANGED <<ram, staging, marker, running, serverVars>>

CommitFails ==
  /\ May("commit")
  /\ pc = "commit"
  /\ Return("Failed")
  /\ UNCHANGED <<flashVars, serverVars>>

-----------------------------------------------------------------------------
(* Restarts: the locals are gone, the flash stays. *)
Restart ==
  /\ pc' = "boot"
  /\ ram' = NoLocals
  /\ result' = "none"
  /\ UNCHANGED <<flashVars, serverVars>>

RestartToApply == pc = "restart" /\ Restart

Reboot == pc = "app" /\ Restart

PowerLoss == May("power") /\ pc # "boot" /\ Restart

(* The boot loader (external): with a command stored it rewrites the       *)
(* program flash from firmware.bin, and forgets the command once done.     *)
BootLoader ==
  /\ pc = "boot"
  /\ IF otaCmd
     THEN pc' = "apply" /\ running' = <<>>
     ELSE pc' = "setup" /\ UNCHANGED running
  /\ UNCHANGED <<ram, result, staging, marker, otaCmd, serverVars>>

Apply ==
  /\ pc = "apply"
  /\ running' = staging
  /\ otaCmd' = FALSE
  /\ Go("setup")
  /\ UNCHANGED <<ram, staging, marker, serverVars>>

(* wiflashAppSetup(): one update check per boot, if the modem and the WiFi *)
(* answer.                                                                 *)
WiflashAppSetup ==
  /\ pc = "setup"
  /\ \/ Go("md5") /\ UNCHANGED ram
     \/ May("network") /\ Return("none")
  /\ UNCHANGED <<flashVars, serverVars>>

Update ==
  \/ WiflashAppSetup
  \/ RequestFails \/ WriteFails
  \/ FetchMd5 \/ FetchSignature \/ QuerySize \/ FetchCrcList
  \/ PrepareStaging
  \/ CrcListTooShort \/ BlockVerified \/ BlockAttemptFails \/ StoreBlock
  \/ VerifyMd5 \/ VerifySignature
  \/ SaveMarker \/ SaveMarkerFails
  \/ Commit \/ CommitFails \/ RestartToApply
  \/ BootLoader \/ Apply

-----------------------------------------------------------------------------
(* The server (external): a new image replaces the files one at a time, in *)
(* any order, while boards download.                                       *)
Publish ==
  /\ published < N
  /\ published' = published + 1
  /\ UNCHANGED <<pc, ram, result, flashVars, faults, files>>

Upload ==
  /\ \E f \in DOMAIN files :
       /\ files[f] < published
       /\ files' = [files EXCEPT ![f] = published]
  /\ UNCHANGED <<pc, ram, result, flashVars, faults, published>>

Next == Update \/ Reboot \/ PowerLoss \/ Publish \/ Upload

(* The board keeps going, is restarted now and then, and a publication     *)
(* that was begun is finished.                                             *)
Spec ==
  /\ Init /\ [][Next]_vars
  /\ WF_vars(Update) /\ WF_vars(Reboot) /\ WF_vars(Publish) /\ WF_vars(Upload)

-----------------------------------------------------------------------------
Labels == {"boot", "apply", "setup", "md5", "sig", "size", "crc", "stage", "block",
           "store", "signature", "marker", "commit", "restart", "app"}

Blocks == [id : Nat, quality : {"good", "flipped", "collides"}]

(* Every variable has its type, and a block is tried MAX_BLOCK_RETRIES     *)
(* times at most.                                                          *)
TypeOK ==
  /\ pc \in Labels
  /\ ram \in [want : 0..(N + 1), sig : 0..(N + 1), total : Nat, crc : 0..(N + 1),
              summed : Seq(Blocks), tries : 0..(MaxBlockRetries - 1),
              since : 0..N, block : Blocks]
  /\ result \in {"none", "UpToDate", "Failed"}
  /\ staging \in Seq(Blocks)
  /\ marker \in 0..N
  /\ otaCmd \in BOOLEAN
  /\ running \in Seq(Blocks)
  /\ faults \in FaultSets
  /\ files \in [{"md5", "sig", "bin", "crc"} -> Versions]
  /\ published \in Versions

(* Whenever the boot loader has a command - from the commit, through any   *)
(* number of power losses, to the end of the copy - firmware.bin is to the *)
(* last bit the published image the version marker names: no torn          *)
(* publication, no corruption on the UART or in the flash, and no later    *)
(* update attempt gets in between.                                         *)
PendingIsVerified == otaCmd => IsImage(staging, marker)

(* The application that runs is always a complete published image: an      *)
(* update, whenever it is interrupted, leaves the old or the new one.      *)
RunsPublished ==
  pc \notin {"boot", "apply"} => \E v \in Versions : running = Good(v)

(* An update check ends, whatever the network and the flash do. *)
CheckEnds == pc = "md5" ~> pc \in {"app", "boot"}

(* Without faults the last published image is running at last, although    *)
(* checks may meet half-published files.                                   *)
Converges == faults = {} => <>[](pc = "app" => running = Good(N))

(* WiFlashOta.h:63: UpToDate means that the version on the server matches  *)
(* what is currently running.                                              *)
UpToDateMeansRunning == result = "UpToDate" => running = Good(marker)
=============================================================================
