-------------------------- MODULE WiFlashOtaProofs --------------------------
(***************************************************************************)
(* Proofs about the over-the-air update, for every number of versions,     *)
(* every image, every retry limit and every set of faults: the boot loader *)
(* only ever gets a verified image, and a published image runs.            *)
(***************************************************************************)
EXTENDS WiFlashOta, SequenceTheorems, TLAPS

(* firmware.bin has the contents that went into the MD5, block by block;   *)
(* what has happened to the blocks in the flash is another matter.         *)
SameContents ==
  /\ Len(staging) = Len(ram.summed)
  /\ \A i \in 1..Len(staging) : staging[i].id = ram.summed[i].id

(* While blocks are downloaded and verified, the file follows the MD5. *)
Copied == pc \in {"block", "store", "signature"} => SameContents

(* After step 6 what was downloaded is the image step 1 announced. *)
Md5Verified == pc \in {"signature", "marker", "commit"} => IsImage(ram.summed, ram.want)

(* After step 6b so is the file, although the signature was fetched apart. *)
FileVerified == pc \in {"marker", "commit"} => IsImage(staging, ram.want)

(* The marker is saved before the command. *)
MarkerSaved == pc = "commit" => marker = ram.want

(* A command exists only from the commit to the end of the copy, and names *)
(* a verified file that nobody touches meanwhile.                          *)
CommandHolds == otaCmd => pc \in {"restart", "boot", "apply"} /\ IsImage(staging, marker)

(* The copy is under way only on command. *)
Commanded == pc = "apply" => otaCmd

(* The program flash holds a published image unless the copy has begun. *)
FlashHolds ==
  pc # "apply" /\ ~(pc = "boot" /\ otaCmd) => \E v \in Versions : running = Good(v)

IInv == /\ TypeOK
        /\ Copied /\ Md5Verified /\ FileVerified /\ MarkerSaved
        /\ CommandHolds /\ Commanded /\ FlashHolds

RamType == [want : 0..(N + 1), sig : 0..(N + 1), total : Nat, crc : 0..(N + 1),
            summed : Seq(Blocks), tries : 0..(MaxBlockRetries - 1),
            since : 0..N, block : Blocks]

FlagParts == /\ Copied /\ Md5Verified /\ FileVerified /\ MarkerSaved
             /\ CommandHolds /\ Commanded /\ FlashHolds

-----------------------------------------------------------------------------
(* A good image is a sequence of blocks, as long as its contents. *)
LEMMA GoodTyped ==
  ASSUME NEW v \in Versions
  PROVE  /\ Good(v) \in Seq(Blocks)
         /\ Len(Good(v)) = Len(Image[v])
         /\ \A i \in 1..Len(Good(v)) : Good(v)[i] = Block(Image[v][i], "good")
<1>1. Image[v] \in Seq(Nat)
  BY ImageAssumption
<1>2. Len(Image[v]) \in Nat /\ \A i \in 1..Len(Image[v]) : Image[v][i] \in Nat
  BY <1>1
<1>3. \A i \in 1..Len(Image[v]) : Block(Image[v][i], "good") \in Blocks
  BY <1>2 DEF Block, Blocks
<1> QED BY <1>2, <1>3 DEF Good

(* A file and a download of equal contents that are both images - of       *)
(* whatever versions - are the same image.                                 *)
LEMMA SameImage ==
  ASSUME NEW f, NEW g, NEW v, NEW w,
         IsImage(f, v), IsImage(g, w),
         Len(f) = Len(g), \A i \in 1..Len(f) : f[i].id = g[i].id
  PROVE  IsImage(f, w)
<1>1. /\ v \in Versions /\ f = Good(v)
      /\ w \in Versions /\ g = Good(w)
  BY DEF IsImage
<1>2. f \in Seq(Blocks) /\ g \in Seq(Blocks)
  BY <1>1, GoodTyped
<1>3. \A i \in 1..Len(f) : f[i] = g[i]
  <2> TAKE i \in 1..Len(f)
  <2>1. f[i] = Block(Image[v][i], "good") /\ g[i] = Block(Image[w][i], "good")
    BY <1>1, GoodTyped
  <2>2. f[i].id = Image[v][i] /\ g[i].id = Image[w][i]
    BY <2>1 DEF Block
  <2> QED BY <2>1, <2>2
<1>4. f = g
  BY <1>2, <1>3, SeqEqual
<1> QED BY <1>1, <1>4 DEF IsImage

(* Appending one block of the same content keeps the contents the same. *)
LEMMA AppendSame ==
  ASSUME NEW f \in Seq(Blocks), NEW g \in Seq(Blocks),
         NEW a \in Blocks, NEW b \in Blocks, a.id = b.id,
         Len(f) = Len(g), \A i \in 1..Len(f) : f[i].id = g[i].id
  PROVE  /\ Append(f, a) \in Seq(Blocks) /\ Append(g, b) \in Seq(Blocks)
         /\ Len(Append(f, a)) = Len(Append(g, b))
         /\ \A i \in 1..Len(Append(f, a)) : Append(f, a)[i].id = Append(g, b)[i].id
<1>1. /\ Append(f, a) \in Seq(Blocks) /\ Append(g, b) \in Seq(Blocks)
      /\ Len(Append(f, a)) = Len(f) + 1 /\ Len(Append(g, b)) = Len(g) + 1
      /\ Append(f, a)[Len(f) + 1] = a /\ Append(g, b)[Len(g) + 1] = b
      /\ \A i \in 1..Len(f) : Append(f, a)[i] = f[i]
      /\ \A i \in 1..Len(g) : Append(g, b)[i] = g[i]
  BY AppendProperties
<1>2. ASSUME NEW i \in 1..Len(Append(f, a))
      PROVE  Append(f, a)[i].id = Append(g, b)[i].id
  <2>1. i \in 1..Len(f) \/ i = Len(f) + 1
    BY <1>1
  <2> QED BY <1>1, <2>1
<1> QED BY <1>1, <1>2

(* The locals at the start of a check are typed. *)
LEMMA NoLocalsTyped == NoLocals \in RamType
<1>1. Block(0, "good") \in Blocks
  BY DEF Block, Blocks
<1>2. << >> \in Seq(Blocks)
  OBVIOUS
<1>3. 0 \in 0..N /\ 0 \in 0..(N + 1) /\ 0 \in 0..(MaxBlockRetries - 1) /\ 0 \in Nat
  BY VersionsAssumption, RetriesAssumption
<1> QED BY <1>1, <1>2, <1>3 DEF NoLocals, RamType, None, NoLength

-----------------------------------------------------------------------------
(* The board as it leaves the factory: version 1 runs, nothing downloaded. *)
LEMMA InitInv == Init => IInv
<1> SUFFICES ASSUME Init PROVE IInv
  OBVIOUS
<1>1. 1 \in Versions
  BY VersionsAssumption DEF Versions
<1>2. Good(1) \in Seq(Blocks)
  BY <1>1, GoodTyped
<1>3. ram \in RamType
  BY NoLocalsTyped DEF Init
<1>4. TypeOK
  <2>1. staging \in Seq(Blocks) /\ staging = <<>>
    BY DEF Init
  <2>2. /\ files \in [{"md5", "sig", "bin", "crc"} -> Versions]
        /\ published \in Versions /\ faults \in FaultSets
    BY <1>1 DEF Init
  <2>3. marker \in 0..N
    BY VersionsAssumption DEF Init, None
  <2>4. pc \in Labels /\ result \in {"none", "UpToDate", "Failed"} /\ otaCmd \in BOOLEAN
    BY DEF Init, Labels
  <2>5. running \in Seq(Blocks)
    BY <1>2 DEF Init
  <2> QED BY <1>3, <2>1, <2>2, <2>3, <2>4, <2>5 DEF TypeOK, RamType
<1>5. FlagParts
  BY <1>1 DEF Init, FlagParts, Copied, Md5Verified, FileVerified, MarkerSaved, CommandHolds,
              Commanded, FlashHolds
<1> QED BY <1>4, <1>5 DEF IInv, FlagParts

-----------------------------------------------------------------------------
(* The application starts: whatever was downloaded, no command is stored. *)
LEMMA ReturnInv ==
  ASSUME IInv, NEW r \in {"none", "UpToDate", "Failed"}, Return(r),
         pc \notin {"restart", "boot", "apply"},
         marker' \in 0..N, UNCHANGED <<staging, otaCmd, running, serverVars>>
  PROVE  IInv'
<1>1. ~otaCmd /\ \E v \in Versions : running = Good(v)
  BY DEF IInv, CommandHolds, FlashHolds
<1>2. ram' \in RamType /\ pc' = "app" /\ result' = r
  BY NoLocalsTyped DEF Return
<1>3. TypeOK'
  BY <1>2 DEF IInv, TypeOK, RamType, Labels, serverVars
<1>4. FlagParts'
  BY <1>1, <1>2 DEF FlagParts, Copied, Md5Verified, FileVerified, MarkerSaved,
                    CommandHolds, Commanded, FlashHolds, Good
<1> QED BY <1>3, <1>4 DEF IInv, FlagParts

(* The steps before the download only fill in the locals. *)
LEMMA RequestInv ==
  ASSUME IInv, pc \notin {"restart", "boot", "apply"},
         pc' \in {"md5", "sig", "size", "crc", "stage"}, ram' \in RamType,
         UNCHANGED <<result, flashVars, serverVars>>
  PROVE  IInv'
<1>1. ~otaCmd /\ \E v \in Versions : running = Good(v)
  BY DEF IInv, CommandHolds, FlashHolds
<1>2. TypeOK'
  BY DEF IInv, TypeOK, RamType, Labels, serverVars, flashVars
<1>3. FlagParts'
  BY <1>1 DEF FlagParts, Copied, Md5Verified, FileVerified, MarkerSaved,
              CommandHolds, Commanded, FlashHolds, Good, flashVars
<1> QED BY <1>2, <1>3 DEF IInv, FlagParts

(* Update checks: from the start of the application to the list of CRCs.   *)
LEMMA RequestsInv ==
  ASSUME IInv, WiflashAppSetup \/ RequestFails \/ FetchMd5 \/ FetchSignature
               \/ QuerySize \/ FetchCrcList
  PROVE  IInv'
<1>0. /\ ram \in RamType /\ marker \in 0..N
      /\ files \in [{"md5", "sig", "bin", "crc"} -> Versions]
  BY DEF IInv, TypeOK, RamType
<1>1. CASE WiflashAppSetup
  <2>1. CASE Go("md5") /\ UNCHANGED ram
    BY <1>0, <1>1, <2>1, RequestInv DEF WiflashAppSetup, Go
  <2>2. CASE Return("none")
    BY <1>0, <1>1, <2>2, ReturnInv DEF WiflashAppSetup, flashVars
  <2> QED BY <1>1, <2>1, <2>2 DEF WiflashAppSetup
<1>2. CASE RequestFails
  BY <1>0, <1>2, ReturnInv DEF RequestFails, flashVars
<1>3. CASE FetchMd5
  <2>1. PICK v \in Arrives("md5") :
          IF marker = v THEN Return("UpToDate")
          ELSE Go("sig") /\ ram' = [ram EXCEPT !.want = v]
    BY <1>3 DEF FetchMd5
  <2>2. v \in 0..(N + 1)
    BY <1>0, VersionsAssumption DEF Arrives, Garbled, Versions
  <2>3. CASE marker = v
    BY <1>0, <1>3, <2>1, <2>3, ReturnInv DEF FetchMd5, flashVars
  <2>4. CASE marker # v
    <3>1. ram' \in RamType
      BY <1>0, <2>1, <2>2, <2>4 DEF RamType
    <3> QED BY <1>3, <2>1, <2>4, <3>1, RequestInv DEF FetchMd5, Go
  <2> QED BY <2>3, <2>4
<1>4. CASE FetchSignature
  <2>1. PICK v \in Arrives("sig") : ram' = [ram EXCEPT !.sig = v]
    BY <1>4 DEF FetchSignature
  <2>2. v \in 0..(N + 1)
    BY <1>0, VersionsAssumption DEF Arrives, Garbled, Versions
  <2>3. ram' \in RamType
    BY <1>0, <2>1, <2>2 DEF RamType
  <2> QED BY <1>4, <2>3, RequestInv DEF FetchSignature, Go
<1>5. CASE QuerySize
  <2>1. PICK n \in {Len(Image[files.bin])} \cup (IF May("network") THEN {NoLength} ELSE {}) :
          ram' = [ram EXCEPT !.total = n]
    BY <1>5 DEF QuerySize
  <2>2. files.bin \in Versions
    BY <1>0
  <2>3. Len(Image[files.bin]) \in Nat
    BY <2>2, ImageAssumption
  <2>4. n \in Nat
    BY <2>1, <2>3 DEF NoLength
  <2>5. ram' \in RamType
    BY <1>0, <2>1, <2>4 DEF RamType
  <2> QED BY <1>5, <2>5, RequestInv DEF QuerySize, Go
<1>6. CASE FetchCrcList
  <2>1. PICK v \in Arrives("crc") : ram' = [ram EXCEPT !.crc = v]
    BY <1>6 DEF FetchCrcList
  <2>2. v \in 0..(N + 1)
    BY <1>0, VersionsAssumption DEF Arrives, Garbled, Versions
  <2>3. ram' \in RamType
    BY <1>0, <2>1, <2>2 DEF RamType
  <2> QED BY <1>6, <2>3, RequestInv DEF FetchCrcList, Go
<1> QED BY <1>1, <1>2, <1>3, <1>4, <1>5, <1>6

-----------------------------------------------------------------------------
(* A step of the download keeps the file and the MD5 together. *)
LEMMA BlockStepInv ==
  ASSUME IInv, pc \in {"stage", "block", "store"}, pc' \in {"block", "store"},
         ram' \in RamType, staging' \in Seq(Blocks), SameContents',
         UNCHANGED <<result, marker, otaCmd, running, serverVars>>
  PROVE  IInv'
<1>1. ~otaCmd /\ \E v \in Versions : running = Good(v)
  BY DEF IInv, CommandHolds, FlashHolds
<1>2. TypeOK'
  BY DEF IInv, TypeOK, RamType, Labels, serverVars
<1>3. FlagParts'
  BY <1>1 DEF FlagParts, Copied, Md5Verified, FileVerified, MarkerSaved,
              CommandHolds, Commanded, FlashHolds, Good
<1> QED BY <1>2, <1>3 DEF IInv, FlagParts

(* The download: the file keeps up with the MD5. *)
LEMMA DownloadInv ==
  ASSUME IInv, PrepareStaging \/ CrcListTooShort \/ BlockVerified \/ BlockAttemptFails
               \/ StoreBlock \/ WriteFails
  PROVE  IInv'
<1>0. /\ ram \in RamType /\ marker \in 0..N /\ staging \in Seq(Blocks)
      /\ files.bin \in Versions /\ files.bin \in 0..N
  BY DEF IInv, TypeOK, RamType, Versions
<1>1. CASE PrepareStaging
  <2>1. << >> \in Seq(Blocks) /\ Len(<< >>) = 0
    OBVIOUS
  <2>2. /\ ram' \in RamType /\ ram'.summed = << >>
        /\ staging' = << >> /\ pc' = "block" /\ pc = "stage"
    BY <1>0, <1>1, <2>1 DEF PrepareStaging, RamType, Go
  <2>3. SameContents'
    BY <2>1, <2>2 DEF SameContents
  <2> QED BY <1>1, <2>1, <2>2, <2>3, BlockStepInv DEF PrepareStaging, Go
<1>2. CASE CrcListTooShort
  BY <1>0, <1>2, ReturnInv DEF CrcListTooShort, flashVars
<1>3. CASE BlockVerified
  <2>1. PICK b \in Downloads : ram' = [ram EXCEPT !.block = b]
    BY <1>3 DEF BlockVerified
  <2>2. b \in Blocks
    <3>0. Place \in Nat \ {0} /\ Len(Image[files.bin]) \in Nat
      BY <1>0, ImageAssumption DEF Place, RamType
    <3>1. Place <= Len(Image[files.bin])
      BY <2>1, <3>0 DEF Downloads
    <3>2. PICK q \in {"good", "flipped", "collides"} : b = Block(Image[files.bin][Place], q)
      BY <2>1, <3>1 DEF Downloads
    <3>3. Place \in 1..Len(Image[files.bin])
      BY <3>0, <3>1
    <3>4. Image[files.bin][Place] \in Nat
      BY <1>0, <3>3, ImageAssumption
    <3> QED BY <3>2, <3>4 DEF Block, Blocks
  <2>3. ram' \in RamType /\ ram'.summed = ram.summed
    BY <1>0, <2>1, <2>2 DEF RamType
  <2>4. pc = "block" /\ pc' = "store" /\ UNCHANGED <<result, flashVars, serverVars>>
    BY <1>3 DEF BlockVerified, Go
  <2>5. SameContents'
    BY <2>3, <2>4 DEF SameContents, IInv, Copied, flashVars
  <2> QED BY <1>0, <2>3, <2>4, <2>5, BlockStepInv DEF flashVars
<1>4. CASE BlockAttemptFails
  <2>1. CASE Return("Failed")
    BY <1>0, <1>4, <2>1, ReturnInv DEF BlockAttemptFails, flashVars
  <2>2. CASE ~Return("Failed")
    <3>1. /\ ram.tries + 1 < MaxBlockRetries
          /\ ram' = [ram EXCEPT !.tries = @ + 1, !.since = files.bin]
          /\ UNCHANGED <<pc, result>>
      BY <1>4, <2>2 DEF BlockAttemptFails, CountTry
    <3>2. ram.tries + 1 \in 0..(MaxBlockRetries - 1)
      BY <1>0, <3>1, RetriesAssumption DEF RamType
    <3>3. ram' \in RamType /\ ram'.summed = ram.summed
      BY <1>0, <3>1, <3>2 DEF RamType
    <3>4. pc = "block" /\ pc' = "block" /\ UNCHANGED <<flashVars, serverVars>>
      BY <1>4, <3>1 DEF BlockAttemptFails
    <3>5. SameContents'
      BY <3>3, <3>4 DEF SameContents, IInv, Copied, flashVars
    <3> QED BY <1>0, <3>1, <3>3, <3>4, <3>5, BlockStepInv DEF flashVars
  <2> QED BY <2>1, <2>2
<1>5. CASE StoreBlock
  <2>1. PICK q \in {ram.block.quality, "flipped"} :
          staging' = Append(staging, [ram.block EXCEPT !.quality = q])
    BY <1>5 DEF StoreBlock
  <2> DEFINE b == [ram.block EXCEPT !.quality = q]
  <2>2. ram.block \in Blocks /\ ram.summed \in Seq(Blocks)
    BY <1>0 DEF RamType
  <2>3. b \in Blocks /\ b.id = ram.block.id
    BY <2>1, <2>2 DEF Blocks
  <2>4. /\ ram' = [ram EXCEPT !.summed = Append(@, ram.block), !.tries = 0, !.since = files.bin]
        /\ pc = "store" /\ pc' = "block"
        /\ UNCHANGED <<result, marker, otaCmd, running, serverVars>>
    BY <1>5 DEF StoreBlock, Go
  <2>5. SameContents
    BY <2>4 DEF IInv, Copied
  <2> HIDE DEF b
  <2>6. /\ staging' = Append(staging, b)
        /\ ram'.summed = Append(ram.summed, ram.block)
    BY <1>0, <2>1, <2>4 DEF b, RamType
  <2>7. /\ Append(staging, b) \in Seq(Blocks)
        /\ Append(ram.summed, ram.block) \in Seq(Blocks)
        /\ Len(Append(staging, b)) = Len(Append(ram.summed, ram.block))
        /\ \A i \in 1..Len(Append(staging, b)) :
             Append(staging, b)[i].id = Append(ram.summed, ram.block)[i].id
    BY <1>0, <2>2, <2>3, <2>5, AppendSame DEF SameContents
  <2>8. SameContents' /\ staging' \in Seq(Blocks)
    BY <2>6, <2>7 DEF SameContents
  <2>9. ram' \in RamType
    <3>1. 0 \in 0..(MaxBlockRetries - 1)
      BY RetriesAssumption
    <3> QED BY <1>0, <2>4, <2>7, <3>1 DEF RamType
  <2> QED BY <2>4, <2>8, <2>9, BlockStepInv
<1>6. CASE WriteFails
  BY <1>0, <1>6, ReturnInv DEF WriteFails, flashVars
<1> QED BY <1>1, <1>2, <1>3, <1>4, <1>5, <1>6

-----------------------------------------------------------------------------
(* Verification: what passes both tests is the announced image, in the file. *)
LEMMA VerificationInv ==
  ASSUME IInv, VerifyMd5 \/ VerifySignature
  PROVE  IInv'
<1>0. marker \in 0..N /\ ~otaCmd /\ \E v \in Versions : running = Good(v)
  BY DEF IInv, TypeOK, CommandHolds, FlashHolds, VerifyMd5, VerifySignature
<1>1. CASE Return("Failed")
  BY <1>0, <1>1, ReturnInv DEF VerifyMd5, VerifySignature, flashVars
<1>2. CASE VerifyMd5 /\ ~Return("Failed")
  <2>1. /\ pc = "block" /\ pc' = "signature" /\ IsImage(ram.summed, ram.want)
        /\ UNCHANGED <<ram, result, flashVars, serverVars>>
    BY <1>2 DEF VerifyMd5, Go
  <2>2. TypeOK'
    BY <2>1 DEF IInv, TypeOK, Labels, flashVars, serverVars
  <2>3. FlagParts'
    BY <1>0, <2>1 DEF IInv, FlagParts, Copied, Md5Verified, FileVerified, MarkerSaved,
                      CommandHolds, Commanded, FlashHolds, Good, IsImage, SameContents, flashVars
  <2> QED BY <2>2, <2>3 DEF IInv, FlagParts
<1>3. CASE VerifySignature /\ ~Return("Failed")
  <2>1. /\ pc = "signature" /\ pc' = "marker" /\ IsImage(staging, ram.sig)
        /\ UNCHANGED <<ram, result, flashVars, serverVars>>
    BY <1>3 DEF VerifySignature, Go
  <2>2. IsImage(ram.summed, ram.want) /\ SameContents
    BY <2>1 DEF IInv, Md5Verified, Copied
  <2>3. IsImage(staging, ram.want)
    BY <2>1, <2>2, SameImage DEF SameContents
  <2>4. TypeOK'
    BY <2>1 DEF IInv, TypeOK, Labels, flashVars, serverVars
  <2>5. FlagParts'
    BY <1>0, <2>1, <2>2, <2>3
       DEF FlagParts, Copied, Md5Verified, FileVerified, MarkerSaved,
           CommandHolds, Commanded, FlashHolds, Good, IsImage, flashVars
  <2> QED BY <2>4, <2>5 DEF IInv, FlagParts
<1> QED BY <1>1, <1>2, <1>3

(* The marker and the command: in this order, for the file just verified. *)
LEMMA CommitInv ==
  ASSUME IInv, SaveMarker \/ SaveMarkerFails \/ Commit \/ CommitFails
  PROVE  IInv'
<1>0. /\ marker \in 0..N
      /\ ~otaCmd /\ \E v \in Versions : running = Good(v)
      /\ IsImage(ram.summed, ram.want) /\ IsImage(staging, ram.want)
  BY DEF IInv, TypeOK, CommandHolds, FlashHolds, Md5Verified, FileVerified,
         SaveMarker, SaveMarkerFails, Commit, CommitFails
<1>1. CASE SaveMarker
  <2>1. ram.want \in 0..N
    BY <1>0 DEF IsImage, Versions
  <2>2. /\ pc' = "commit" /\ marker' = ram.want
        /\ UNCHANGED <<ram, result, staging, otaCmd, running, serverVars>>
    BY <1>1 DEF SaveMarker, Go
  <2>3. TypeOK'
    BY <2>1, <2>2 DEF IInv, TypeOK, Labels, serverVars
  <2>4. FlagParts'
    BY <1>0, <2>2 DEF FlagParts, Copied, Md5Verified, FileVerified, MarkerSaved,
                      CommandHolds, Commanded, FlashHolds, Good, IsImage
  <2> QED BY <2>3, <2>4 DEF IInv, FlagParts
<1>2. CASE SaveMarkerFails
  <2>1. marker' \in 0..N
    BY <1>0, <1>2, VersionsAssumption DEF SaveMarkerFails, None
  <2> QED BY <1>2, <2>1, ReturnInv DEF SaveMarkerFails
<1>3. CASE Commit
  <2>1. /\ pc = "commit" /\ pc' = "restart" /\ otaCmd' = TRUE
        /\ UNCHANGED <<ram, result, staging, marker, running, serverVars>>
    BY <1>3 DEF Commit, Go
  <2>2. marker = ram.want
    BY <2>1 DEF IInv, MarkerSaved
  <2>3. TypeOK'
    BY <2>1 DEF IInv, TypeOK, Labels, serverVars
  <2>4. FlagParts'
    BY <1>0, <2>1, <2>2 DEF FlagParts, Copied, Md5Verified, FileVerified, MarkerSaved,
                            CommandHolds, Commanded, FlashHolds, Good, IsImage
  <2> QED BY <2>3, <2>4 DEF IInv, FlagParts
<1>4. CASE CommitFails
  BY <1>0, <1>4, ReturnInv DEF CommitFails, flashVars
<1> QED BY <1>1, <1>2, <1>3, <1>4

-----------------------------------------------------------------------------
(* Restarts and the boot loader: the file waits for the copy to complete. *)
LEMMA BootInv ==
  ASSUME IInv, RestartToApply \/ Reboot \/ PowerLoss \/ BootLoader \/ Apply
  PROVE  IInv'
<1>1. CASE Restart /\ pc # "boot"
  <2>1. /\ ram' \in RamType /\ pc' = "boot" /\ result' = "none"
        /\ UNCHANGED <<flashVars, serverVars>>
    BY <1>1, NoLocalsTyped DEF Restart
  <2>2. TypeOK'
    BY <2>1 DEF IInv, TypeOK, RamType, Labels, flashVars, serverVars
  <2>3. otaCmd => IsImage(staging, marker)
    BY DEF IInv, CommandHolds
  <2>4. ~otaCmd => \E v \in Versions : running = Good(v)
    BY <1>1 DEF IInv, Commanded, FlashHolds
  <2>5. FlagParts'
    BY <2>1, <2>3, <2>4
       DEF FlagParts, Copied, Md5Verified, FileVerified, MarkerSaved,
           CommandHolds, Commanded, FlashHolds, Good, IsImage, flashVars
  <2> QED BY <2>2, <2>5 DEF IInv, FlagParts
<1>2. CASE BootLoader
  <2>1. << >> \in Seq(Blocks)
    OBVIOUS
  <2>2. /\ pc = "boot" /\ pc' = IF otaCmd THEN "apply" ELSE "setup"
        /\ running' = IF otaCmd THEN << >> ELSE running
        /\ UNCHANGED <<ram, result, staging, marker, otaCmd, serverVars>>
    BY <1>2 DEF BootLoader
  <2>3. running' \in Seq(Blocks) /\ pc' \in Labels
    BY <2>1, <2>2 DEF IInv, TypeOK, Labels
  <2>4. TypeOK'
    BY <2>2, <2>3 DEF IInv, TypeOK, serverVars
  <2>5. FlagParts'
    <3>1. CASE otaCmd
      BY <2>2, <3>1 DEF IInv, FlagParts, Copied, Md5Verified, FileVerified, MarkerSaved,
                        CommandHolds, Commanded, FlashHolds, Good, IsImage
    <3>2. CASE ~otaCmd
      <4>1. \E v \in Versions : running = Good(v)
        BY <2>2, <3>2 DEF IInv, FlashHolds
      <4> QED BY <2>2, <3>2, <4>1
                 DEF FlagParts, Copied, Md5Verified, FileVerified, MarkerSaved,
                     CommandHolds, Commanded, FlashHolds, Good, IsImage
    <3> QED BY <3>1, <3>2
  <2> QED BY <2>4, <2>5 DEF IInv, FlagParts
<1>3. CASE Apply
  <2>1. /\ pc = "apply" /\ pc' = "setup" /\ running' = staging /\ otaCmd' = FALSE
        /\ UNCHANGED <<ram, result, staging, marker, serverVars>>
    BY <1>3 DEF Apply, Go
  <2>2. marker \in Versions /\ staging = Good(marker)
    BY <2>1 DEF IInv, Commanded, CommandHolds, IsImage
  <2>3. TypeOK'
    BY <2>1 DEF IInv, TypeOK, Labels, serverVars
  <2>4. FlagParts'
    BY <2>1, <2>2 DEF FlagParts, Copied, Md5Verified, FileVerified, MarkerSaved,
                      CommandHolds, Commanded, FlashHolds, Good
  <2> QED BY <2>3, <2>4 DEF IInv, FlagParts
<1>4. CASE RestartToApply \/ Reboot \/ PowerLoss
  BY <1>1, <1>4 DEF RestartToApply, Reboot, PowerLoss
<1> QED BY <1>2, <1>3, <1>4

(* The server only touches its own files. *)
LEMMA ServerInv ==
  ASSUME IInv, Publish \/ Upload
  PROVE  IInv'
<1>1. published' \in Versions /\ files' \in [{"md5", "sig", "bin", "crc"} -> Versions]
  <2>1. CASE Publish
    BY <2>1, VersionsAssumption DEF Publish, IInv, TypeOK, Versions
  <2>2. CASE Upload
    BY <2>2 DEF Upload, IInv, TypeOK
  <2> QED BY <2>1, <2>2
<1>2. UNCHANGED <<pc, ram, result, staging, marker, otaCmd, running, faults>>
  BY DEF Publish, Upload, flashVars
<1>3. TypeOK'
  BY <1>1, <1>2 DEF IInv, TypeOK
<1>4. FlagParts'
  BY <1>2 DEF IInv, FlagParts, Copied, Md5Verified, FileVerified, MarkerSaved,
              CommandHolds, Commanded, FlashHolds, Good, IsImage, SameContents
<1> QED BY <1>3, <1>4 DEF IInv, FlagParts

(* Every step keeps the inductive invariant. *)
LEMMA NextInv ==
  ASSUME IInv, [Next]_vars
  PROVE  IInv'
<1>1. CASE UNCHANGED vars
  BY <1>1 DEF vars, flashVars, serverVars, IInv, TypeOK, Copied, Md5Verified, FileVerified,
              MarkerSaved, CommandHolds, Commanded, FlashHolds, Good, IsImage, SameContents
<1>2. CASE Update
  BY <1>2, RequestsInv, DownloadInv, VerificationInv, CommitInv, BootInv DEF Update
<1> QED BY <1>1, <1>2, BootInv, ServerInv DEF Next

(* The inductive invariant holds in every state. *)
LEMMA Invariance == Spec => []IInv
BY InitInv, NextInv, PTL DEF Spec

(* The variables keep their types; a block is tried MAX_BLOCK_RETRIES      *)
(* times at most.                                                          *)
THEOREM TypeCorrect == Spec => []TypeOK
BY Invariance, PTL DEF IInv

(* What the boot loader is told to copy is, to the last bit, the published *)
(* image the version marker names.                                         *)
THEOREM PendingVerified == Spec => []PendingIsVerified
<1>1. IInv => PendingIsVerified
  BY DEF IInv, CommandHolds, PendingIsVerified
<1> QED BY <1>1, Invariance, PTL

(* Whatever fails, the application that runs is a published image.         *)
THEOREM RunsPublishedImage == Spec => []RunsPublished
<1>1. IInv => RunsPublished
  BY DEF IInv, FlashHolds, RunsPublished
<1> QED BY <1>1, Invariance, PTL
=============================================================================
