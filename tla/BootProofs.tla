----------------------------- MODULE BootProofs -----------------------------
(* Proofs about the boot loader, for any images, pages and sectors: it     *)
(* never touches itself, starts only what is whole, and a block or a       *)
(* download the host was told is done has been handled.                    *)
EXTENDS BootSafety, TLAPS

LEMMA FieldsInit == Init => FieldsTyped
<1> SUFFICES ASSUME Init PROVE FieldsTyped OBVIOUS
<1>1. DOMAIN flash = AppPages \union {-1} BY DEF Init
<1>2. host \in [mode : Modes, img : Images \union {None}, k : Nat \union {-1}]
  BY DEF Init, NoHost, Modes
<1>3. sector \in Int BY BootAssumption DEF Init, Closed
<1>4. write_buffer = [j \in 1 .. PAGE |-> write_buffer[j]] BY DEF Init, Filled
<1> QED BY <1>1, <1>2, <1>3, <1>4
        DEF Init, FieldsTyped, States, Statuses, InBlock, OnUsb, None

(* The steps of main(), of a block and of the USB interrupt keep the types.*)
LEMMA FieldsBlock == FieldsTyped /\ DataBlock => FieldsTyped'
<1> SUFFICES ASSUME FieldsTyped, DataBlock PROVE FieldsTyped' OBVIOUS
<1> USE BootAssumption DEF FieldsTyped, States, Statuses, InBlock, OnUsb, mainVars,
        reqVars, rstVars, dfuVars, blkVars
<1>1. CASE BlockHeader BY <1>1 DEF BlockHeader
<1>2. CASE BlockNumber BY <1>2 DEF BlockNumber
<1>3. CASE BlockSector
  <2>1. SectorOf(PageOf(block)) \in Int BY DEF SectorOf, PageOf
  <2> QED BY <2>1, <1>3 DEF BlockSector, Open
<1>4. CASE BlockCopy BY ZenonT(30), <1>4 DEF BlockCopy
<1>5. CASE BlockWrite BY <1>5 DEF BlockWrite
<1> QED BY <1>1, <1>2, <1>3, <1>4, <1>5 DEF DataBlock

LEMMA FieldsStart == FieldsTyped /\ Start => FieldsTyped'
<1> SUFFICES ASSUME FieldsTyped, Start PROVE FieldsTyped' OBVIOUS
<1> USE BootAssumption DEF FieldsTyped, States, Statuses, InBlock, OnUsb,
        reqVars, rstVars, dfuVars, blkVars, None
<1>1. CASE Check BY <1>1 DEF Check
<1>2. CASE FileRead BY <1>2 DEF FileRead, Call
<1>3. CASE FileResult BY <1>3 DEF FileResult
<1>4. CASE FileShort BY <1>4 DEF FileShort
<1>5. CASE FileEnd BY <1>5 DEF FileEnd
<1>6. CASE Decide BY <1>6 DEF Decide
<1> QED BY <1>1, <1>2, <1>3, <1>4, <1>5, <1>6 DEF Start

LEMMA FieldsLoop == FieldsTyped /\ Loop => FieldsTyped'
<1> SUFFICES ASSUME FieldsTyped, Loop PROVE FieldsTyped' OBVIOUS
<1> USE BootAssumption DEF FieldsTyped, States, Statuses, InBlock, OnUsb,
        reqVars, rstVars, dfuVars, blkVars, mainVars
<1>1. CASE Wait BY <1>1 DEF Wait
<1>2. CASE ResetDone BY <1>2 DEF ResetDone
<1>3. CASE Result BY <1>3 DEF Result
<1>4. CASE ErrorState BY <1>4 DEF ErrorState
<1>5. CASE ErrorStatus BY <1>5 DEF ErrorStatus
<1>6. CASE RequestDone BY <1>6 DEF RequestDone
<1> QED BY <1>1, <1>2, <1>3, <1>4, <1>5, <1>6 DEF Loop

LEMMA FieldsUsb == FieldsTyped /\ Usb => FieldsTyped'
<1> SUFFICES ASSUME FieldsTyped, Usb PROVE FieldsTyped' OBVIOUS
<1> USE BootAssumption DEF FieldsTyped, States, Statuses, Modes,
        reqVars, rstVars, dfuVars, blkVars, mainVars, Ask, NoHost, None
<1>1. CASE Dnload
  <2>1. PICK img \in Images :
          host' = [mode |-> "poll", img |-> img, k |-> host.k + 1]
    BY <1>1 DEF Dnload
  <2> QED BY <1>1, <2>1 DEF Dnload
<1>2. CASE DnloadOdd BY <1>2 DEF DnloadOdd
<1>3. CASE DnloadEnd BY <1>3 DEF DnloadEnd
<1>4. CASE GetStatus
  <2>1. Goes \in Modes BY DEF Goes
  <2>2. NewState # "DNBUSY" => NewState \in States BY DEF NewState
  <2>3. state' \in States BY <1>4, <2>2 DEF GetStatus
  <2>4. host' = [host EXCEPT !.mode = Goes] BY <1>4 DEF GetStatus
  <2>5. host' \in [mode : Modes, img : Images \union {None}, k : Nat \union {-1}]
    BY <2>1, <2>4
  <2>6. UNCHANGED <<flash, current_block, last_status, sector, write_buffer, block,
                    res, pc, ret>>
    BY <1>4 DEF GetStatus
  <2> QED BY <2>3, <2>5, <2>6
<1>5. CASE ClrStatus BY <1>5 DEF ClrStatus
<1>6. CASE Abort BY <1>6 DEF Abort
<1>7. CASE GiveUp BY <1>7 DEF GiveUp
<1>8. CASE BusReset BY <1>8 DEF BusReset
<1> QED BY <1>1, <1>2, <1>3, <1>4, <1>5, <1>6, <1>7, <1>8 DEF Usb

LEMMA FieldsPower == FieldsTyped /\ PowerCut => FieldsTyped'
<1> SUFFICES ASSUME FieldsTyped, PowerCut PROVE FieldsTyped' OBVIOUS
<1> USE DEF PowerCut
<1>1. DOMAIN flash' = AppPages \union {-1} BY DEF FieldsTyped
<1>2. host' \in [mode : Modes, img : Images \union {None}, k : Nat \union {-1}]
  BY DEF NoHost, Modes
<1>3. sector' \in Int BY BootAssumption DEF Ram, Closed
<1>4. write_buffer' = [j \in 1 .. PAGE |-> write_buffer'[j]] BY DEF Ram, Filled
<1> QED BY <1>1, <1>2, <1>3, <1>4
        DEF Ram, FieldsTyped, States, Statuses, InBlock, OnUsb, None

(* Flags hold truth values.                                                *)
LEMMA FlagsStep == FlagsTyped /\ [Next]_vars => FlagsTyped'
<1> SUFFICES ASSUME FlagsTyped, [Next]_vars PROVE FlagsTyped' OBVIOUS
<1> USE DEF FlagsTyped, reqVars, rstVars, dfuVars, blkVars, mainVars
<1>0. app_ok \in BOOLEAN BY DEF app_ok
<1>1. CASE UNCHANGED vars BY <1>1, Zenon DEF vars
<1>2. CASE DataBlock
  BY <1>2, Zenon DEF DataBlock, BlockHeader, BlockNumber, BlockSector, BlockCopy,
                     BlockWrite
<1>3. CASE Start
  BY <1>0, <1>3, Zenon DEF Start, Check, FileRead, FileResult, FileShort, FileEnd,
                           Decide
<1>4. CASE Loop
  BY <1>4, Zenon DEF Loop, Wait, ResetDone, Result, ErrorState, ErrorStatus,
                     RequestDone
<1>5. CASE Usb
  <2>1. CASE Dnload
    <3>1. fresh' \in BOOLEAN BY <2>1 DEF Dnload
    <3> QED BY <2>1, <3>1, Zenon DEF Dnload
  <2>2. CASE BusReset
    <3>1. reset_flag' \in BOOLEAN BY <2>2 DEF BusReset
    <3> QED BY <2>2, <3>1, Zenon DEF BusReset
  <2> QED BY <1>5, <2>1, <2>2, Zenon
       DEF Usb, DnloadOdd, DnloadEnd, GetStatus, ClrStatus, Abort, GiveUp
<1>6. CASE PowerCut BY <1>6, Zenon DEF PowerCut, Ram
<1> QED BY <1>1, <1>2, <1>3, <1>4, <1>5, <1>6 DEF Next, Main

LEMMA FieldsStep == FieldsTyped /\ [Next]_vars => FieldsTyped'
<1> SUFFICES ASSUME FieldsTyped, [Next]_vars PROVE FieldsTyped' OBVIOUS
<1>1. CASE UNCHANGED vars
  BY <1>1 DEF vars, FieldsTyped, reqVars, rstVars, dfuVars, blkVars, mainVars
<1> QED BY <1>1, FieldsBlock, FieldsStart, FieldsLoop, FieldsUsb, FieldsPower
        DEF Next, Main

LEMMA TypeInit == Init => TypeOK
<1>1. Init => FlagsTyped BY Zenon DEF Init, FlagsTyped
<1> QED BY <1>1, FieldsInit DEF TypeOK

LEMMA TypeStep == TypeOK /\ [Next]_vars => TypeOK'
BY FlagsStep, FieldsStep DEF TypeOK

(* Every reachable state of the loader is well typed.                      *)
THEOREM BootTypeCorrect == Spec => []TypeOK
BY TypeInit, TypeStep, PTL DEF Spec

-----------------------------------------------------------------------------
(* The host and main() keep out of each other's way.                       *)
LEMMA HostStart == TypeOK /\ HostInv /\ Start => HostInv'
<1> SUFFICES ASSUME TypeOK, HostInv, Start PROVE HostInv' OBVIOUS
<1> USE DEF TypeOK, FlagsTyped, FieldsTyped, HostInv, Listening, OnUsb, InBlock,
        None, reqVars, rstVars, dfuVars, blkVars
<1>1. CASE Check BY <1>1 DEF Check
<1>2. CASE FileRead BY <1>2 DEF FileRead, Call
<1>3. CASE FileResult BY <1>3 DEF FileResult
<1>4. CASE FileShort BY <1>4 DEF FileShort
<1>5. CASE FileEnd BY <1>5 DEF FileEnd
<1>6. CASE Decide BY <1>6 DEF Decide
<1> QED BY <1>1, <1>2, <1>3, <1>4, <1>5, <1>6 DEF Start

LEMMA HostBlock == TypeOK /\ HostInv /\ DataBlock => HostInv'
<1> SUFFICES ASSUME TypeOK, HostInv, DataBlock PROVE HostInv' OBVIOUS
<1> USE DEF TypeOK, FlagsTyped, FieldsTyped, HostInv, Listening, OnUsb, InBlock,
        None, reqVars, rstVars, dfuVars
<1>1. CASE BlockHeader BY <1>1 DEF BlockHeader
<1>2. CASE BlockNumber BY <1>2 DEF BlockNumber
<1>3. CASE BlockSector BY <1>3 DEF BlockSector
<1>4. CASE BlockCopy BY <1>4 DEF BlockCopy
<1>5. CASE BlockWrite BY <1>5 DEF BlockWrite
<1> QED BY <1>1, <1>2, <1>3, <1>4, <1>5 DEF DataBlock

LEMMA HostLoop == TypeOK /\ HostInv /\ Loop => HostInv'
<1> SUFFICES ASSUME TypeOK, HostInv, Loop PROVE HostInv' OBVIOUS
<1> USE DEF TypeOK, FlagsTyped, FieldsTyped, HostInv, Listening, OnUsb, InBlock,
        None, reqVars, rstVars, dfuVars, blkVars, mainVars
<1>1. CASE Wait BY <1>1 DEF Wait
<1>2. CASE ResetDone BY <1>2 DEF ResetDone
<1>3. CASE Result BY <1>3 DEF Result
<1>4. CASE ErrorState BY <1>4 DEF ErrorState
<1>5. CASE ErrorStatus BY <1>5 DEF ErrorStatus
<1>6. CASE RequestDone BY <1>6 DEF RequestDone
<1> QED BY <1>1, <1>2, <1>3, <1>4, <1>5, <1>6 DEF Loop

LEMMA HostUsb ==
  HostWaits = TRUE /\ TypeOK /\ HostInv /\ Usb => HostInv'
<1> SUFFICES ASSUME HostWaits = TRUE, TypeOK, HostInv, Usb PROVE HostInv' OBVIOUS
<1> USE DEF TypeOK, FlagsTyped, FieldsTyped, HostInv, Listening, OnUsb, InBlock,
        None, reqVars, rstVars, dfuVars, blkVars, mainVars, Ask, NoHost
<1>1. CASE Dnload
  <2>1. host'.mode = "poll" BY <1>1 DEF Dnload
  <2> QED BY <1>1, <2>1 DEF Dnload
<1>2. CASE DnloadOdd BY <1>2 DEF DnloadOdd
<1>3. CASE DnloadEnd BY <1>3 DEF DnloadEnd
<1>4. CASE GetStatus
  <2>1. host'.mode = Goes /\ host'.k = host.k BY <1>4 DEF GetStatus
  <2>2. /\ state' = IF NewState = "DNBUSY" THEN state ELSE NewState
        /\ host.mode = "off" => pc = "wait" /\ ~reset_flag
        /\ UNCHANGED <<data_req, reset_flag, last_status, pc, ret>>
    BY <1>4 DEF GetStatus
  <2>3. /\ state = "DNLOAD_SYNC" /\ data_req => NewState = "DNBUSY"
        /\ state = "DNLOAD_SYNC" /\ ~data_req => NewState = "DNLOAD_IDLE"
        /\ state = "MANIFEST_SYNC" => NewState = "IDLE"
        /\ state \notin {"DNLOAD_SYNC", "MANIFEST_SYNC"} => NewState = state
    BY DEF NewState
  <2>4. /\ NewState = "ERROR" \/ last_status # "OK" => Goes = "failed"
        /\ NewState # "ERROR" /\ last_status = "OK" /\ NewState = "DNBUSY" =>
             Goes = "poll"
        /\ Goes \in {"failed", "poll", "done", "end", "ready"}
    BY DEF Goes
  <2>5. ret = "usb" /\ pc # "app" /\ host.mode \in {"off", "poll", "last"}
    BY <1>4 DEF GetStatus
  <2> HIDE DEF Goes, NewState
  <2> QED BY <2>1, <2>2, <2>3, <2>4, <2>5
<1>5. CASE ClrStatus BY <1>5 DEF ClrStatus
<1>6. CASE Abort BY <1>6 DEF Abort
<1>7. CASE GiveUp BY <1>7 DEF GiveUp
<1>8. CASE BusReset BY <1>8 DEF BusReset
<1> QED BY <1>1, <1>2, <1>3, <1>4, <1>5, <1>6, <1>7, <1>8 DEF Usb

LEMMA HostPower == PowerCut => HostInv'
BY DEF PowerCut, Ram, HostInv, NoHost, Listening, None

LEMMA HostStep ==
  HostWaits = TRUE /\ TypeOK /\ HostInv /\ [Next]_vars => HostInv'
<1>1. HostInv /\ UNCHANGED vars => HostInv'
  BY DEF vars, HostInv, Listening, reqVars, rstVars, dfuVars, blkVars, mainVars
<1> QED BY <1>1, HostStart, HostBlock, HostLoop, HostUsb, HostPower DEF Next, Main

-----------------------------------------------------------------------------
(* Pages and sectors.                                                      *)
LEMMA DivMod ==
  ASSUME NEW a \in Int, NEW n \in Nat \ {0}
  PROVE  /\ a \div n \in Int /\ a % n \in 0 .. n - 1
         /\ a = n * (a \div n) + (a % n)
         /\ a >= 0 => a \div n >= 0
OBVIOUS

(* The loader's page lies in a sector of its own.                          *)
LEMMA SectorApart ==
  ASSUME NEW p \in Nat
  PROVE  SectorOf(p) # SectorOf(-1)
<1>1. p \div SECTOR \in Nat BY BootAssumption, DivMod
<1>2. (p \div SECTOR) * SECTOR >= 0 BY <1>1, BootAssumption
<1> QED BY <1>2, BootAssumption DEF SectorOf

LEMMA PageOfNat == ASSUME NEW b \in Nat PROVE PageOf(b) \in Nat
BY BootAssumption, DivMod DEF PageOf

(* The interrupt changes current_block only while main() waits.            *)
LEMMA BlockStep ==
  LoaderInv /\ [Next]_vars => BlockInv'
<1> SUFFICES ASSUME LoaderInv, [Next]_vars PROVE BlockInv' OBVIOUS
<1> USE DEF LoaderInv, BlockInv
<1>1. CASE UNCHANGED vars BY <1>1 DEF vars, reqVars, blkVars, mainVars
<1>2. CASE Start
  BY <1>2 DEF Start, Check, FileRead, FileResult, FileShort, FileEnd, Decide,
              Call, reqVars, blkVars
<1>3. CASE DataBlock
  <2>1. current_block \in Nat /\ block \in Int BY DEF TypeOK, FieldsTyped
  <2> QED BY <1>3, <2>1 DEF DataBlock, BlockHeader, BlockNumber, BlockSector,
                            BlockCopy, BlockWrite, reqVars, mainVars
<1>4. CASE Loop
  BY <1>4 DEF Loop, Wait, ResetDone, Result, ErrorState, ErrorStatus,
              RequestDone, blkVars, mainVars
<1>5. CASE Usb
  <2>1. CASE Dnload
    <3>1. pc = "wait"
      BY <2>1, Zenon DEF Dnload, TypeOK, FlagsTyped, HostInv
    <3> QED BY <2>1, <3>1 DEF Dnload, mainVars
  <2> QED BY <1>5, <2>1 DEF Usb, DnloadOdd, DnloadEnd, GetStatus, ClrStatus, Abort,
                            GiveUp, BusReset, reqVars, blkVars, mainVars
<1>6. CASE PowerCut BY <1>6 DEF PowerCut
<1> QED BY <1>1, <1>2, <1>3, <1>4, <1>5, <1>6 DEF Next, Main

(* Only the sector and the page of a block, or what a power cut caught,    *)
(* change in flash.                                                        *)
LEMMA LoaderStep == LoaderInv /\ [Next]_vars => LoaderIntact'
<1> SUFFICES ASSUME LoaderInv, [Next]_vars PROVE flash'[-1] = Loader
  BY DEF LoaderIntact, Loader, Filled, Block
<1>0. flash[-1] = Loader /\ -1 \in DOMAIN flash /\ block \in Int
  BY DEF LoaderInv, LoaderIntact, TypeOK, FieldsTyped
<1>1. pc \in {"sector", "write"} =>
        PageOf(block) \in Nat /\ SectorOf(PageOf(block)) # SectorOf(-1)
  BY <1>0, PageOfNat, SectorApart DEF LoaderInv, BlockInv
<1>2. CASE BlockSector BY <1>0, <1>1, <1>2 DEF BlockSector
<1>3. CASE BlockWrite BY <1>0, <1>1, <1>3 DEF BlockWrite
<1>4. CASE PowerCut BY <1>0, <1>1, <1>4 DEF PowerCut
<1>5. CASE UNCHANGED flash BY <1>0, <1>5
<1>6. [Next]_vars => \/ UNCHANGED flash \/ BlockSector \/ BlockWrite \/ PowerCut
  BY Zenon DEF Next, Main, Start, Check, FileRead, FileResult, FileShort, FileEnd,
     Decide, DataBlock, BlockHeader, BlockNumber, BlockCopy, Loop, Wait, ResetDone,
     Result, ErrorState, ErrorStatus, RequestDone, Usb, Dnload, DnloadOdd,
     DnloadEnd, GetStatus, ClrStatus, Abort, GiveUp, BusReset, vars
<1> QED BY <1>2, <1>3, <1>4, <1>5, <1>6

LEMMA LoaderInit == Init => LoaderInv
<1> SUFFICES ASSUME Init PROVE LoaderInv OBVIOUS
<1>1. LoaderIntact BY DEF Init, LoaderIntact
<1>2. HostInv BY DEF Init, HostInv, NoHost, Listening, None
<1>3. BlockInv BY DEF Init, BlockInv
<1> QED BY <1>1, <1>2, <1>3, TypeInit DEF LoaderInv

LEMMA LoaderNext == HostWaits = TRUE /\ LoaderInv /\ [Next]_vars => LoaderInv'
BY TypeStep, HostStep, BlockStep, LoaderStep DEF LoaderInv

(* With a host that waits for main() after a reset of the bus, the loader  *)
(* never erases or overwrites itself.                                      *)
THEOREM LoaderSafe == HostWaits = TRUE => (Spec => []LoaderIntact)
<1> SUFFICES ASSUME HostWaits = TRUE PROVE Spec => []LoaderIntact OBVIOUS
<1>1. LoaderInv /\ [Next]_vars => LoaderInv' BY LoaderNext
<1>2. LoaderInv => LoaderIntact BY DEF LoaderInv
<1> QED BY LoaderInit, <1>1, <1>2, PTL DEF Spec

-----------------------------------------------------------------------------
(* What main() found out about the application holds where it decides.     *)
LEMMA SameFlash == UNCHANGED flash => app_ok' = app_ok
BY DEF app_ok, Holds

LEMMA FileStart ==
  FileFails = FALSE /\ TypeOK /\ FileInv /\ Start => FileInv'
<1> SUFFICES ASSUME FileFails = FALSE, TypeOK, FileInv, Start PROVE FileInv'
  OBVIOUS
<1>0. app_ok \in BOOLEAN BY DEF app_ok
<1> USE <1>0, SameFlash DEF TypeOK, FlagsTyped, FieldsTyped, FileInv, InBlock,
        OnUsb, BootsOnlyWhole, blkVars
<1>1. CASE Check BY <1>1 DEF Check, reqVars
<1>2. CASE FileRead BY <1>2 DEF FileRead, Call
<1>3. CASE FileResult BY <1>3 DEF FileResult
<1>4. CASE FileShort BY <1>4 DEF FileShort, reqVars
<1>5. CASE FileEnd BY <1>5 DEF FileEnd, reqVars
<1>6. CASE Decide BY <1>6 DEF Decide, reqVars
<1> QED BY <1>1, <1>2, <1>3, <1>4, <1>5, <1>6 DEF Start

LEMMA FileBlock ==
  FileFails = FALSE /\ TypeOK /\ FileInv /\ DataBlock => FileInv'
<1> SUFFICES ASSUME FileFails = FALSE, TypeOK, FileInv, DataBlock PROVE FileInv'
  OBVIOUS
<1> USE SameFlash DEF TypeOK, FlagsTyped, FieldsTyped, FileInv, InBlock,
        OnUsb, BootsOnlyWhole, reqVars
<1>1. CASE BlockHeader
  <2>1. pc = "block" /\ ret = "file" /\ current_block = 0 =>
          data_buffer # NoBlock /\ data_buffer[2] = 0
    BY DEF Block, NoBlock
  <2> QED BY <1>1, <2>1 DEF BlockHeader
<1>2. CASE BlockNumber BY <1>2 DEF BlockNumber
<1>3. CASE BlockSector BY <1>3 DEF BlockSector, MayFail
<1>4. CASE BlockCopy BY <1>4 DEF BlockCopy
<1>5. CASE BlockWrite BY <1>5 DEF BlockWrite, MayFail
<1> QED BY <1>1, <1>2, <1>3, <1>4, <1>5 DEF DataBlock

LEMMA FileLoop == TypeOK /\ FileInv /\ Loop => FileInv'
<1> SUFFICES ASSUME TypeOK, FileInv, Loop PROVE FileInv' OBVIOUS
<1> USE SameFlash DEF TypeOK, FlagsTyped, FieldsTyped, FileInv, InBlock,
        OnUsb, BootsOnlyWhole, reqVars, blkVars, mainVars
<1>1. CASE Wait BY <1>1 DEF Wait
<1>2. CASE ResetDone BY <1>2 DEF ResetDone
<1>3. CASE Result BY <1>3 DEF Result
<1>4. CASE ErrorState BY <1>4 DEF ErrorState
<1>5. CASE ErrorStatus BY <1>5 DEF ErrorStatus
<1>6. CASE RequestDone BY <1>6 DEF RequestDone
<1> QED BY <1>1, <1>2, <1>3, <1>4, <1>5, <1>6 DEF Loop

LEMMA FileUsb == TypeOK /\ FileInv /\ Usb => FileInv'
<1> SUFFICES ASSUME TypeOK, FileInv, Usb PROVE FileInv' OBVIOUS
<1>1. Listening /\ UNCHANGED <<flash, blkVars, mainVars>>
  BY Zenon DEF Usb, Dnload, DnloadOdd, DnloadEnd, GetStatus, ClrStatus, Abort,
               GiveUp, BusReset
<1> QED BY <1>1 DEF TypeOK, FieldsTyped, FileInv, InBlock, BootsOnlyWhole,
                    Listening, blkVars, mainVars

LEMMA FilePower == PowerCut => FileInv'
BY DEF PowerCut, Ram, FileInv, BootsOnlyWhole, InBlock

LEMMA FileStep ==
  FileFails = FALSE /\ TypeOK /\ FileInv /\ [Next]_vars => FileInv'
<1>1. FileInv /\ UNCHANGED vars => FileInv'
  <2> SUFFICES ASSUME FileInv, UNCHANGED vars PROVE FileInv' OBVIOUS
  <2> QED BY SameFlash DEF vars, FileInv, BootsOnlyWhole, InBlock, reqVars, blkVars,
                           mainVars
<1> QED BY <1>1, FileStart, FileBlock, FileLoop, FileUsb, FilePower DEF Next, Main

(* If files are read to their end, an application is started only if all   *)
(* of it is in flash, whatever was cut off before.                         *)
THEOREM BootsWhole == FileFails = FALSE => (Spec => []BootsOnlyWhole)
<1> SUFFICES ASSUME FileFails = FALSE PROVE Spec => []BootsOnlyWhole OBVIOUS
<1>1. Init => FileInv
  BY DEF Init, FileInv, BootsOnlyWhole, InBlock
<1>2. TypeOK /\ FileInv /\ [Next]_vars => FileInv' BY FileStep
<1>3. FileInv => BootsOnlyWhole BY DEF FileInv
<1> QED BY TypeInit, TypeStep, <1>1, <1>2, <1>3, PTL DEF Spec

-----------------------------------------------------------------------------
(* The page under construction.                                            *)
LEMMA MulMono ==
  ASSUME NEW n \in Nat \ {0}, NEW x \in Int, NEW y \in Int, x < y
  PROVE  n * x + n <= n * y
OBVIOUS

LEMMA DivUnique ==
  ASSUME NEW n \in Nat \ {0}, NEW q \in Int, NEW r \in 0 .. n - 1
  PROVE  (n * q + r) \div n = q /\ (n * q + r) % n = r
<1> DEFINE a == n * q + r
           d == a \div n
<1>1. a \in Int OBVIOUS
<1>2. d \in Int /\ a % n \in 0 .. n - 1 /\ a = n * d + (a % n) BY <1>1, DivMod
<1>3. d < q => FALSE
  <2> SUFFICES ASSUME d < q PROVE FALSE OBVIOUS
  <2>1. n * d + n <= n * q BY <1>2, MulMono
  <2> QED BY <2>1, <1>2
<1>4. d > q => FALSE
  <2> SUFFICES ASSUME d > q PROVE FALSE OBVIOUS
  <2>1. n * q + n <= n * d BY <1>2, MulMono
  <2> QED BY <2>1, <1>2
<1>5. d = q BY <1>2, <1>3, <1>4
<1> QED BY <1>2, <1>5

LEMMA PageMono ==
  ASSUME NEW a \in Nat, NEW b \in Nat, a <= b
  PROVE  PageOf(a) <= PageOf(b)
<1>1. /\ a \div PAGE \in Int /\ a % PAGE \in 0 .. PAGE - 1
      /\ a = PAGE * (a \div PAGE) + (a % PAGE)
  BY BootAssumption, DivMod
<1>2. /\ b \div PAGE \in Int /\ b % PAGE \in 0 .. PAGE - 1
      /\ b = PAGE * (b \div PAGE) + (b % PAGE)
  BY BootAssumption, DivMod
<1>3. b \div PAGE < a \div PAGE => FALSE
  <2> SUFFICES ASSUME b \div PAGE < a \div PAGE PROVE FALSE OBVIOUS
  <2>1. PAGE * (b \div PAGE) + PAGE <= PAGE * (a \div PAGE)
    BY <1>1, <1>2, BootAssumption, MulMono
  <2>2. PAGE \in Nat \ {0} BY BootAssumption
  <2> DEFINE x == PAGE * (b \div PAGE)
             y == PAGE * (a \div PAGE)
  <2>3. x \in Int /\ y \in Int BY <1>1, <1>2, <2>2
  <2> HIDE DEF x, y
  <2> QED BY <2>1, <2>2, <2>3, <1>1, <1>2 DEF x, y
<1> QED BY <1>1, <1>2, <1>3 DEF PageOf

(* Two blocks of a page have places of their own in it.                    *)
LEMMA PlacesDiffer ==
  ASSUME NEW a \in Nat, NEW b \in Nat, PageOf(a) = PageOf(b), a # b
  PROVE  a % PAGE # b % PAGE
<1>1. a = PAGE * (a \div PAGE) + (a % PAGE) /\ a \div PAGE \in Int
      /\ a % PAGE \in 0 .. PAGE - 1
  BY SMTT(20), BootAssumption, DivMod
<1>2. b = PAGE * (b \div PAGE) + (b % PAGE) /\ b \div PAGE \in Int
      /\ b % PAGE \in 0 .. PAGE - 1
  BY SMTT(20), BootAssumption, DivMod
<1> QED BY <1>1, <1>2 DEF PageOf

(* Other requests end no block and change nothing of it.                   *)
LEMMA UsbKeeps ==
  ASSUME LoaderInv, Usb, ~Dnload, host'.k >= 0
  PROVE  /\ UNCHANGED <<current_block, data_buffer, data_req>>
         /\ host'.k = host.k /\ host'.img = host.img
         /\ Done' => Done
<1> USE DEF LoaderInv
<1>1. /\ UNCHANGED <<current_block, data_buffer, data_req>>
      /\ host'.k = host.k /\ host'.img = host.img
  BY DEF Usb, DnloadOdd, DnloadEnd, GetStatus, ClrStatus, Abort, GiveUp,
     BusReset, Ask, NoHost, reqVars, TypeOK, FieldsTyped
<1>2. UNCHANGED <<res, pc>>
  BY Zenon DEF Usb, DnloadOdd, DnloadEnd, GetStatus, ClrStatus, Abort, GiveUp,
     BusReset, blkVars, mainVars
<1>3. \/ state' = state \/ state' = "ERROR" \/ host.mode = "end"
      \/ state' = NewState /\ NewState # "DNBUSY"
  BY DEF Usb, DnloadOdd, DnloadEnd, GetStatus, ClrStatus, Abort, GiveUp,
     BusReset, dfuVars, NoHost
<1>4. NewState # "DNBUSY" =>
        NewState # "DNLOAD_SYNC" /\ (state = "ERROR" => NewState = "ERROR")
  BY DEF NewState
<1>5. host.mode = "end" => ~data_req /\ state # "ERROR" /\ pc = "wait"
  BY Zenon DEF HostInv, TypeOK, FlagsTyped
<1>6. Done' => Done BY <1>1, <1>2, <1>3, <1>4, <1>5 DEF Done
<1> QED BY <1>1, <1>6

LEMMA BufferUsb ==
  LoaderInv /\ BufferInv /\ Usb => BufferInv'
<1> SUFFICES ASSUME LoaderInv, BufferInv, Usb, host'.k >= 0 PROVE BufferInv'
  BY DEF BufferInv
<1> USE DEF LoaderInv
<1>1. /\ UNCHANGED <<write_buffer, block, res, pc, ret>>
      /\ Listening /\ host.k \in Nat \union {-1} /\ pc \notin {"app"}
  BY Zenon DEF Usb, Dnload, DnloadOdd, DnloadEnd, GetStatus, ClrStatus, Abort,
     GiveUp, BusReset, blkVars, mainVars, TypeOK, FieldsTyped, Listening
<1>2. CASE Dnload
  <2>1. /\ host'.k = host.k + 1 /\ current_block' = host.k + 1
        /\ data_buffer' = Block(host'.img, host'.k)
        /\ host.k # -1 => host'.img = host.img
        /\ host.mode = "ready" /\ data_req'
    BY <1>2 DEF Dnload
  <2>2. pc = "wait" /\ ~data_req /\ state # "ERROR"
    BY <2>1, Zenon DEF HostInv, TypeOK, FlagsTyped
  <2>3. ASSUME NEW k \in 1 .. host'.k - 1,
               PageOf(k - 1) = PageOf(host'.k - 1)
        PROVE  InBuffer(k)'
    <3>1. host.k >= 1 /\ host.k \in Nat /\ k <= host.k BY <1>1, <2>1
    <3>2. PageOf(k - 1) = PageOf(host.k - 1)
      <4>1. /\ k - 1 \in Nat /\ host.k - 1 \in Nat /\ host'.k - 1 \in Nat
            /\ k - 1 <= host.k - 1 /\ host.k - 1 <= host'.k - 1
        BY <3>1, <2>1
      <4> QED BY <4>1, <2>3, PageMono, PageOfNat
    <3>3. InBuffer(k)
      <4>1. CASE k = host.k BY <4>1, <3>1, <2>2 DEF BufferInv, Done
      <4>2. CASE k # host.k BY <4>2, <3>1, <3>2 DEF BufferInv
      <4> QED BY <4>1, <4>2
    <3>4. host'.img = host.img BY <3>1, <2>1
    <3> QED BY <3>3, <3>4, <1>1 DEF InBuffer
  <2>4. ~(pc = "write" \/ Done)' BY <2>1, <2>2, <1>1 DEF Done
  <2>5. ~(pc \in {"sector", "copy", "write"})' BY <2>2, <1>1
  <2> QED BY <2>1, <2>3, <2>4, <2>5 DEF BufferInv
<1>3. CASE ~Dnload
  <2>1. /\ UNCHANGED <<current_block, data_buffer, data_req>>
        /\ host'.k = host.k /\ host'.img = host.img
        /\ Done' => Done
    BY <1>3, UsbKeeps
  <2>3. host.k >= 0 BY <2>1
  <2>4. \A k : InBuffer(k) <=> InBuffer(k)' BY <1>1, <2>1 DEF InBuffer
  <2> QED BY <1>1, <2>1, <2>3, <2>4 DEF BufferInv
<1> QED BY <1>2, <1>3

LEMMA BufferBlock ==
  LoaderInv /\ BufferInv /\ DataBlock => BufferInv'
<1> SUFFICES ASSUME LoaderInv, BufferInv, DataBlock, host'.k >= 0
             PROVE  BufferInv'
  BY DEF BufferInv
<1> USE DEF LoaderInv
<1>1. UNCHANGED <<current_block, data_buffer, data_req, state, host>>
  BY Zenon DEF DataBlock, BlockHeader, BlockNumber, BlockSector, BlockCopy, BlockWrite,
     reqVars, dfuVars
<1>2. host.k \in Nat /\ current_block = host.k BY <1>1 DEF BufferInv, TypeOK, FieldsTyped
<1>3. CASE BlockCopy
  <2>1. /\ pc = "copy" /\ block' = block
        /\ write_buffer' = [write_buffer EXCEPT ![(block % PAGE) + 1] = data_buffer]
        /\ pc' \in {"write", "result"}
    BY <1>3 DEF BlockCopy
  <2>2. block = host.k - 1 /\ block >= 0 /\ data_buffer = Block(host.img, host.k)
    BY <1>2, <2>1 DEF BufferInv, BlockInv
  <2>3. block \in Nat /\ host.k >= 1 BY <1>2, <2>2
  <2>4. block % PAGE \in 0 .. PAGE - 1 BY <2>3, DivMod, BootAssumption
  <2>5. (block % PAGE) + 1 \in DOMAIN write_buffer
    BY <2>4, BootAssumption DEF TypeOK, FieldsTyped
  <2>6. InBuffer(host.k)' BY <2>1, <2>2, <2>5, <1>1 DEF InBuffer
  <2>7. ASSUME NEW k \in 1 .. host.k - 1, PageOf(k - 1) = PageOf(host.k - 1)
        PROVE  InBuffer(k)'
    <3>1. InBuffer(k) BY <1>2, <2>7 DEF BufferInv
    <3>2. k - 1 \in Nat /\ k - 1 # block BY <1>2, <2>2
    <3>3. (k - 1) % PAGE # block % PAGE BY <3>2, <2>2, <2>3, <2>7, PlacesDiffer
    <3>4. (k - 1) % PAGE \in 0 .. PAGE - 1 BY SMTT(20), <3>2, DivMod, BootAssumption
    <3>5. ((k - 1) % PAGE) + 1 # (block % PAGE) + 1 BY <3>3, <3>4, <2>4, BootAssumption
    <3> QED BY <3>1, <3>5, <2>1, <1>1 DEF InBuffer
  <2> QED BY <1>1, <1>2, <2>1, <2>2, <2>6, <2>7 DEF BufferInv
<1>4. CASE ~BlockCopy
  <2>1. write_buffer' = write_buffer
    BY <1>4, Zenon DEF DataBlock, BlockHeader, BlockNumber, BlockSector, BlockWrite,
       blkVars
  <2>2. \A k : InBuffer(k) <=> InBuffer(k)' BY <1>1, <2>1 DEF InBuffer
  <2>3. (pc \in {"sector", "copy", "write"} => block = host.k - 1)'
    BY <1>1, <1>2, <1>4 DEF BufferInv, DataBlock, BlockHeader, BlockNumber,
       BlockSector, BlockWrite
  <2>4. host.k >= 1 /\ (pc = "write" \/ Done)' => pc = "write" \/ Done
    BY <1>1, <1>2, <1>4 DEF DataBlock, BlockHeader, BlockNumber, BlockSector,
       BlockWrite, Done
  <2> QED BY <1>1, <1>2, <2>2, <2>3, <2>4 DEF BufferInv
<1> QED BY <1>3, <1>4

LEMMA BufferLoop ==
  LoaderInv /\ BufferInv /\ Loop => BufferInv'
<1> SUFFICES ASSUME LoaderInv, BufferInv, Loop, host'.k >= 0 PROVE BufferInv'
  BY DEF BufferInv
<1> USE DEF LoaderInv
<1>1. UNCHANGED <<current_block, data_buffer, write_buffer, block, host>>
  BY Zenon DEF Loop, Wait, ResetDone, Result, ErrorState, ErrorStatus, RequestDone,
     reqVars, blkVars
<1>2. host.k \in Nat BY <1>1 DEF TypeOK, FieldsTyped
<1>3. host.mode # "off" BY <1>2 DEF HostInv
<1>4. pc' \notin {"sector", "copy", "write"}
  BY DEF Loop, Wait, ResetDone, Result, ErrorState, ErrorStatus, RequestDone
<1>5. Done' => Done
  BY <1>3 DEF Loop, Wait, ResetDone, Result, ErrorState, ErrorStatus, RequestDone,
     Done, HostInv, blkVars, dfuVars, reqVars, mainVars, TypeOK, FlagsTyped
<1>6. \A k : InBuffer(k) <=> InBuffer(k)' BY <1>1 DEF InBuffer
<1> QED BY <1>1, <1>2, <1>4, <1>5, <1>6 DEF BufferInv

LEMMA BufferStep ==
  LoaderInv /\ BufferInv /\ [Next]_vars => BufferInv'
<1> SUFFICES ASSUME LoaderInv, BufferInv, [Next]_vars PROVE BufferInv' OBVIOUS
<1>1. CASE UNCHANGED vars
  BY <1>1 DEF vars, BufferInv, InBuffer, Done, reqVars, dfuVars, blkVars, mainVars
<1>2. CASE Start
  <2>1. host' = host /\ ret # "usb"
    BY <1>2 DEF Start, Check, FileRead, FileResult, FileShort, FileEnd, Decide,
       LoaderInv, TypeOK, FieldsTyped
  <2>2. host.k = -1 BY <2>1 DEF LoaderInv, HostInv, Listening
  <2> QED BY <2>1, <2>2 DEF BufferInv
<1>3. CASE PowerCut BY <1>3 DEF PowerCut, NoHost, BufferInv
<1> QED BY <1>1, <1>2, <1>3, BufferBlock, BufferLoop, BufferUsb DEF Next, Main

(* A host that waits for main() after a reset of the bus is told that a    *)
(* block is done only when that block is in the page under construction,   *)
(* with the blocks of that page before it.                                 *)
THEOREM Acknowledged == HostWaits = TRUE => (Spec => []AcknowledgedIsHandled)
<1> SUFFICES ASSUME HostWaits = TRUE PROVE Spec => []AcknowledgedIsHandled OBVIOUS
<1>1. Init => BufferInv BY DEF Init, BufferInv, NoHost
<1>2. LoaderInv /\ BufferInv /\ [Next]_vars => (LoaderInv /\ BufferInv)'
  BY LoaderNext, BufferStep
<1>3. LoaderInv /\ BufferInv => AcknowledgedIsHandled
  <2> SUFFICES ASSUME LoaderInv, BufferInv,
                      host.mode \in {"ready", "end", "last", "done"}, host.k >= 1,
                      NEW k \in 1 .. host.k, PageOf(k - 1) = PageOf(host.k - 1)
               PROVE  InBuffer(k)
    BY DEF AcknowledgedIsHandled, InBuffer
  <2>1. ~data_req /\ pc = "wait" /\ state # "ERROR"
    BY Zenon DEF LoaderInv, HostInv, TypeOK, FlagsTyped
  <2>2. host.k \in Nat BY DEF LoaderInv, TypeOK, FieldsTyped
  <2> QED BY <2>1, <2>2 DEF BufferInv, Done
<1> QED BY LoaderInit, <1>1, <1>2, <1>3, PTL DEF Spec

-----------------------------------------------------------------------------
(* What a download leaves in flash.                                        *)
LEMMA Lengths ==
  ASSUME NEW img \in Images
  PROVE  Pages[img] \in Nat \ {0} /\ Last(img) \in Nat \ {0}
<1>1. Pages[img] \in Nat \ {0} /\ PAGE \in Nat \ {0} BY BootAssumption
<1>2. ASSUME NEW a \in Nat \ {0}, NEW b \in Nat \ {0} PROVE a * b \in Nat \ {0}
  OBVIOUS
<1> QED BY <1>1, <1>2 DEF Last

LEMMA SizeStep ==
  HostInv /\ TypeOK /\ SizeInv /\ [Next]_vars => SizeInv'
<1> SUFFICES ASSUME HostInv, TypeOK, SizeInv, [Next]_vars PROVE SizeInv' OBVIOUS
<1>0. host \in [mode : Modes, img : Images \union {None}, k : Nat \union {-1}]
  BY DEF TypeOK, FieldsTyped
<1>1. CASE UNCHANGED host BY <1>1 DEF SizeInv
<1>2. CASE Dnload
  <2>1. PICK img \in Images :
          /\ host.k = -1 \/ img = host.img
          /\ host' = [mode |-> "poll", img |-> img, k |-> host.k + 1]
    BY <1>2 DEF Dnload
  <2>2. host.mode = "ready" BY <1>2 DEF Dnload
  <2>3. Last(img) \in Nat \ {0} BY Lengths
  <2> QED BY <1>0, <2>1, <2>2, <2>3 DEF SizeInv
<1>3. CASE GetStatus
  <2>1. /\ host' = [host EXCEPT !.mode = Goes]
        /\ host.mode \in {"off", "poll", "last"}
    BY <1>3 DEF GetStatus, Ask
  <2>2. host'.mode = Goes /\ host'.k = host.k /\ host'.img = host.img
    BY <1>0, <2>1
  <2>3. /\ Goes = "ready" => ~(host.k >= 0 /\ host.k = Last(host.img))
        /\ Goes = "end" => host.k >= 0 /\ host.k = Last(host.img)
        /\ Goes = "done" => host.mode = "last"
        /\ Goes # "last"
    BY DEF Goes
  <2>4. host.k >= 0 => Last(host.img) \in Nat BY Lengths DEF SizeInv
  <2> QED BY <1>0, <2>2, <2>3, <2>4 DEF SizeInv
<1>4. CASE DnloadOdd \/ DnloadEnd \/ ClrStatus
  <2>1. /\ host' = [host EXCEPT !.mode = host'.mode]
        /\ \/ host'.mode \in {"poll", "abort"}
           \/ host.mode = "end" /\ host'.mode = "last"
    BY <1>0, <1>4 DEF DnloadOdd, DnloadEnd, ClrStatus, Ask
  <2> QED BY <1>0, <2>1 DEF SizeInv
<1>5. CASE host' = NoHost BY <1>5 DEF SizeInv, NoHost
<1>6. \/ UNCHANGED host \/ Dnload \/ GetStatus
      \/ DnloadOdd \/ DnloadEnd \/ ClrStatus \/ host' = NoHost
  BY Zenon DEF Next, Main, Start, Check, FileRead, FileResult, FileShort, FileEnd,
     Decide, DataBlock, BlockHeader, BlockNumber, BlockSector, BlockCopy, BlockWrite,
     Loop, Wait, ResetDone, Result, ErrorState, ErrorStatus, RequestDone, Usb, Abort,
     GiveUp, BusReset, PowerCut, vars
<1> QED BY <1>1, <1>2, <1>3, <1>4, <1>5, <1>6

LEMMA SectorMono ==
  ASSUME NEW p \in Nat, NEW q \in Nat, p <= q
  PROVE  /\ SectorOf(p) \in Nat /\ SectorOf(q) \in Nat
         /\ SectorOf(p) <= SectorOf(q)
<1>1. /\ SECTOR \in Nat \ {0}
      /\ p \div SECTOR \in Nat /\ q \div SECTOR \in Nat
  BY BootAssumption, DivMod
<1>2. p \div SECTOR <= q \div SECTOR
  <2>1. ASSUME q \div SECTOR < p \div SECTOR PROVE FALSE
    <3> DEFINE x == SECTOR * (q \div SECTOR)
               y == SECTOR * (p \div SECTOR)
    <3>1. x + SECTOR <= y BY <1>1, <2>1, MulMono
    <3>2. /\ p % SECTOR \in 0 .. SECTOR - 1 /\ p = y + (p % SECTOR)
          /\ q % SECTOR \in 0 .. SECTOR - 1 /\ q = x + (q % SECTOR)
      BY <1>1, DivMod
    <3>3. x \in Int /\ y \in Int BY <1>1
    <3> HIDE DEF x, y
    <3> QED BY <1>1, <3>1, <3>2, <3>3
  <2> QED BY <1>1, <2>1
<1>3. ASSUME NEW a \in Nat, NEW b \in Nat, NEW n \in Nat \ {0}, a <= b
      PROVE  a * n \in Nat /\ b * n \in Nat /\ a * n <= b * n
  <2>1. a < b => n * a + n <= n * b BY <1>3, MulMono
  <2>2. a * n \in Nat /\ b * n \in Nat /\ a * n = n * a /\ b * n = n * b OBVIOUS
  <2> QED BY <1>3, <2>1, <2>2
<1> QED BY <1>1, <1>2, <1>3 DEF SectorOf

(* The next block lies in the same page, or begins the next one.           *)
LEMMA NextPage ==
  ASSUME NEW b \in Nat
  PROVE  PageOf(b + 1) = IF b % PAGE = PAGE - 1 THEN PageOf(b) + 1 ELSE PageOf(b)
<1> DEFINE n == PAGE
           p == b \div PAGE
           q == (b + 1) \div PAGE
<1>1. /\ n \in Nat \ {0} /\ p \in Int /\ q \in Int
      /\ b % PAGE \in 0 .. n - 1 /\ b = n * p + (b % PAGE)
      /\ (b + 1) % PAGE \in 0 .. n - 1 /\ b + 1 = n * q + ((b + 1) % PAGE)
  BY BootAssumption, DivMod
<1>2. ASSUME q < p PROVE FALSE
  <2>1. n * q + n <= n * p BY <1>1, <1>2, MulMono
  <2>2. n * q \in Int /\ n * p \in Int BY <1>1
  <2> QED BY <1>1, <2>1, <2>2
<1>3. ASSUME q > p + 1 PROVE FALSE
  <2>1. n * (p + 1) + n <= n * q BY <1>1, <1>3, MulMono
  <2>2. n * (p + 1) = n * p + n /\ n * q \in Int /\ n * p \in Int BY <1>1
  <2> QED BY <1>1, <2>1, <2>2
<1>4. q \in {p, p + 1} BY <1>1, <1>2, <1>3
<1>5. q = p => b % PAGE # PAGE - 1
  <2> SUFFICES ASSUME q = p, b % PAGE = n - 1 PROVE FALSE OBVIOUS
  <2>1. n * q = n * p /\ n * p \in Int BY <1>1
  <2> QED BY <1>1, <2>1
<1>6. q = p + 1 => b % PAGE = PAGE - 1
  <2> SUFFICES ASSUME q = p + 1 PROVE b % PAGE = n - 1 OBVIOUS
  <2>1. n * q = n * p + n /\ n * p \in Int BY <1>1
  <2> QED BY <1>1, <2>1
<1> QED BY <1>4, <1>5, <1>6 DEF PageOf

LEMMA Sizes ==
  ASSUME NEW h \in Nat, TypeOK, SizeInv, host.k >= 0, h <= host.k
  PROVE  /\ PageOf(h) \in Nat
         /\ h < host.k => PageOf(h) \in AppPages
<1>1. host.img \in Images /\ host.k <= Last(host.img) BY DEF SizeInv
<1>2. h \div PAGE \in Nat /\ h % PAGE \in 0 .. PAGE - 1
      /\ h = PAGE * (h \div PAGE) + (h % PAGE)
  <2>1. PAGE \in Nat \ {0} /\ h \in Int /\ h >= 0 BY BootAssumption
  <2>2. /\ h \div PAGE \in Int /\ h % PAGE \in 0 .. PAGE - 1
        /\ h = PAGE * (h \div PAGE) + (h % PAGE)
        /\ h >= 0 => h \div PAGE >= 0
    BY <2>1, DivMod
  <2> QED BY <2>1, <2>2
<1>3. ASSUME h < host.k PROVE h \div PAGE < Pages[host.img]
  <2> DEFINE n == Pages[host.img]
             d == h \div PAGE
  <2>1. n \in Nat /\ PAGE \in Nat \ {0} /\ host.k \in Nat \union {-1}
    BY <1>1, Lengths, BootAssumption DEF TypeOK, FieldsTyped
  <2>2. h < PAGE * n
    <3>1. n * PAGE = PAGE * n /\ n * PAGE \in Nat BY <2>1
    <3> QED BY <1>1, <1>3, <2>1, <3>1 DEF Last
  <2>3. ASSUME n <= d PROVE FALSE
    <3>1. n < d => PAGE * n + PAGE <= PAGE * d BY <1>2, <2>1, MulMono
    <3>2. PAGE * n \in Nat /\ PAGE * d \in Nat BY <1>2, <2>1
    <3>3. PAGE * n <= PAGE * d BY <2>1, <2>3, <1>2, <3>1, <3>2
    <3> QED BY <1>2, <2>1, <2>2, <3>2, <3>3
  <2> QED BY <1>2, <2>1, <2>3
<1>4. h < host.k => PageOf(h) \in 0 .. Pages[host.img] - 1
  BY <1>1, <1>2, <1>3, Lengths DEF PageOf
<1>5. h < host.k => PageOf(h) \in AppPages BY <1>1, <1>4 DEF AppPages
<1> QED BY <1>5, PageOfNat

(* A block is being handled, or was handled, never both.                   *)
LEMMA DoneOrDoing == TypeOK => ~(Done /\ Doing)
BY Zenon DEF TypeOK, FlagsTyped, FieldsTyped, Done, Doing, InBlock

LEMMA FlashUsb ==
  LoaderInv /\ SizeInv /\ FlashInv /\ Usb => FlashInv'
<1> SUFFICES ASSUME LoaderInv, SizeInv, FlashInv, Usb,
                    fresh', host'.k >= 0, (Done \/ Doing)'
             PROVE  FlashAt(Handled)'
  BY Zenon DEF FlashInv
<1> USE DEF LoaderInv
<1>1. UNCHANGED <<flash, sector, res, pc>>
  BY Zenon DEF Usb, Dnload, DnloadOdd, DnloadEnd, GetStatus, ClrStatus, Abort,
     GiveUp, BusReset, blkVars, mainVars
<1>2. host.k \in Nat \union {-1} /\ (Opened <=> Opened')
  BY <1>1 DEF TypeOK, FieldsTyped, Opened
<1>3. CASE Dnload
  <2>1. /\ host'.k = host.k + 1 /\ data_req' /\ host.mode = "ready"
        /\ host.k # -1 => host'.img = host.img
    BY <1>3 DEF Dnload
  <2>2. pc = "wait" /\ ~data_req /\ state # "ERROR"
    BY <2>1, Zenon DEF HostInv, TypeOK, FlagsTyped
  <2>3. ~Done' /\ Done /\ ~Opened' /\ ~Opened
    BY <1>1, <2>1, <2>2 DEF Done, Opened
  <2>4. CASE host.k = -1
    <3>0. sector # SectorOf(0)
      <4>1. fresh' = (sector # SectorOf(0)) BY <1>3, <2>4 DEF Dnload
      <4> QED BY <4>1, Zenon
    <3>1. Handled' = 0 BY <2>1, <2>4 DEF Handled
    <3>2. PageOf(0) = 0
      <4>1. 0 \div PAGE = 0 BY BootAssumption
      <4> QED BY <4>1 DEF PageOf
    <3>3. \A p \in AppPages : p \in Nat
      <4>1. \A i \in Images : Pages[i] \in Nat BY Lengths
      <4> QED BY <4>1 DEF AppPages
    <3> QED BY <3>0, <3>1, <3>2, <3>3, <2>3, <1>1 DEF FlashAt
  <2>5. CASE host.k # -1
    <3>1. host.k \in Nat /\ host'.img = host.img BY <1>2, <2>1, <2>5
    <3>4. fresh
      <4>1. fresh' = fresh BY <1>3, <2>5 DEF Dnload
      <4> QED BY <4>1, Zenon
    <3>2. Handled = host.k /\ Handled' = host.k
      BY <3>1, <2>1, <2>3 DEF Handled
    <3>3. FlashAt(Handled) BY <3>1, <3>4, <2>3 DEF FlashInv
    <3> QED BY <3>1, <3>2, <3>3, <1>1, <1>2 DEF FlashAt
  <2> QED BY <2>4, <2>5
<1>4. CASE ~Dnload
  <2>1. /\ UNCHANGED data_req /\ host'.k = host.k /\ host'.img = host.img
        /\ Done' => Done
    BY <1>4, UsbKeeps
  <2>2. fresh' = fresh
    BY <1>4, Zenon DEF Usb, DnloadOdd, DnloadEnd, GetStatus, ClrStatus, Abort,
       GiveUp, BusReset
  <2>3. Doing' => Doing BY <1>1, <2>1 DEF Doing
  <2>4. Handled' = Handled
    <3>1. Done <=> Done' BY <2>1, <2>3, DoneOrDoing
    <3> QED BY <3>1, <2>1 DEF Handled
  <2>5. FlashAt(Handled)
    <3>1. fresh BY <2>2, Zenon
    <3> QED BY <3>1, <2>1, <2>3 DEF FlashInv
  <2> QED BY <2>1, <2>4, <2>5, <1>1, <1>2 DEF FlashAt
<1> QED BY <1>3, <1>4

LEMMA FlashLoop ==
  LoaderInv /\ FlashInv /\ Loop => FlashInv'
<1> SUFFICES ASSUME LoaderInv, FlashInv, Loop,
                    fresh', host'.k >= 0, (Done \/ Doing)'
             PROVE  FlashAt(Handled)'
  BY Zenon DEF FlashInv
<1> USE DEF LoaderInv
<1>1. UNCHANGED <<flash, sector, res, host, fresh>>
  BY Zenon DEF Loop, Wait, ResetDone, Result, ErrorState, ErrorStatus, RequestDone,
     blkVars
<1>2. fresh /\ host.k >= 0 BY <1>1, Zenon
<1>8. host.mode # "off" BY <1>2 DEF HostInv
<1>3. ~Opened /\ ~Opened'
  BY DEF Loop, Wait, ResetDone, Result, ErrorState, ErrorStatus, RequestDone, Opened
<1>4. Done' => Done
  BY <1>2 DEF Loop, Wait, ResetDone, Result, ErrorState, ErrorStatus, RequestDone,
     Done, HostInv, blkVars, dfuVars, reqVars, mainVars, TypeOK, FlagsTyped
<1>5. Doing' => Doing
  BY <1>2 DEF Loop, Wait, ResetDone, Result, ErrorState, ErrorStatus, RequestDone,
     Doing, InBlock, HostInv, reqVars, TypeOK, FlagsTyped
<1>6. Handled' = Handled
  <2>1. Done <=> Done' BY <1>4, <1>5, DoneOrDoing
  <2> QED BY <2>1, <1>1 DEF Handled
<1>7. FlashAt(Handled) BY <1>2, <1>4, <1>5 DEF FlashInv
<1> QED BY <1>1, <1>3, <1>6, <1>7 DEF FlashAt

(* A block is handled: its sector is opened and erased, its page written   *)
(* when it is full.                                                        *)
LEMMA FlashBlock ==
  LoaderInv /\ BufferInv /\ SizeInv /\ FlashInv /\ DataBlock => FlashInv'
<1> SUFFICES ASSUME LoaderInv, BufferInv, SizeInv, FlashInv, DataBlock,
                    fresh', host'.k >= 0, (Done \/ Doing)'
             PROVE  FlashAt(Handled)'
  BY Zenon DEF FlashInv
<1> USE DEF LoaderInv
<1>1. UNCHANGED <<current_block, data_buffer, data_req, state, host, fresh>>
  BY Zenon DEF DataBlock, BlockHeader, BlockNumber, BlockSector, BlockCopy, BlockWrite,
     reqVars, dfuVars
<1>2. fresh BY <1>1, Zenon
<1>3. host.k \in Nat /\ current_block = host.k
  BY <1>1 DEF BufferInv, TypeOK, FieldsTyped
<1>4. pc \in {"block", "number", "sector", "copy", "write"}
  BY DEF DataBlock, BlockHeader, BlockNumber, BlockSector, BlockCopy, BlockWrite
<1>5. Doing /\ ~Done BY <1>4 DEF Doing, Done, InBlock
<1>6. FlashAt(Handled) BY <1>2, <1>3, <1>5 DEF FlashInv
<1>7. Handled = IF host.k = 0 THEN 0 ELSE host.k - 1 BY <1>3, <1>5 DEF Handled
<1>8. Done' => pc' = "result" /\ res' = "OK"
  BY DEF Done, DataBlock, BlockHeader, BlockNumber, BlockSector, BlockCopy, BlockWrite
<1>9. Doing' => pc' \in {"number", "sector", "copy", "write"}
  BY DEF Doing, InBlock, DataBlock, BlockHeader, BlockNumber, BlockSector, BlockCopy,
     BlockWrite
<1>10. Handled' = IF Done' \/ host.k = 0 THEN host.k ELSE host.k - 1
  BY <1>1 DEF Handled
<1>11. AppPages \subseteq Nat /\ AppPages \subseteq DOMAIN flash
  <2>1. \A i \in Images : Pages[i] \in Nat BY Lengths
  <2> QED BY <2>1 DEF AppPages, TypeOK, FieldsTyped
<1>12. pc \in {"sector", "copy", "write"} =>
         /\ block \in Nat /\ host.k = block + 1 /\ Handled = block
         /\ PageOf(block) \in Nat /\ PageOf(block) \in AppPages
  <2> SUFFICES ASSUME pc \in {"sector", "copy", "write"}
               PROVE  /\ block \in Nat /\ host.k = block + 1 /\ Handled = block
                      /\ PageOf(block) \in Nat /\ PageOf(block) \in AppPages
    OBVIOUS
  <2>1. block >= 0 /\ block = host.k - 1 BY <1>3 DEF BlockInv, BufferInv
  <2>2. block \in Nat /\ host.k = block + 1 /\ Handled = block BY <1>3, <1>7, <2>1
  <2> QED BY <2>2, <1>3, Sizes
<1>13. CASE BlockHeader \/ BlockNumber
  <2>1. UNCHANGED <<flash, sector>> /\ ~Opened /\ ~Opened'
    BY <1>13 DEF BlockHeader, BlockNumber, Opened
  <2>2. Done' => host.k = 0
    BY <1>3, <1>8, <1>13 DEF BlockHeader, BlockNumber
  <2>3. Handled' = Handled BY <1>3, <1>7, <1>10, <2>2
  <2> QED BY <1>1, <1>6, <2>1, <2>3 DEF FlashAt
<1>14. CASE BlockSector
  <2> DEFINE q == PageOf(block)
  <2>1. /\ block \in Nat /\ host.k = block + 1 /\ Handled = block
        /\ q \in Nat /\ ~Opened /\ block' = block
    BY <1>12, <1>14 DEF BlockSector, Opened
  <2>2. ~Done' /\ Opened'
    <3>1. pc' = "copy" \/ (pc' = "result" /\ res' = "errERASE")
      BY <1>14 DEF BlockSector
    <3> QED BY <3>1, <1>8, <1>9 DEF Opened
  <2>3. Handled' = block BY <2>1, <2>2, <1>10
  <2>4. sector' = SectorOf(q)
    BY <1>14 DEF BlockSector, Open
  <2>5. CASE sector = SectorOf(q)
    <3>1. flash' = flash BY <2>5, <1>14 DEF BlockSector
    <3>2. block >= 1
      <4>1. block = 0 => q = 0
        <5>1. 0 \div PAGE = 0 BY BootAssumption
        <5> QED BY <5>1 DEF PageOf
      <4> QED BY <4>1, <2>1, <2>5, <1>6 DEF FlashAt
    <3> QED BY <3>1, <3>2, <2>1, <2>2, <2>3, <2>4, <2>5, <1>1, <1>6 DEF FlashAt
  <2>6. CASE sector # SectorOf(q)
    <3>1. flash' = [p \in DOMAIN flash |->
                      IF SectorOf(p) = SectorOf(q) THEN Blank ELSE flash[p]]
      <4>1. pc' # "result" BY <2>2 DEF Opened
      <4> QED BY <4>1, <2>6, <1>14 DEF BlockSector
    <3>2. ASSUME NEW p \in AppPages, p < q PROVE flash'[p] = Page(host.img, p)
      <4>1. flash[p] = Page(host.img, p) BY <3>2, <2>1, <1>6 DEF FlashAt
      <4>2. p \in Nat BY <1>11
      <4>3. block >= 1
        <5>1. block = 0 => q = 0
          <6>1. 0 \div PAGE = 0 BY BootAssumption
          <6> QED BY <6>1 DEF PageOf
        <5> QED BY <5>1, <4>2, <3>2, <2>1
      <4>4. sector = SectorOf(PageOf(block - 1)) BY <4>3, <2>1, <1>6 DEF FlashAt
      <4>5. /\ PageOf(block - 1) \in Nat
            /\ PageOf(block - 1) \in {q, q - 1}
        <5>1. block - 1 \in Nat /\ (block - 1) + 1 = block BY <4>3, <2>1
        <5> QED BY <5>1, <2>1, NextPage, PageOfNat
      <4>6. PageOf(block - 1) <= q /\ p <= PageOf(block - 1)
        BY <4>2, <4>4, <4>5, <3>2, <2>1, <2>6
      <4>7. /\ SectorOf(p) <= SectorOf(PageOf(block - 1))
            /\ SectorOf(PageOf(block - 1)) <= SectorOf(q)
            /\ SectorOf(p) \in Nat /\ SectorOf(q) \in Nat
            /\ SectorOf(PageOf(block - 1)) \in Nat
        BY <4>2, <4>5, <4>6, <2>1, SectorMono
      <4>8. SectorOf(p) # SectorOf(q) BY <4>4, <4>7, <2>6
      <4> QED BY <4>1, <4>8, <3>1, <1>11
    <3>3. ASSUME NEW p \in AppPages, SectorOf(p) = SectorOf(q)
          PROVE  flash'[p] = Blank
      BY <3>1, <3>3, <1>11
    <3> QED BY <3>2, <3>3, <2>1, <2>2, <2>3, <2>4, <1>1 DEF FlashAt
  <2> QED BY <2>5, <2>6
<1>15. CASE BlockCopy
  <2>1. /\ UNCHANGED <<flash, sector>> /\ Opened
        /\ block \in Nat /\ host.k = block + 1 /\ Handled = block
    BY <1>12, <1>15 DEF BlockCopy, Opened
  <2>2. CASE pc' = "write"
    <3>1. ~Done' /\ Opened' BY <1>8, <2>2 DEF Opened
    <3>2. Handled' = block BY <2>1, <3>1, <1>10
    <3> QED BY <2>1, <3>1, <3>2, <1>1, <1>6 DEF FlashAt
  <2>3. CASE pc' # "write"
    <3>1. pc' = "result" /\ res' = "OK" /\ block % PAGE # PAGE - 1
      BY <1>15, <2>3 DEF BlockCopy
    <3>2. Done' /\ ~Opened' BY <3>1 DEF Done, Opened
    <3>3. Handled' = block + 1 BY <2>1, <3>2, <1>10
    <3>4. PageOf(block + 1) = PageOf(block) BY <2>1, <3>1, NextPage
    <3>5. sector = SectorOf(PageOf(block)) BY <2>1, <1>6 DEF FlashAt
    <3>6. /\ \A p \in AppPages : p < PageOf(block) => flash[p] = Page(host.img, p)
          /\ \A p \in AppPages :
               p >= PageOf(block) /\ SectorOf(p) = sector => flash[p] = Blank
      BY <2>1, <1>6 DEF FlashAt
    <3>7. (block + 1) - 1 = block /\ block + 1 # 0 BY <2>1
    <3> QED BY <2>1, <3>2, <3>3, <3>4, <3>5, <3>6, <3>7, <1>1 DEF FlashAt
  <2> QED BY <2>2, <2>3
<1>16. CASE BlockWrite
  <2> DEFINE q == PageOf(block)
  <2>1. /\ pc = "write" /\ pc' = "result" /\ Opened /\ ~Opened' /\ sector' = sector
    BY <1>16 DEF BlockWrite, Opened
  <2>2. /\ block \in Nat /\ host.k = block + 1 /\ Handled = block
        /\ q \in Nat /\ q \in AppPages
    BY <1>12, <2>1
  <2>3. Done' BY <2>1, <1>9
  <2>4. Handled' = block + 1 BY <2>2, <2>3, <1>10
  <2>5. PageOf(block + 1) = q + 1 BY <2>1, <2>2, NextPage DEF BlockInv
  <2>6. sector = SectorOf(q) BY <2>1, <2>2, <1>6 DEF FlashAt
  <2>7. flash[q] = Blank BY <2>1, <2>2, <2>6, <1>6 DEF FlashAt
  <2>8. flash' = [flash EXCEPT ![q] = write_buffer]
    <3>1. res' = "OK" BY <2>3, <2>1, <1>8
    <3>2. flash' = [flash EXCEPT ![q] = Written(flash[q], write_buffer)]
      BY <3>1, <1>16 DEF BlockWrite
    <3>3. Written(flash[q], write_buffer) = write_buffer BY <2>7 DEF Written
    <3> QED BY <3>2, <3>3
  <2>9. write_buffer = Page(host.img, q)
    <3>1. write_buffer = [j \in 1 .. PAGE |-> write_buffer[j]]
      BY DEF TypeOK, FieldsTyped
    <3>2. ASSUME NEW j \in 1 .. PAGE
          PROVE  write_buffer[j] = Block(host.img, q * PAGE + j)
      <4> DEFINE k == q * PAGE + j
      <4>1. /\ PAGE \in Nat \ {0} /\ q * PAGE \in Nat /\ q * PAGE = PAGE * q
        BY BootAssumption, <2>2
      <4>2. block = PAGE * q + (PAGE - 1)
        <5>1. block = PAGE * (block \div PAGE) + (block % PAGE)
          BY BootAssumption, <2>2, DivMod
        <5> QED BY <5>1, <2>1 DEF BlockInv, PageOf
      <4>3. k \in 1 .. host.k BY <4>1, <4>2, <2>2
      <4>4. (k - 1) % PAGE = j - 1 /\ PageOf(k - 1) = q
        <5>1. k - 1 = PAGE * q + (j - 1) /\ j - 1 \in 0 .. PAGE - 1 BY <4>1
        <5>2. PAGE \in Nat \ {0} /\ q \in Int BY <4>1, <2>2
        <5> HIDE DEF q, k
        <5>3. /\ (PAGE * q + (j - 1)) \div PAGE = q
              /\ (PAGE * q + (j - 1)) % PAGE = j - 1
          BY <5>1, <5>2, DivUnique, Zenon
        <5> QED BY <5>1, <5>3, Zenon DEF PageOf
      <4>5. InBuffer(k)
        <5>1. PageOf(host.k - 1) = q BY <2>2
        <5>2. CASE k = host.k BY <5>2, <2>1, <2>2, <4>3 DEF BufferInv
        <5>3. CASE k # host.k
          <6>1. k \in 1 .. host.k - 1 BY <5>3, <4>3, <2>2
          <6> QED BY <6>1, <5>1, <4>4, <1>3 DEF BufferInv
        <5> QED BY <5>2, <5>3
      <4>6. ((k - 1) % PAGE) + 1 = j BY <4>4
      <4> QED BY <4>5, <4>6 DEF InBuffer
    <3> QED BY <3>1, <3>2 DEF Page
  <2>10. ASSUME NEW p \in AppPages, p < q + 1 PROVE flash'[p] = Page(host.img, p)
    <3>1. CASE p = q BY <3>1, <2>2, <2>8, <2>9, <1>11
    <3>2. CASE p # q
      <4>1. p < q BY <3>2, <2>2, <2>10, <1>11
      <4>2. flash[p] = Page(host.img, p) BY <4>1, <2>2, <1>6 DEF FlashAt
      <4> QED BY <4>2, <3>2, <2>8, <1>11
    <3> QED BY <3>1, <3>2
  <2>11. ASSUME NEW p \in AppPages, p >= q + 1, SectorOf(p) = sector
         PROVE  flash'[p] = Blank
    <3>1. p \in Nat /\ p >= q /\ p # q BY <1>11, <2>2, <2>11
    <3>2. flash[p] = Blank BY <3>1, <2>1, <2>2, <2>11, <1>6 DEF FlashAt
    <3> QED BY <3>1, <3>2, <2>8, <1>11
  <2>12. block + 1 # 0 /\ (block + 1) - 1 = block BY <2>2
  <2> QED BY <2>1, <2>4, <2>5, <2>6, <2>10, <2>11, <2>12, <1>1 DEF FlashAt
<1> QED BY <1>13, <1>14, <1>15, <1>16 DEF DataBlock

LEMMA FlashStep ==
  LoaderInv /\ BufferInv /\ SizeInv /\ FlashInv /\ [Next]_vars => FlashInv'
<1> SUFFICES ASSUME LoaderInv, BufferInv, SizeInv, FlashInv, [Next]_vars
             PROVE  FlashInv'
  OBVIOUS
<1>1. CASE UNCHANGED vars
  <2>1. UNCHANGED <<flash, reqVars, rstVars, dfuVars, blkVars, mainVars, host, fresh>>
    BY <1>1 DEF vars
  <2> QED BY <2>1, Zenon DEF FlashInv, FlashAt, Handled, Done, Doing, Opened, InBlock,
                      reqVars, dfuVars, blkVars, mainVars
<1>2. CASE Start
  <2>1. host' = host /\ ret # "usb"
    BY <1>2 DEF Start, Check, FileRead, FileResult, FileShort, FileEnd, Decide,
       LoaderInv, TypeOK, FieldsTyped
  <2>2. host.k = -1 BY <2>1 DEF LoaderInv, HostInv, Listening
  <2> QED BY <2>1, <2>2 DEF FlashInv
<1>3. CASE PowerCut BY <1>3 DEF PowerCut, NoHost, FlashInv
<1> QED BY <1>1, <1>2, <1>3, FlashBlock, FlashLoop, FlashUsb DEF Next, Main

(* With such a host, a download that began in a closed sector and was      *)
(* acknowledged to its end is in flash as a whole.                         *)
THEOREM CompleteWhole == HostWaits = TRUE => (Spec => []CompleteDownloadIsWhole)
<1> SUFFICES ASSUME HostWaits = TRUE PROVE Spec => []CompleteDownloadIsWhole OBVIOUS
<1> DEFINE Inv == LoaderInv /\ BufferInv /\ SizeInv /\ FlashInv
<1>1. Init => Inv
  <2>1. Init => BufferInv /\ SizeInv /\ FlashInv
    BY DEF Init, BufferInv, SizeInv, FlashInv, NoHost
  <2> QED BY <2>1, LoaderInit
<1>2. Inv /\ [Next]_vars => Inv'
  BY LoaderNext, BufferStep, SizeStep, FlashStep DEF LoaderInv
<1>3. Inv => CompleteDownloadIsWhole
  <2> SUFFICES ASSUME Inv, host.mode \in {"end", "last", "done"}, fresh,
                      NEW p \in 0 .. Pages[host.img] - 1
               PROVE  flash[p] = Page(host.img, p)
    BY DEF CompleteDownloadIsWhole, Holds
  <2>1. ~data_req /\ pc = "wait" /\ state # "ERROR"
    BY Zenon DEF LoaderInv, HostInv, TypeOK, FlagsTyped
  <2>2. host.k = Last(host.img) /\ host.k >= 0 /\ host.img \in Images
    BY DEF SizeInv
  <2>3. Done /\ Handled = host.k BY <2>1 DEF Done, Handled
  <2>4. FlashAt(Last(host.img)) BY <2>2, <2>3 DEF FlashInv
  <2>5. PageOf(Last(host.img)) = Pages[host.img]
    <3>1. Pages[host.img] \in Nat \ {0} /\ PAGE \in Nat \ {0}
      BY <2>2, BootAssumption
    <3>2. (PAGE * Pages[host.img] + 0) \div PAGE = Pages[host.img]
      <4>1. Pages[host.img] \in Int /\ 0 \in 0 .. PAGE - 1 BY <3>1
      <4> QED BY <3>1, <4>1, DivUnique, Zenon
    <3>3. Pages[host.img] * PAGE = PAGE * Pages[host.img] + 0 BY <3>1
    <3> QED BY <3>2, <3>3 DEF PageOf, Last
  <2>6. p \in AppPages /\ p < Pages[host.img] BY <2>2, Lengths DEF AppPages
  <2> QED BY <2>4, <2>5, <2>6 DEF FlashAt
<1> QED BY <1>1, <1>2, <1>3, PTL DEF Spec
=============================================================================
