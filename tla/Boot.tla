-------------------------------- MODULE Boot --------------------------------
(***************************************************************************)
(* The boot loader, boot/main.c with boot/usboot_iap.c: it checks the      *)
(* application in flash, may update it from a file, and otherwise takes a  *)
(* new one over USB (DFU).  Requests are handled by the USB interrupt,     *)
(* blocks by main(); they share data_req, current_block, data_buffer and   *)
(* the state without a lock.  Flash outlives a power cut, RAM does not.    *)
(*                                                                         *)
(* Flash is a function from pages (what one iapWrite writes, PAGE blocks)  *)
(* to their contents, a tuple of blocks.  A block of an image is the image *)
(* and the block's number; block 0 is a header that is not written.  Page  *)
(* -1 stands for the loader itself.                                        *)
(*                                                                         *)
(* The host asks for the status after every request and goes on when the   *)
(* device is not busy, as the DFU class wants it; it may give up, reset    *)
(* the bus and start again at any time.                                    *)
(***************************************************************************)
EXTENDS Integers, FiniteSets

CONSTANTS
  Images,      (* Applications a host or a file may bring.                   *)
  Pages,       (* Their length, in pages.                                    *)
  PAGE,        (* Blocks of a page, 4.                                       *)
  SECTOR,      (* Pages of a sector.                                         *)
  FlashFails,  (* Whether an erasure or a write may fail.                    *)
  FileFails,   (* Whether an update from a file may end before its end.      *)
  HostWaits    (* Whether the host waits for main() after a bus reset.       *)

ASSUME BootAssumption ==
  /\ Pages \in [Images -> Nat \ {0}]
  /\ PAGE \in Nat \ {0} /\ SECTOR \in Nat \ {0}
  /\ {FlashFails, FileFails, HostWaits} \subseteq BOOLEAN

VARIABLES
  flash,                 \* contents of each page
  app_is_ok, force, file,    \* main()'s; the file on the card
  state, last_status,    \* the DFU state
  data_req, current_block, data_buffer, reset_flag, reset_armed,
  sector, write_buffer,  \* handle_data_block()'s: the open sector
  block, res,            \* its local and its result
  pc, ret,               \* the place of main(), and where the block returns to
  host, fresh            \* the host; its download began in a closed sector

reqVars  == <<data_req, current_block, data_buffer>>
rstVars  == <<reset_flag, reset_armed>>
dfuVars  == <<state, last_status>>
blkVars  == <<sector, write_buffer, block, res>>
mainVars == <<app_is_ok, force, file, pc, ret>>
vars == <<flash, reqVars, rstVars, dfuVars, blkVars, mainVars, host, fresh>>

None   == "none"
Closed == -2 * SECTOR   \* no sector is open
Last(img) == Pages[img] * PAGE
AppPages == UNION {0 .. Pages[i] - 1 : i \in Images}
Block(img, k) == <<img, k>>
NoBlock == <<None, 0>>
Filled(what) == [j \in 1 .. PAGE |-> Block(what, 0)]
Blank   == Filled("blank")      \* erased
Garbage == Filled("garbage")    \* written over, or cut off
Loader  == Filled("loader")
Page(img, p) == [j \in 1 .. PAGE |-> Block(img, p * PAGE + j)]

(* iapFindSector(): the first page of the sector of page p.                *)
SectorOf(p) == IF p < 0 THEN -SECTOR ELSE (p \div SECTOR) * SECTOR

(* app_ok(): a whole image, by its length and checksum.                    *)
Holds(img) == \A p \in 0 .. Pages[img] - 1 : flash[p] = Page(img, p)
app_ok == \E img \in Images : Holds(img)

NoHost == [mode |-> "off", img |-> None, k |-> -1]

Ram ==
  /\ state' = "IDLE" /\ last_status' = "OK"
  /\ data_req' = FALSE /\ current_block' = 0 /\ data_buffer' = NoBlock
  /\ reset_flag' = FALSE /\ reset_armed' = FALSE
  /\ sector' = Closed /\ write_buffer' = Filled(None)
  /\ block' = 0 /\ res' = "OK" /\ ret' = None

Init ==
  /\ flash \in {[p \in AppPages \union {-1} |->
                   IF p = -1 THEN Loader
                   ELSE IF img # None /\ p < Pages[img] THEN Page(img, p)
                   ELSE Blank] : img \in Images \union {None}}
  /\ state = "IDLE" /\ last_status = "OK"
  /\ data_req = FALSE /\ current_block = 0 /\ data_buffer = NoBlock
  /\ reset_flag = FALSE /\ reset_armed = FALSE
  /\ sector = Closed /\ write_buffer = Filled(None)
  /\ block = 0 /\ res = "OK" /\ ret = None
  /\ app_is_ok = FALSE /\ force = FALSE /\ file = None /\ pc = "check"
  /\ host = NoHost /\ fresh = FALSE

-----------------------------------------------------------------------------
(* handle_data_block(), called with the block in data_buffer.              *)
Call(from) == pc' = "block" /\ ret' = from

(* current_block is read here to see whether it is the header ...          *)

(* Plausible bug: a good header is handled like any other block.           *)
BlockHeader_falls_through ==
  /\ pc = "block"
  /\ IF current_block = 0 /\ (data_buffer = NoBlock \/ data_buffer[2] # 0)
     THEN pc' = "result" /\ res' = "errTARGET"
     ELSE pc' = "number" /\ UNCHANGED res
  /\ UNCHANGED <<flash, reqVars, rstVars, dfuVars, sector, write_buffer, block,
                 app_is_ok, force, file, ret, host, fresh>>

BlockHeader ==
  /\ pc = "block"
  /\ IF current_block = 0
     THEN /\ pc' = "result"
          /\ res' = IF data_buffer # NoBlock /\ data_buffer[2] = 0 THEN "OK"
                    ELSE "errTARGET"
     ELSE pc' = "number" /\ UNCHANGED res
  /\ UNCHANGED <<flash, reqVars, rstVars, dfuVars, sector, write_buffer, block,
                 app_is_ok, force, file, ret, host, fresh>>

(* ... and once more for its number.                                       *)
BlockNumber ==
  /\ pc = "number" /\ pc' = "sector" /\ block' = current_block - 1
  /\ UNCHANGED <<flash, reqVars, rstVars, dfuVars, sector, write_buffer, res,
                 app_is_ok, force, file, ret, host, fresh>>

PageOf(b) == b \div PAGE
MayFail   == FlashFails /\ (ret = "file" => FileFails)

(* A page outside the open sector: the sector is opened, then erased.      *)
(* Images fit into the flash, so that the sector is always found.          *)
Open(p) == sector' = SectorOf(p)

(* Plausible bug: the sector is opened without being erased.               *)
BlockSector_unerased ==
  /\ pc = "sector" /\ sector' = SectorOf(PageOf(block)) /\ pc' = "copy"
  /\ UNCHANGED <<flash, reqVars, rstVars, dfuVars, write_buffer, block, res,
                 app_is_ok, force, file, ret, host, fresh>>

BlockSector ==
  LET p == PageOf(block)
  IN /\ pc = "sector"
     /\ \/ /\ sector = SectorOf(p)
           /\ pc' = "copy" /\ UNCHANGED <<flash, sector, res>>
        \/ /\ sector # SectorOf(p) /\ Open(p) /\ pc' = "copy"
           /\ flash' = [q \in DOMAIN flash |->
                          IF SectorOf(q) = SectorOf(p) THEN Blank ELSE flash[q]]
           /\ UNCHANGED res
        \/ /\ sector # SectorOf(p) /\ Open(p) /\ MayFail
           /\ res' = "errERASE" /\ pc' = "result" /\ UNCHANGED flash
     /\ UNCHANGED <<reqVars, rstVars, dfuVars, write_buffer, block, app_is_ok,
                    force, file, ret, host, fresh>>

BlockCopy ==
  /\ pc = "copy"
  /\ write_buffer' = [write_buffer EXCEPT ![(block % PAGE) + 1] = data_buffer]
  /\ IF block % PAGE = PAGE - 1 THEN pc' = "write" /\ UNCHANGED res
                                ELSE pc' = "result" /\ res' = "OK"
  /\ UNCHANGED <<flash, reqVars, rstVars, dfuVars, sector, block, app_is_ok,
                 force, file, ret, host, fresh>>

(* iapWrite(): bits can only be cleared, and nobody reads them back.       *)
Written(old, new) == IF old \in {Blank, new} THEN new ELSE Garbage

BlockWrite ==
  /\ pc = "write" /\ pc' = "result"
  /\ \/ /\ res' = "OK"
        /\ flash' = [flash EXCEPT ![PageOf(block)] = Written(@, write_buffer)]
     \/ /\ MayFail /\ res' = "errWRITE" /\ UNCHANGED flash
  /\ UNCHANGED <<reqVars, rstVars, dfuVars, sector, write_buffer, block,
                 app_is_ok, force, file, ret, host, fresh>>

DataBlock == BlockHeader \/ BlockNumber \/ BlockSector \/ BlockCopy \/ BlockWrite

-----------------------------------------------------------------------------
(* main(), until it decides.  What lies on the card and whether the loader *)
(* is forced (a pin, or the application's wish) is found out here.         *)
Check ==
  /\ pc = "check" /\ app_is_ok' = app_ok
  /\ force' \in BOOLEAN /\ file' \in Images \union {None}
  /\ pc' = IF file' = None THEN "decide" ELSE "file"
  /\ UNCHANGED <<flash, reqVars, rstVars, dfuVars, blkVars, ret, host, fresh>>

(* attempt_file_bootload(): a current image is left alone.                 *)

FileRead ==
  /\ pc = "file" /\ current_block <= Last(file)
  /\ IF current_block = 0 /\ app_is_ok /\ ~force /\ Holds(file)
     THEN pc' = "decide" /\ UNCHANGED <<data_buffer, ret>>
     ELSE data_buffer' = Block(file, current_block) /\ Call("file")
  /\ UNCHANGED <<flash, data_req, current_block, rstVars, dfuVars, blkVars,
                 app_is_ok, force, file, host, fresh>>

FileResult ==
  /\ pc = "result" /\ ret = "file"
  /\ IF res = "OK" THEN pc' = "file" /\ current_block' = current_block + 1
                   ELSE pc' = "decide" /\ UNCHANGED current_block
  /\ UNCHANGED <<flash, data_req, data_buffer, rstVars, dfuVars, blkVars,
                 app_is_ok, force, file, ret, host, fresh>>

(* A read that gives fewer bytes, or a header of something else, ends the  *)
(* function with an error: main() decides by what it found before.         *)
FileShort ==
  /\ pc = "file" /\ (FileFails \/ current_block = 0) /\ pc' = "decide"
  /\ UNCHANGED <<flash, reqVars, rstVars, dfuVars, blkVars, app_is_ok, force,
                 file, ret, host, fresh>>

(* Plausible bug: the application is not checked again after an update.    *)
FileEnd_unchecked ==
  /\ pc = "file" /\ pc' = "decide"
  /\ UNCHANGED <<flash, reqVars, rstVars, dfuVars, blkVars, app_is_ok, force,
                 file, ret, host, fresh>>

(* The end of the file, or a read that fails: f_read's result is ignored.  *)
FileEnd ==
  /\ pc = "file" /\ pc' = "decide" /\ app_is_ok' = app_ok
  /\ UNCHANGED <<flash, reqVars, rstVars, dfuVars, blkVars, force, file, ret,
                 host, fresh>>

Decide ==
  /\ pc = "decide"
  /\ IF ~force /\ app_is_ok THEN pc' = "app" /\ UNCHANGED ret
                            ELSE pc' = "wait" /\ ret' = "usb"
  /\ UNCHANGED <<flash, reqVars, rstVars, dfuVars, blkVars, app_is_ok, force,
                 file, host, fresh>>

Start == Check \/ FileRead \/ FileResult \/ FileShort \/ FileEnd \/ Decide

-----------------------------------------------------------------------------
(* main(), when it waits for requests.                                     *)

(* A bus reset ends the loop if the application is whole; otherwise the    *)
(* code below is reached, with a block or with the last one once more.     *)

(* Plausible bug: the loop is never left.                                  *)
Wait_for_ever ==
  /\ pc = "wait" /\ (data_req \/ reset_flag)
  /\ pc' = IF reset_flag THEN "reset" ELSE "block"
  /\ UNCHANGED <<flash, reqVars, rstVars, dfuVars, blkVars, app_is_ok, force,
                 file, ret, host, fresh>>

Wait ==
  /\ pc = "wait" /\ (data_req \/ reset_flag)
  /\ IF ~reset_flag THEN pc' = "block"
     ELSE pc' = IF app_ok THEN "app" ELSE "reset"
  /\ UNCHANGED <<flash, reqVars, rstVars, dfuVars, blkVars, app_is_ok, force,
                 file, ret, host, fresh>>

ResetDone ==
  /\ pc = "reset" /\ reset_flag' = FALSE /\ pc' = "block"
  /\ UNCHANGED <<flash, reqVars, reset_armed, dfuVars, blkVars, app_is_ok,
                 force, file, ret, host, fresh>>

(* Plausible bug: the request is done before its error is stored.          *)
Result_acknowledged ==
  /\ pc = "result" /\ ret = "usb" /\ data_req' = FALSE
  /\ pc' = IF res = "OK" THEN "done" ELSE "error"
  /\ UNCHANGED <<flash, current_block, data_buffer, rstVars, dfuVars, blkVars,
                 app_is_ok, force, file, ret, host, fresh>>

Result ==
  /\ pc = "result" /\ ret = "usb"
  /\ pc' = IF res = "OK" THEN "done" ELSE "error"
  /\ UNCHANGED <<flash, reqVars, rstVars, dfuVars, blkVars, app_is_ok, force,
                 file, ret, host, fresh>>

ErrorState ==
  /\ pc = "error" /\ state' = "ERROR" /\ pc' = "status"
  /\ UNCHANGED <<flash, reqVars, rstVars, last_status, blkVars, app_is_ok,
                 force, file, ret, host, fresh>>

ErrorStatus ==
  /\ pc = "status" /\ last_status' = res /\ pc' = "done"
  /\ UNCHANGED <<flash, reqVars, rstVars, state, blkVars, app_is_ok, force,
                 file, ret, host, fresh>>

RequestDone ==
  /\ pc = "done" /\ data_req' = FALSE /\ pc' = "wait"
  /\ UNCHANGED <<flash, current_block, data_buffer, rstVars, dfuVars, blkVars,
                 app_is_ok, force, file, ret, host, fresh>>

Loop == Wait \/ ResetDone \/ Result \/ ErrorState \/ ErrorStatus \/ RequestDone

-----------------------------------------------------------------------------
(* HandleClassRequest(), in the USB interrupt, and the host that asks.     *)
Listening == ret = "usb" /\ pc # "app"

Ask(mode) == host' = [host EXCEPT !.mode = mode]

(* DFU_DNLOAD of the next block; no state is required for it.              *)

Dnload ==
  /\ Listening /\ host.mode = "ready"
  /\ \E img \in Images :
       /\ host.k = -1 \/ img = host.img
       /\ host' = [mode |-> "poll", img |-> img, k |-> host.k + 1]
       /\ data_buffer' = Block(img, host.k + 1)
  /\ current_block' = host.k + 1 /\ data_req' = TRUE /\ state' = "DNLOAD_SYNC"
  /\ fresh' = IF host.k = -1 THEN sector # SectorOf(0) ELSE fresh
  /\ UNCHANGED <<flash, rstVars, last_status, blkVars, mainVars>>

(* ... of a length other than 64, and of length 0, which ends a download.  *)
DnloadOdd ==
  /\ Listening /\ host.mode = "ready" /\ Ask("poll")
  /\ state' = "ERROR" /\ last_status' = "errADDRESS"
  /\ UNCHANGED <<flash, reqVars, rstVars, blkVars, mainVars, fresh>>

DnloadEnd ==
  /\ Listening /\ host.mode = "end" /\ Ask("last")
  /\ state' = "MANIFEST_SYNC"
  /\ UNCHANGED <<flash, reqVars, rstVars, last_status, blkVars, mainVars, fresh>>

(* DFU_GETSTATUS.  What the host does next depends on the answer.          *)
NewState == CASE state = "DNLOAD_SYNC" /\ ~data_req -> "DNLOAD_IDLE"
              [] state = "DNLOAD_SYNC" /\ data_req -> "DNBUSY"
              [] state = "MANIFEST_SYNC" -> "IDLE"
              [] OTHER -> state

Goes == IF NewState = "ERROR" \/ last_status # "OK" THEN "failed"
        ELSE IF NewState = "DNBUSY" THEN "poll"
        ELSE IF host.mode = "last" THEN "done"
        ELSE IF host.k >= 0 /\ host.k = Last(host.img) THEN "end"
        ELSE "ready"

GetStatus ==
  /\ Listening /\ host.mode \in {"off", "poll", "last"}
  /\ host.mode = "off" /\ HostWaits => pc = "wait" /\ ~reset_flag
  /\ reset_armed' = TRUE
  /\ state' = IF NewState = "DNBUSY" THEN state ELSE NewState
  /\ Ask(Goes)
  /\ UNCHANGED <<flash, reqVars, reset_flag, last_status, blkVars, mainVars,
                 fresh>>

ClrStatus ==
  /\ Listening /\ host.mode = "failed" /\ Ask("abort") /\ last_status' = "OK"
  /\ UNCHANGED <<flash, reqVars, rstVars, state, blkVars, mainVars, fresh>>

Abort ==
  /\ Listening /\ host.mode = "abort" /\ host' = NoHost /\ state' = "IDLE"
  /\ UNCHANGED <<flash, reqVars, rstVars, last_status, blkVars, mainVars, fresh>>

GiveUp ==
  /\ Listening /\ host.mode # "off" /\ host' = NoHost
  /\ UNCHANGED <<flash, reqVars, rstVars, dfuVars, blkVars, mainVars, fresh>>

(* HandleUsbReset().                                                       *)
BusReset ==
  /\ Listening /\ host.mode \in {"off", "done"} /\ host' = NoHost
  /\ reset_flag' = (reset_flag \/ reset_armed)
  /\ UNCHANGED <<flash, reqVars, reset_armed, dfuVars, blkVars, mainVars, fresh>>

Usb == Dnload \/ DnloadOdd \/ DnloadEnd \/ GetStatus \/ ClrStatus \/ Abort
       \/ GiveUp \/ BusReset

(* The power is cut; what was being erased or written is lost.             *)
PowerCut ==
  /\ pc' = "check" /\ Ram /\ host' = NoHost /\ fresh' = FALSE
  /\ \/ UNCHANGED flash
     \/ /\ pc \in {"sector", "write"}
        /\ flash' = [q \in DOMAIN flash |->
                       IF \/ q = PageOf(block)
                          \/ pc = "sector" /\ SectorOf(q) = SectorOf(PageOf(block))
                       THEN Garbage ELSE flash[q]]
  /\ app_is_ok' = FALSE /\ force' = FALSE /\ file' = None

Main == Start \/ DataBlock \/ Loop
Next == Main \/ Usb \/ PowerCut
Spec == Init /\ [][Next]_vars

(* main() runs, and a host that has asked for a block to be written asks   *)
(* for the status; nobody need download anything.                          *)
FairSpec == Spec /\ WF_vars(Main) /\ WF_vars(GetStatus /\ host.mode = "poll")
=============================================================================
