----------------------------- MODULE BootSafety -----------------------------
(* What the boot loader must keep: a device that starts.                   *)
EXTENDS Boot

(* Every variable of the loader is in its range.                           *)
States   == {"IDLE", "DNLOAD_SYNC", "DNLOAD_IDLE", "MANIFEST_SYNC", "ERROR"}
Statuses == {"OK", "errTARGET", "errWRITE", "errERASE", "errADDRESS"}
InBlock  == {"block", "number", "sector", "copy", "write", "result"}
OnUsb    == {"wait", "reset", "error", "status", "done"}
Modes    == {"off", "ready", "poll", "end", "last", "done", "failed", "abort"}

FlagsTyped ==
  /\ data_req \in BOOLEAN /\ reset_flag \in BOOLEAN /\ reset_armed \in BOOLEAN
  /\ app_is_ok \in BOOLEAN /\ force \in BOOLEAN /\ fresh \in BOOLEAN

FieldsTyped ==
  /\ DOMAIN flash = AppPages \union {-1}
  /\ write_buffer = [j \in 1 .. PAGE |-> write_buffer[j]]
  /\ state \in States /\ last_status \in Statuses /\ res \in Statuses
  /\ current_block \in Nat /\ block \in Int /\ sector \in Int
  /\ host \in [mode : Modes, img : Images \union {None}, k : Nat \union {-1}]
  /\ pc \in {"check", "file", "decide", "app"} \union InBlock \union OnUsb
  /\ ret \in {None, "file", "usb"}
  /\ pc \in {"check", "file", "decide"} => ret # "usb"
  /\ pc \in InBlock => ret \in {"file", "usb"}
  /\ pc \in OnUsb => ret = "usb"

TypeOK == FlagsTyped /\ FieldsTyped

(* The application is entered only if it is whole, whatever was cut off    *)
(* before: a download, an update from a file, the power.                   *)
BootsOnlyWhole == pc = "app" => app_ok

(* The loader never erases or writes its own sectors: main() reads         *)
(* current_block twice, and the interrupt may change it in between.        *)
LoaderIntact == flash[-1] = Loader

(* A block the host was told is done has been handled: it is in the page   *)
(* under construction, with all blocks of that page before it.             *)
AcknowledgedIsHandled ==
  host.mode \in {"ready", "end", "last", "done"} /\ host.k >= 1 =>
    \A k \in 1 .. host.k :
      PageOf(k - 1) = PageOf(host.k - 1) =>
        write_buffer[((k - 1) % PAGE) + 1] = Block(host.img, k)

(* A download whose every block was acknowledged is in flash as a whole,   *)
(* unless it began in the sector that was already open, which is not       *)
(* erased again.                                                           *)
CompleteDownloadIsWhole ==
  host.mode \in {"end", "last", "done"} /\ fresh => Holds(host.img)

(* A bus reset after a download of a whole application starts it.          *)
ResetStartsApplication ==
  (Listening /\ reset_flag /\ ~data_req /\ app_ok) ~> pc \in {"app", "check"}

-----------------------------------------------------------------------------
(* What the proofs and the code rely on.  The host has been away since the *)
(* last reset of the bus, and is where the state says.                     *)
HostInv ==
  /\ host.mode = "off" => host.k = -1
  /\ ~Listening => host.mode = "off"
  /\ ret # "usb" => ~data_req
  /\ pc = "reset" => reset_flag
  /\ host.mode # "off" => /\ ~reset_flag
                          /\ ~data_req => pc = "wait"
  /\ data_req => \/ state = "DNLOAD_SYNC"
                 \/ pc \in {"status", "done"}
  /\ data_req /\ pc # "done" => last_status = "OK"
  /\ host.mode # "off" /\ pc \in {"status", "done"} =>
       state \in {"ERROR", "DNLOAD_SYNC"}
  /\ host.mode # "off" /\ pc = "status" => state = "ERROR"
  /\ host.mode \in {"ready", "end", "last", "done"} => ~data_req
  /\ host.mode \in {"ready", "end", "last", "done"} =>
       state # "ERROR" /\ last_status = "OK"
  /\ host.mode \in {"failed", "abort"} /\ data_req => pc \in {"status", "done"}

(* The header is never taken for a block of the image.                     *)
BlockInv ==
  /\ pc = "number" => current_block # 0
  /\ pc \in {"sector", "copy", "write"} => block >= 0
  /\ pc = "write" => block % PAGE = PAGE - 1

LoaderInv == TypeOK /\ HostInv /\ BlockInv /\ LoaderIntact

(* What main() found out about the application holds where it decides: a   *)
(* file is looked at from its header on, and goes on to its end.           *)
FileInv ==
  /\ pc = "check" => current_block = 0
  /\ (pc = "file" \/ (pc \in InBlock /\ ret = "file")) => file # None
  /\ pc = "block" /\ ret = "file" => data_buffer = Block(file, current_block)
  /\ pc = "result" /\ ret = "file" => res = "OK"
  /\ pc = "number" => current_block # 0 \/ ret = "usb"
  /\ pc \in {"sector", "copy", "write"} => current_block # 0 \/ ret = "usb"
  /\ pc \in {"file", "block", "result"} /\ ret # "usb" /\ current_block = 0 =>
       (app_is_ok => app_ok)
  /\ pc = "decide" => (app_is_ok => app_ok)
  /\ BootsOnlyWhole

(* The blocks of the page under construction, up to the one before the     *)
(* host's last, and that one once it has been copied.                      *)
InBuffer(k) == write_buffer[((k - 1) % PAGE) + 1] = Block(host.img, k)
Done == \/ (pc = "result" /\ res = "OK")
        \/ (pc = "done" /\ state = "DNLOAD_SYNC")
        \/ (pc = "wait" /\ ~data_req /\ state # "ERROR")

BufferInv ==
  host.k >= 0 =>
    /\ current_block = host.k /\ data_buffer = Block(host.img, host.k)
    /\ pc \in {"sector", "copy", "write"} => block = host.k - 1
    /\ \A k \in 1 .. host.k - 1 :
         PageOf(k - 1) = PageOf(host.k - 1) => InBuffer(k)
    /\ (pc = "write" \/ Done) /\ host.k >= 1 => InBuffer(host.k)

(* A download that began in a closed sector: the pages before the one      *)
(* under construction hold the image, and what is open behind is blank.    *)
Doing   == pc \in InBlock \ {"result"} \/ (pc = "wait" /\ data_req)
Handled == IF Done \/ host.k = 0 THEN host.k ELSE host.k - 1
Opened  == pc \in {"copy", "write"}

SizeInv ==
  /\ host.k >= 0 => host.img \in Images /\ host.k <= Last(host.img)
  /\ host.mode = "ready" /\ host.k >= 0 => host.k < Last(host.img)
  /\ host.mode \in {"end", "last", "done"} =>
       host.k >= 0 /\ host.k = Last(host.img)

FlashAt(h) ==
  /\ \A p \in AppPages : p < PageOf(h) => flash[p] = Page(host.img, p)
  /\ Opened \/ h >= 1 =>
       \A p \in AppPages :
         p >= PageOf(h) /\ SectorOf(p) = sector => flash[p] = Blank
  /\ Opened => sector = SectorOf(PageOf(h))
  /\ ~Opened => IF h = 0 THEN sector # SectorOf(0)
                ELSE sector = SectorOf(PageOf(h - 1))

FlashInv == fresh /\ host.k >= 0 /\ (Done \/ Doing) => FlashAt(Handled)
=============================================================================
