-------------------------------- MODULE Ata --------------------------------
(***************************************************************************)
(* The disk behind the Ring 3 driver: the job queue (kernel/ata_job.c),    *)
(* the file-system operations relayed to the driver (kernel/ata_fsop.c),   *)
(* the bridge of kernel/syscall/syscall.c that blocks callers, supervises  *)
(* the driver and parks its store, and userspace/ata_driver.c itself.      *)
(*                                                                         *)
(* The system is the strict image with an IDE disk: no Ring 0 FAT fallback *)
(* (kernel_fat_pio_fallback_enabled is 0) and a deferred boot mount.      *)
(* There a kernel overlay write happens only while no driver is            *)
(* registered, so that ata_job_request_flush is never called and flush     *)
(* jobs are left out.                                                      *)
(*                                                                         *)
(* An overlay image is, chunk by chunk, the set of the mutations its bytes *)
(* hold; an image written half way differs between its chunks.  Time is    *)
(* left out: a wait may reach its deadline at any moment.                  *)
(***************************************************************************)
EXTENDS Integers, FiniteSets

CONSTANTS
  MaxDriver,    \* bound on the driver tasks created; 1 is the boot driver
  MaxOp,        \* bound on the calls made
  NChunks,      \* chunks of an overlay image
  RespawnLimit  \* ATA_RESPAWN_LIMIT

Drivers == 1..MaxDriver
Boot == 1
None == 0
Ops == 1..MaxOp
Chunks == 1..NChunks

ASSUME AtaAssumption ==
  /\ MaxDriver \in Nat \ {0} /\ MaxOp \in Nat
  /\ NChunks \in Nat \ {0} /\ RespawnLimit \in Nat

VARIABLES
  dpc,          \* where each driver task is
  live,         \* ata_live_driver()
  bootReg,      \* g_boot_driver_registered
  respawn,      \* g_respawn_pid
  rcount,       \* g_respawn_count
  job,          \* the job the live driver works on: kind, gen, op, ok
  dov,          \* the overlay in the live driver's memory
  dcur,         \* chunks fs_persist has written
  claim,        \* g_claim_pid
  loadPending,  \* g_load_pending
  loading,      \* g_active_op is READ
  cursor,       \* g_cursor, in chunks
  handed,       \* g_handed
  gen,          \* g_generation of ata_job.c
  ovGen,        \* g_ov_generation
  buf,          \* g_buf
  ioState,      \* g_io_state
  ioGen,        \* g_io_gen
  fsState,      \* g_state of ata_fsop.c
  fsGen,        \* its g_generation
  fsDrv,        \* its g_driver_pid
  committed,    \* g_committed
  published,    \* g_published
  store,        \* g_store_pid
  mirror,       \* g_mirror
  kov,          \* the overlay in the kernel's memory
  disk,         \* the overlay area of the disk
  jrn,          \* the journal sector: the operation that wrote it
  kind,         \* the call in progress
  tries,        \* tries in ata_fs_relay
  nOps,         \* calls made so far; the last one is the call in progress
  wait,         \* g_rpc_kind while g_rpc_waiter is set
  woken,        \* the waiter is READY again
  aborted,      \* g_rpc_aborted
  sched,        \* task_sched_only while the waiter is blocked
  acked,        \* operations whose caller was told they are done
  fat,          \* how often each operation changed the FAT volume
  lastJrn       \* the last journal write, if its caller was told it is done

driverVars == <<dpc, live, bootReg, respawn, rcount>>
ownVars == <<job, dov, dcur, claim>>
loadVars == <<loadPending, loading, cursor, ovGen, buf>>
ioVars == <<ioState, ioGen>>
fsVars == <<fsState, fsGen, fsDrv, committed, published>>
diskVars == <<disk, jrn, fat>>
callVars == <<kind, tries, nOps>>
rpcVars == <<wait, woken, aborted, sched>>
ackVars == <<acked, lastJrn>>
vars == <<driverVars, ownVars, loadVars, handed, gen, ioVars, fsVars,
          store, mirror, kov, diskVars, callVars, rpcVars, ackVars>>

\* dpc: "none" and "dead" tasks do not run; "spawned" has not registered yet and
\* "stuck" was refused; "start" is before fs_install_boot; in the main loop
\* the driver is at "loop", or works on a job: "busy" before its transfer,
\* "saving" in fs_persist, "done" before it reports.
Alive(d) == dpc[d] \notin {"none", "dead"}
NoJob == [kind |-> "none", gen |-> 0, op |-> 0, ok |-> TRUE]
Blank == [c \in Chunks |-> {}]
Intact(img) == {o \in Ops : \A c \in Chunks : o \in img[c]}
Whole(img) == \A c, d \in Chunks : img[c] = img[d]

\* overlay_restore(img) into an overlay that is now old: an image whose
\* chunks do not belong together may or may not pass its checks.
Restored(img, old) == IF Whole(img) THEN {img} ELSE {img, old}

Init ==
  /\ dpc = [d \in Drivers |-> IF d = Boot THEN "spawned" ELSE "none"]
  /\ live = None /\ bootReg = FALSE /\ respawn = None /\ rcount = 0
  /\ job = NoJob /\ dov = Blank /\ dcur = 0 /\ claim = None
  /\ loadPending = FALSE /\ loading = FALSE /\ cursor = 0 /\ ovGen = 0 /\ buf = Blank
  /\ handed = "none" /\ gen = 0 /\ ioState = "none" /\ ioGen = 0
  /\ fsState = "free" /\ fsGen = 0 /\ fsDrv = None /\ committed = FALSE /\ published = FALSE
  /\ store = None /\ mirror = Blank /\ kov = Blank
  /\ disk = Blank /\ jrn = 0 /\ fat = [o \in Ops |-> 0]
  /\ kind = "none" /\ tries = 0 /\ nOps = 0
  /\ wait = "no" /\ woken = FALSE /\ aborted = FALSE /\ sched = None
  /\ acked = {} /\ lastJrn = 0

-----------------------------------------------------------------------------
(* Supervision of the driver *)

\* ata_fsop_store_flags(ata_live_driver()) covers the store
Served == live # None /\ store = live

StorePending ==
  \/ live # None
  \/ respawn # None /\ Alive(respawn)
  \/ Alive(Boot) /\ ~bootReg

NextDriver == CHOOSE d \in Drivers : dpc[d] = "none"
CanCreate == \E d \in Drivers : dpc[d] = "none"

\* ata_supervisor_respawn has a driver to wait for
Supervised(procs, registered) ==
  registered # None \/ (respawn # None /\ procs[respawn] \notin {"none", "dead"})

Budget == rcount < RespawnLimit

\* The rest of ata_supervisor_respawn, with the task states it starts from
Create(procs) ==
  /\ dpc' = [procs EXCEPT ![NextDriver] = "spawned"]
  /\ respawn' = NextDriver /\ rcount' = rcount + 1

\* ata_owner_holder: a claim of a driver that is gone is dropped.
Holder == IF claim = live THEN claim ELSE None

\* ata_rpc_abort
Abort ==
  IF wait = "no" \/ woken
  THEN UNCHANGED <<woken, aborted, handed, gen, ioState, fsState>>
  ELSE /\ woken' = TRUE /\ aborted' = TRUE
       /\ IF wait = "io" /\ ioState # "none"
          THEN /\ ioState' = "none" /\ gen' = gen + 1
               /\ handed' = IF handed = "io" THEN "none" ELSE handed
          ELSE UNCHANGED <<ioState, gen, handed>>
       /\ fsState' = IF wait = "fsop" /\ fsState \in {"submitted", "fetched"}
                     THEN "aborted" ELSE fsState

\* The calls a driver task can make: while a caller waits, only the task it
\* waits for is scheduled; the one that woke it runs on to its next yield.
Runs(d) ==
  /\ Alive(d)
  /\ \/ wait = "no"
     \/ ~woken /\ sched = d
     \/ woken /\ wait = "store" /\ store = d

\* Mutant: the kernel goes on with its own copy.
M_Parked == kov

\* The overlay after the death of a driver: the last image it published
Parked == IF store = None THEN kov ELSE mirror

\* A driver task ends, by a fault or killed from the shell:
\* service_notify_purge_pid and ata_bridge_after_purge.
Die(d) ==
  LET registered == IF live = d THEN None ELSE live
      procs == [dpc EXCEPT ![d] = "dead"]
  IN /\ Runs(d)
     /\ live' = registered
     /\ IF d \in {Boot, respawn, store, live} /\ registered = None
        THEN /\ Abort
             /\ kov' = Parked
             /\ store' = None
             /\ IF ~Supervised(procs, registered) /\ Budget /\ CanCreate
                THEN Create(procs)
                ELSE dpc' = procs /\ UNCHANGED <<respawn, rcount>>
        ELSE /\ dpc' = procs
             /\ UNCHANGED <<respawn, rcount, woken, aborted, handed, gen, ioState, fsState,
                            kov, store>>
     /\ IF live = d THEN job' = NoJob /\ dov' = Blank /\ dcur' = 0 ELSE UNCHANGED <<job, dov, dcur>>
     /\ UNCHANGED <<bootReg, claim, loadVars, ioGen, fsGen, fsDrv, committed,
                    published, mirror, diskVars, callVars, wait, sched, ackVars>>

\* The shell starts a driver by hand.
Spawn ==
  /\ wait = "no" /\ CanCreate
  /\ dpc' = [dpc EXCEPT ![NextDriver] = "spawned"]
  /\ UNCHANGED <<live, bootReg, respawn, rcount, ownVars, loadVars, handed, gen, ioVars, fsVars,
                 store, mirror, kov, diskVars, callVars, rpcVars, ackVars>>

-----------------------------------------------------------------------------
(* The driver: userspace/ata_driver.c and the system calls it makes *)

\* SYS_SERVICE_REGISTER of "ata-driver", with the load that sys_service_register
\* queues for every driver but the boot driver's first registration
Register(d) ==
  /\ Runs(d) /\ dpc[d] = "spawned"
  /\ IF live # None
     THEN dpc' = [dpc EXCEPT ![d] = "stuck"] /\ UNCHANGED <<live, bootReg, loadPending, job>>
     ELSE /\ dpc' = [dpc EXCEPT ![d] = "start"]
          /\ live' = d /\ job' = NoJob
          /\ IF d = Boot /\ ~bootReg
             THEN bootReg' = TRUE /\ UNCHANGED loadPending
             ELSE loadPending' = TRUE /\ UNCHANGED bootReg
  /\ UNCHANGED <<respawn, rcount, dov, dcur, claim, loading, cursor, ovGen, buf, handed, gen,
                 ioVars, fsVars, store, mirror, kov, diskVars, callVars, rpcVars, ackVars>>

\* fs_install_boot: the overlay area as it is on the disk replaces the
\* kernel's overlay, unless it cannot be read.
Install(d) ==
  /\ Runs(d) /\ dpc[d] = "start"
  /\ kov' \in Restored(disk, kov) \cup {kov}
  /\ dpc' = [dpc EXCEPT ![d] = "loop"]
  /\ UNCHANGED <<live, bootReg, respawn, rcount, ownVars, loadVars, handed, gen, ioVars, fsVars,
                 store, mirror, diskVars, callVars, rpcVars, ackVars>>

\* The driver takes a job and claims the controller.
Take(d, k, g, o) ==
  /\ job' = [kind |-> k, gen |-> g, op |-> o, ok |-> TRUE]
  /\ dpc' = [dpc EXCEPT ![d] = "busy"]
  /\ claim' = d
  /\ UNCHANGED <<live, bootReg, respawn, rcount, dov, dcur, store, mirror, kov, diskVars,
                 callVars, rpcVars, ackVars>>

OpWaits(d) == fsState = "submitted" /\ fsDrv = d

\* SYS_ATA_JOB_FETCH: a file-system operation goes first,
FetchOp(d) ==
  /\ Runs(d) /\ dpc[d] = "loop" /\ OpWaits(d)
  /\ fsState' = "fetched"
  /\ Take(d, kind, fsGen, nOps)
  /\ UNCHANGED <<loadVars, handed, gen, ioVars, fsGen, fsDrv, committed, published>>

IoWaits == handed = "io" \/ (handed = "none" /\ ioState = "pending")

\* then a sector job,
FetchIo(d) ==
  /\ Runs(d) /\ dpc[d] = "loop" /\ ~OpWaits(d) /\ IoWaits
  /\ ioState' = "handed" /\ handed' = "io"
  /\ Take(d, "jrn", ioGen, nOps)
  /\ UNCHANGED <<loadVars, gen, ioGen, fsVars>>

\* then the next chunk of a load.  A load whose driver died goes on where it
\* stopped: this image does not call ata_job_driver_gone.
FetchLoad(d) ==
  /\ Runs(d) /\ dpc[d] = "loop" /\ ~OpWaits(d) /\ ~IoWaits
  /\ \/ loading /\ UNCHANGED <<loadPending, loading, cursor, gen, ovGen>>
     \/ /\ ~loading /\ loadPending
        /\ loadPending' = FALSE /\ loading' = TRUE /\ cursor' = 0
        /\ gen' = gen + 1 /\ ovGen' = gen + 1
  /\ handed' = "ov"
  /\ Take(d, "load", ovGen', cursor')
  /\ UNCHANGED <<buf, ioVars, fsVars>>

\* fsop_live
FsLive(d) == fsDrv = d /\ fsGen = job.gen /\ fsState \in {"submitted", "fetched"}

\* serve_fs_op gives an operation up when the kernel no longer has its request.
Drop(d) ==
  /\ Runs(d) /\ dpc[d] = "busy" /\ job.kind \in {"ovl", "fat"} /\ ~FsLive(d)
  /\ dpc' = [dpc EXCEPT ![d] = "loop"]
  /\ job' = NoJob /\ claim' = None
  /\ UNCHANGED <<live, bootReg, respawn, rcount, dov, dcur, loadVars, handed, gen, ioVars, fsVars,
                 store, mirror, kov, diskVars, callVars, rpcVars, ackVars>>

\* The transfer of a sector job or of a load chunk; one that fails may have
\* written its sector.
Transfer(d) ==
  /\ Runs(d) /\ dpc[d] = "busy" /\ job.kind \in {"jrn", "load"}
  /\ \E ok \in BOOLEAN :
       /\ job' = [job EXCEPT !.ok = ok]
       /\ jrn' \in IF job.kind # "jrn" THEN {jrn} ELSE IF ok THEN {job.op} ELSE {jrn, job.op}
  /\ dpc' = [dpc EXCEPT ![d] = "done"]
  /\ claim' = None
  /\ UNCHANGED <<live, bootReg, respawn, rcount, dov, dcur, loadVars, handed, gen, ioVars, fsVars,
                 store, mirror, kov, disk, fat, callVars, rpcVars, ackVars>>

\* A FAT mutation: its first sector write is followed by the note that says so.
ExecuteFat(d) ==
  /\ Runs(d) /\ dpc[d] = "busy" /\ job.kind = "fat"
  /\ fat' = [fat EXCEPT ![job.op] = @ + 1]
  /\ committed' = (committed \/ FsLive(d))
  /\ dpc' = [dpc EXCEPT ![d] = "done"]
  /\ claim' = None
  /\ UNCHANGED <<live, bootReg, respawn, rcount, job, dov, dcur, loadVars, handed, gen, ioVars,
                 fsState, fsGen, fsDrv, published, store, mirror, kov, disk, jrn, callVars,
                 rpcVars, ackVars>>

\* An overlay mutation: in the driver's memory, then published to the kernel
\* (refused when the caller has given up)
ExecuteOverlay(d) ==
  /\ Runs(d) /\ dpc[d] = "busy" /\ job.kind = "ovl"
  /\ dov' = [c \in Chunks |-> dov[c] \cup {job.op}]
  /\ mirror' = IF FsLive(d) THEN dov' ELSE mirror
  /\ published' = (published \/ FsLive(d))
  /\ dpc' = [dpc EXCEPT ![d] = "saving"]
  /\ UNCHANGED <<live, bootReg, respawn, rcount, job, dcur, claim, loadVars, handed, gen, ioVars,
                 fsState, fsGen, fsDrv, committed, store, kov, diskVars, callVars, rpcVars,
                 ackVars>>

\* fs_persist writes the chunks in order; after an error it stops and the
\* operation is reported all the same.
Persist(d) ==
  /\ Runs(d) /\ dpc[d] = "saving"
  /\ \/ /\ dcur < NChunks
        /\ disk' = [disk EXCEPT ![dcur + 1] = dov[dcur + 1]]
        /\ dcur' = dcur + 1
        /\ UNCHANGED <<dpc, claim>>
     \/ /\ dpc' = [dpc EXCEPT ![d] = "done"]
        /\ dcur' = 0 /\ claim' = None
        /\ UNCHANGED disk
  /\ UNCHANGED <<live, bootReg, respawn, rcount, job, dov, loadVars, handed, gen, ioVars, fsVars,
                 store, mirror, kov, jrn, fat, callVars, rpcVars, ackVars>>

\* Back to the main loop
Report(d) ==
  /\ Runs(d) /\ dpc[d] = "done"
  /\ dpc' = [dpc EXCEPT ![d] = "loop"]
  /\ job' = NoJob
  /\ UNCHANGED <<live, bootReg, respawn, rcount, dov, dcur, claim, store, mirror, diskVars,
                 callVars, wait, aborted, sched, ackVars>>

\* ata_fsop_done and ata_fs_wake_waiter
DoneOp(d) ==
  /\ job.kind \in {"ovl", "fat"}
  /\ Report(d)
  /\ LET taken == FsLive(d) /\ fsState = "fetched"
     IN /\ fsState' = IF taken THEN "done" ELSE fsState
        /\ woken' = (woken \/ (taken /\ wait = "fsop"))
  /\ UNCHANGED <<loadVars, handed, gen, ioVars, fsGen, fsDrv, committed, published, kov>>

\* Mutant: a completion counts for whichever sector job there is.
M_IoTaken == ioState \in {"pending", "handed"}

\* ata_job_done accepts the completion of a sector job.
IoTaken == handed = "io" /\ ioState = "handed" /\ ioGen = job.gen

DoneIo(d) ==
  /\ job.kind = "jrn"
  /\ Report(d)
  /\ IF IoTaken
     THEN /\ handed' = "none"
          /\ ioState' = IF job.ok THEN "done" ELSE "failed"
          /\ woken' = (woken \/ wait = "io")
     ELSE UNCHANGED <<handed, ioState, woken>>
  /\ UNCHANGED <<loadVars, gen, ioGen, fsVars, kov>>

LoadTaken == handed = "ov" /\ loading /\ ovGen = job.gen /\ cursor = job.op

\* A chunk of a load: after the last one the image replaces the kernel's.
DoneLoad(d) ==
  /\ job.kind = "load"
  /\ Report(d)
  /\ IF ~LoadTaken THEN UNCHANGED <<loading, cursor, buf, handed, kov>>
     ELSE /\ handed' = "none"
          /\ IF ~job.ok THEN loading' = FALSE /\ UNCHANGED <<cursor, buf, kov>>
             ELSE /\ buf' = [buf EXCEPT ![cursor + 1] = disk[cursor + 1]]
                  /\ IF cursor + 1 < NChunks
                     THEN cursor' = cursor + 1 /\ UNCHANGED <<loading, kov>>
                     ELSE cursor' = 0 /\ loading' = FALSE /\ kov' \in Restored(buf', kov)
  /\ UNCHANGED <<loadPending, ovGen, gen, ioVars, fsVars, woken>>

JobPending == loadPending \/ loading \/ ioState \in {"pending", "handed"}

\* OS_ATA_FS_READY: the overlay goes over to the driver, and a caller that
\* waits for it is woken.
Ready(d) ==
  /\ Runs(d) /\ dpc[d] = "loop" /\ store # d
  /\ ~JobPending /\ fsState = "free"
  /\ mirror' = kov /\ dov' = kov /\ store' = d
  /\ rcount' = IF d = respawn THEN 0 ELSE rcount
  /\ woken' = (woken \/ wait = "store")
  /\ UNCHANGED <<dpc, live, bootReg, respawn, job, dcur, claim, loadVars, handed, gen, ioVars,
                 fsVars, kov, diskVars, callVars, wait, aborted, sched, ackVars>>

-----------------------------------------------------------------------------
(* The caller: ata_fs_relay, ata_wait_store, kernel_journal_sector_io.  A    *)
(* call runs to its end or to where it blocks; while it is blocked every     *)
(* other caller is sent back, so that there is one call at a time.           *)

Block(w, d) == wait' = w /\ woken' = FALSE /\ aborted' = FALSE /\ sched' = d

\* The call returns, and tells its caller whether the operation is done.
Return(done) ==
  /\ kind' = "none" /\ tries' = 0
  /\ wait' = "no" /\ woken' = FALSE /\ aborted' = FALSE /\ sched' = None
  /\ acked' = IF done /\ kind # "jrn" THEN acked \cup {nOps} ELSE acked
  /\ lastJrn' = IF done /\ kind = "jrn" THEN nOps ELSE lastJrn

\* ata_fsop_submit and ata_rpc_block
Submit(t) ==
  /\ Served /\ fsState = "free"
  /\ fsState' = "submitted" /\ fsGen' = fsGen + 1 /\ fsDrv' = live
  /\ committed' = FALSE /\ published' = FALSE
  /\ tries' = t
  /\ Block("fsop", live)

\* The driver ata_wait_store waits for, if there is one
Awaited ==
  IF live # None THEN live
  ELSE IF respawn # None /\ Alive(respawn) THEN respawn ELSE None

\* ata_wait_store finds a driver to wait for or starts one.
WaitStore ==
  \/ Awaited # None /\ Block("store", Awaited) /\ UNCHANGED <<dpc, respawn, rcount>>
  \/ Awaited = None /\ Budget /\ CanCreate /\ Create(dpc) /\ Block("store", NextDriver)

\* It can do neither.
NoStore == Awaited = None /\ ~(Budget /\ CanCreate)

NewCall(k) == wait = "no" /\ nOps < MaxOp /\ nOps' = nOps + 1 /\ kind' = k

\* A mutation is handed to the driver that serves the store.
CallServed(k) ==
  /\ NewCall(k) /\ Submit(1)
  /\ UNCHANGED <<driverVars, ownVars, loadVars, handed, gen, ioVars, store, mirror, kov, diskVars,
                 ackVars>>

\* A driver is there or on its way: wait for its store.
CallWaits(k) ==
  /\ NewCall(k) /\ ~Served /\ StorePending
  /\ tries' = 1 /\ WaitStore
  /\ UNCHANGED <<live, bootReg, ownVars, loadVars, handed, gen, ioVars, fsVars, store, mirror,
                 kov, diskVars, ackVars>>

\* No driver: the kernel's overlay takes the mutation and overlay_save_disk
\* writes it with Ring 0 PIO; an error of the disk is not reported.
CallLocal ==
  /\ wait = "no" /\ nOps < MaxOp /\ ~StorePending /\ Holder = None
  /\ nOps' = nOps + 1 /\ acked' = acked \cup {nOps + 1}
  /\ kov' = [c \in Chunks |-> kov[c] \cup {nOps + 1}]
  /\ \E n \in 0..NChunks :
       disk' = [c \in Chunks |-> IF c <= n THEN kov'[c] ELSE disk[c]]
  /\ UNCHANGED <<driverVars, ownVars, loadVars, handed, gen, ioVars, fsVars, store, mirror, jrn,
                 fat, kind, tries, rpcVars, lastJrn>>

\* A journal write goes to the live driver as a sector job.
CallJournal ==
  /\ NewCall("jrn") /\ live # None
  /\ ioState \notin {"pending", "handed"}
  /\ ioState' = "pending" /\ gen' = gen + 1 /\ ioGen' = gen + 1
  /\ tries' = 1 /\ Block("io", live)
  /\ lastJrn' = 0
  /\ UNCHANGED <<driverVars, ownVars, loadVars, handed, fsVars, store, mirror, kov, diskVars,
                 acked>>

\* With no driver it is Ring 0 PIO, if no driver is expected either.
JournalLocal ==
  /\ wait = "no" /\ nOps < MaxOp /\ live = None /\ ~StorePending /\ Holder = None
  /\ nOps' = nOps + 1
  /\ \/ jrn' = nOps + 1 /\ lastJrn' = nOps + 1
     \/ jrn' \in {jrn, nOps + 1} /\ lastJrn' = 0
  /\ UNCHANGED <<driverVars, ownVars, loadVars, handed, gen, ioVars, fsVars, store, mirror, kov,
                 disk, fat, kind, tries, rpcVars, acked>>

\* Mutant: only the waits for a completion have a deadline.
M_Expires == wait \in {"io", "fsop"} /\ ~woken

\* ata_rpc_sched_hook: the wait has gone on for too long.
Expires == wait # "no" /\ ~woken

Timeout ==
  /\ Expires /\ Abort
  /\ UNCHANGED <<driverVars, ownVars, loadVars, ioGen, fsGen, fsDrv, committed, published, store,
                 mirror, kov, diskVars, callVars, wait, sched, ackVars>>

\* syscall_ata_fat_io goes on after its block: -2, or ata_job_io_take.
ResumeIo ==
  /\ wait = "io" /\ woken
  /\ Return(~aborted /\ ioState = "done")
  /\ ioState' = IF aborted THEN ioState ELSE "none"
  /\ UNCHANGED <<driverVars, ownVars, loadVars, handed, gen, ioGen, fsVars, store, mirror, kov,
                 diskVars, nOps>>

\* Mutant: an aborted operation keeps its slot.
M_Released(st) == IF st = "done" THEN "free" ELSE st

\* ata_fsop_take and ata_fsop_release
Released(st) == IF st \in {"done", "aborted"} THEN "free" ELSE st

\* Mutant: a FAT mutation that has changed the disk is made again.
M_MayRetry == ~(kind = "ovl" /\ published)

\* An operation whose driver is gone is made again unless part of it is done.
MayRetry == ~(kind = "ovl" /\ published) /\ ~(kind = "fat" /\ committed)

\* ata_fs_relay after ata_rpc_block: the reply, OS_ATA_FS_TIMEOUT from a
\* driver that is still there, the published result, OS_ATA_FS_ABORTED, or
\* another try
ResumeOp ==
  /\ wait = "fsop" /\ woken
  /\ \/ /\ fsState = "done" /\ ~aborted
        /\ Return(TRUE) /\ UNCHANGED <<dpc, respawn, rcount>>
     \/ /\ aborted
        /\ \/ live = fsDrv /\ Return(FALSE) /\ UNCHANGED <<dpc, respawn, rcount>>
           \/ /\ live # fsDrv /\ ~MayRetry
              /\ Return(kind = "ovl") /\ UNCHANGED <<dpc, respawn, rcount>>
           \/ /\ live # fsDrv /\ MayRetry
              /\ \/ tries >= 3 \/ NoStore
              /\ Return(FALSE) /\ UNCHANGED <<dpc, respawn, rcount>>
           \/ /\ live # fsDrv /\ MayRetry /\ tries < 3
              /\ WaitStore /\ UNCHANGED <<kind, tries, ackVars>>
  /\ fsState' = Released(fsState)
  /\ UNCHANGED <<live, bootReg, ownVars, loadVars, handed, gen, ioVars, fsGen, fsDrv, committed,
                 published, store, mirror, kov, diskVars, nOps>>

\* ata_wait_store after its block: given up, the store is there, or around
\* its loop again
ResumeStore ==
  /\ wait = "store" /\ woken
  /\ \/ /\ aborted \/ (~Served /\ NoStore)
        /\ Return(FALSE) /\ UNCHANGED <<fsVars, dpc, respawn, rcount>>
     \/ ~aborted /\ Submit(tries + 1) /\ UNCHANGED <<kind, ackVars, dpc, respawn, rcount>>
     \/ /\ ~aborted /\ ~Served /\ WaitStore
        /\ UNCHANGED <<kind, tries, ackVars, fsVars>>
  /\ UNCHANGED <<live, bootReg, ownVars, loadVars, handed, gen, ioVars, store, mirror, kov,
                 diskVars, nOps>>

-----------------------------------------------------------------------------
DriverStep(d) ==
  \/ Register(d) \/ Install(d) \/ FetchOp(d) \/ FetchIo(d) \/ FetchLoad(d)
  \/ Drop(d) \/ Transfer(d) \/ ExecuteFat(d) \/ ExecuteOverlay(d) \/ Persist(d)
  \/ DoneOp(d) \/ DoneIo(d) \/ DoneLoad(d) \/ Ready(d)

Next ==
  \/ \E d \in Drivers : DriverStep(d) \/ Die(d)
  \/ \E k \in {"ovl", "fat"} : CallServed(k) \/ CallWaits(k)
  \/ Spawn \/ CallLocal \/ CallJournal \/ JournalLocal
  \/ Timeout \/ ResumeIo \/ ResumeOp \/ ResumeStore

\* The clock ticks and the scheduler gives a READY waiter the CPU.
Spec == Init /\ [][Next]_vars /\ WF_vars(Timeout) /\ WF_vars(ResumeIo \/ ResumeOp \/ ResumeStore)

-----------------------------------------------------------------------------
\* A FAT mutation changes the volume at most once, whichever driver dies while
\* it is being made and however often ata_fs_relay tries.
FatOnce == \A o \in Ops : fat[o] <= 1

\* A returned call leaves neither the operation slot nor the sector slot taken.
SlotsFreed == wait = "no" => fsState = "free" /\ ioState = "none"

\* The journal sector holds the last write that its caller was told is done:
\* a completion that comes late does not bring an older one back.
JournalKept == lastJrn # 0 => jrn = lastJrn

\* The image the next overlay call works on
Current == IF Served THEN dov ELSE kov

\* A caller is told that its operation is done only when the FAT volume or the
\* overlay that serves the next call has it.
AckApplied ==
  [][\A o \in acked' \ acked : fat[o] = 1 \/ o \in Intact(Current)']_vars

\* Every call returns, also when the driver it waits for never serves a store.
CallEnds == wait # "no" ~> wait = "no"
=============================================================================
