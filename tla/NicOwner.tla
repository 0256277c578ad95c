------------------------------ MODULE NicOwner ------------------------------
(***************************************************************************)
(* Who drives the NE2000: kernel/net_nic_owner.c, with sys_net_nic and     *)
(* service_notify_purge_pid of kernel/syscall/syscall.c and the I/O bitmap *)
(* schedule() leaves.  A step of a task that was not running starts with   *)
(* the switch to it.  Frames, reports and the interrupt count are left out.*)
(***************************************************************************)
EXTENDS Naturals

CONSTANT NicTasks  \* tasks that may own "net-driver"

Kernel == 0

ASSUME NicOwnerAssumption == NicTasks \subseteq Nat \ {Kernel}

VARIABLES
  livesOn,  \* tasks that have not died
  netName,  \* the live owner of "net-driver", or Kernel
  nic,      \* g_owner; Kernel: Ring 0 drives the card
  running,  \* current_task, Kernel for any other task
  ports     \* g_tss_nic_granted

nicVars == <<livesOn, netName, nic, running, ports>>

NicInit == livesOn = NicTasks /\ netName = Kernel /\ nic = Kernel /\ running = Kernel /\ ports = FALSE

\* nic_owner_ports_open, at the end of schedule()
PortsOpen(t) == nic # Kernel /\ t = nic /\ nic = netName

\* The ports as a step of t finds them
Granted(t) == IF running = t THEN ports ELSE PortsOpen(t)

\* Any task runs in user mode, the owner of the card driving it.
Drive(t) ==
  /\ running' = t /\ ports' = Granted(t)
  /\ UNCHANGED <<livesOn, netName, nic>>

\* The task takes the name, or gives it back.
TakeName(t) ==
  /\ netName = Kernel
  /\ netName' = t
  /\ running' = t /\ ports' = Granted(t)
  /\ UNCHANGED <<livesOn, nic>>

GiveName(t) ==
  /\ netName = t
  /\ netName' = Kernel
  /\ running' = t /\ ports' = Granted(t)
  /\ UNCHANGED <<livesOn, nic>>

\* OS_NET_NIC_CLAIM
NicClaim(t) ==
  /\ netName = t /\ nic \in {Kernel, t}
  /\ nic' = t /\ ports' = TRUE /\ running' = t
  /\ UNCHANGED <<livesOn, netName>>

\* OS_NET_NIC_REPORT of a worker that found no card
NicRelease(t) ==
  /\ netName = t /\ nic = t
  /\ nic' = Kernel /\ ports' = FALSE /\ running' = t
  /\ UNCHANGED <<livesOn, netName>>

\* Mutant: the card goes back only once nobody has the name.
M_NicKept(live) == IF live = Kernel THEN Kernel ELSE nic

\* nic_owner_drop_if_gone
NicKept(live) == IF nic = live THEN nic ELSE Kernel

\* The task exits, faults or is killed, and another one runs.
Dies(t) ==
  /\ livesOn' = livesOn \ {t}
  /\ netName' = IF netName = t THEN Kernel ELSE netName
  /\ nic' = NicKept(netName')
  /\ running' = Kernel /\ ports' = FALSE

NicNext ==
  \/ Drive(Kernel)
  \/ \E t \in livesOn :
       Drive(t) \/ TakeName(t) \/ GiveName(t) \/ NicClaim(t) \/ NicRelease(t) \/ Dies(t)

NicSpec == NicInit /\ [][NicNext]_nicVars
-----------------------------------------------------------------------------
\* The card has one driver.  Its ports are open only to the task that claimed
\* it, so Ring 0, which tests nic_owner_kernel_may_touch, keeps off meanwhile;
\* and that task is alive, so the card never stays with a dead one, in
\* whatever order names are given back, taken over and purged.
NicDriven ==
  /\ ports => nic # Kernel /\ running = nic
  /\ nic # Kernel => nic \in livesOn
=============================================================================
