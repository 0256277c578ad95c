------------------------------- MODULE VgaText -------------------------------
(* The text screen: present of kernel/vga_console.c, the frame flag of         *)
(* kernel/device_service.c, the Ring 0 repaint and bin/vgadriver, which writes *)
(* only the cells that differ from what it believes is on the screen.          *)
EXTENDS DriverHost

CONSTANTS
  Cells,         \* 1..n: the cells of the text page, painted in order
  Glyphs,        \* what a cell may show
  MaxFrames      \* bound: frames presented in a behaviour

ASSUME VgaConstants == MaxFrames \in Nat /\ Cells \subseteq Nat

VARIABLES
  presents,      \* frames presented
  frame,         \* the frame the console model holds
  screen,        \* the cells of video memory
  framePending,  \* g_vga.pending
  frameAge,      \* ticks since pending_since, up to StallTicks
  shown,         \* g_shown: what the driver believes is on the screen
  taken,         \* g_frame: the frame the driver took
  todo,          \* the cells of its loop the driver has not reached
  overpainted    \* history: Ring 0 painted under a live driver, which was
                 \* painting too or whose cache no longer matches the screen

vgaVars == <<presents, frame, screen, framePending, frameAge, shown, taken,
             todo, overpainted>>

Frames == [Cells -> Glyphs]

VgaTypeOK ==
  /\ presents \in 0..MaxFrames
  /\ frame \in Frames /\ screen \in Frames
  /\ shown \in Frames /\ taken \in Frames
  /\ framePending \in BOOLEAN
  /\ frameAge \in 0..StallTicks
  /\ todo \in SUBSET Cells
  /\ overpainted \in BOOLEAN

VgaInit ==
  /\ presents = 0
  /\ \E g \in Glyphs : frame = [c \in Cells |-> g]
  /\ screen = frame /\ shown = frame /\ taken = frame
  /\ framePending = FALSE
  /\ frameAge = StallTicks
  /\ todo = {}
  /\ overpainted = FALSE

(* present: vga_route_frame hands the frame to the driver, else Ring 0 paints.*)
Present(f) ==
  /\ inCall = "none"
  /\ presents < MaxFrames
  /\ presents' = presents + 1
  /\ frame' = f
  /\ IF Owned("vga")
     THEN /\ framePending' = TRUE
          /\ frameAge' = IF framePending THEN frameAge ELSE 0
          /\ proc' = Woken("vga", proc)
          /\ screen' = screen
     ELSE /\ screen' = f
          /\ UNCHANGED <<framePending, frameAge, proc>>
  /\ UNCHANGED <<shown, taken, todo, overpainted>>
  /\ UNCHANGED <<owner, handedOff, respawns, pid, left, inCall, checkAge>>

(* OS_DEV_OP_VGA_CLAIM: the new owner is asked to paint the current frame; it *)
(* first reads what is on the screen.                                         *)
VgaClaim ==
  /\ HostClaim("vga", "snap")
  /\ framePending' = TRUE
  /\ todo' = Cells
  /\ overpainted' = FALSE
  /\ UNCHANGED <<presents, frame, screen, frameAge, shown, taken>>

NextCell(c) == c \in todo /\ \A e \in todo : c <= e

VgaSnapshot ==
  \E c \in todo :
    /\ NextCell(c)
    /\ UserStep("vga", "snap", IF todo = {c} THEN "loop" ELSE "snap")
    /\ shown' = [shown EXCEPT ![c] = screen[c]]
    /\ todo' = todo \ {c}
    /\ UNCHANGED <<presents, frame, screen, framePending, frameAge, taken,
                   overpainted>>

VgaEnter == EnterWait("vga", framePending) /\ UNCHANGED vgaVars

VgaSleep == FallAsleep("vga") /\ UNCHANGED vgaVars

VgaResume == Resume("vga", framePending) /\ UNCHANGED vgaVars

(* devsvc_vga_take, with interrupts disabled: the frame of this moment.       *)
VgaTake ==
  /\ LeaveCall("vga", IF framePending THEN "work" ELSE "loop")
  /\ framePending' = FALSE
  /\ IF framePending THEN taken' = frame /\ todo' = Cells
                     ELSE UNCHANGED <<taken, todo>>
  /\ UNCHANGED <<presents, frame, screen, frameAge, shown, overpainted>>

(* The driver's paint loop, one cell.                                         *)
VgaPaint ==
  \E c \in todo :
    /\ NextCell(c)
    /\ UserStep("vga", "work", IF todo = {c} THEN "loop" ELSE "work")
    /\ screen' = IF shown[c] # taken[c]
                 THEN [screen EXCEPT ![c] = taken[c]] ELSE screen
    /\ shown' = [shown EXCEPT ![c] = taken[c]]
    /\ todo' = todo \ {c}
    /\ UNCHANGED <<presents, frame, framePending, frameAge, taken, overpainted>>

VgaDie ==
  /\ HostDie("vga")
  /\ todo' = {}
  /\ UNCHANGED <<presents, frame, screen, framePending, frameAge, shown, taken,
                 overpainted>>

\* Mutant: Ring 0 does not repaint.
M_VgaSupervise ==
  /\ HostSupervise("vga")
  /\ framePending' = (framePending /\ ~Owned("vga"))
  /\ UNCHANGED <<presents, frame, screen, frameAge, shown, taken, todo, overpainted>>

(* device_supervise: a dead owner is forgotten and Ring 0 paints the frame.   *)
VgaSupervise ==
  /\ HostSupervise("vga")
  /\ IF Owned("vga") THEN framePending' = FALSE /\ screen' = frame
                     ELSE UNCHANGED <<framePending, screen>>
  /\ UNCHANGED <<presents, frame, frameAge, shown, taken, todo, overpainted>>

(* devsvc_watchdog and the owner check: a frame not taken for StallTicks, or  *)
(* whose driver is gone, is painted from Ring 0.                              *)
VgaStalled == Owned("vga") /\ framePending /\ frameAge + 1 >= StallTicks

VgaTick ==
  /\ frameAge' = Older(frameAge, StallTicks)
  /\ framePending' = (framePending /\ ~VgaStalled /\ ~FoundGone("vga"))
  /\ IF VgaStalled \/ FoundGone("vga")
     THEN /\ screen' = frame
          /\ overpainted' = (overpainted \/ (/\ Serving("vga")
                                              /\ (screen # frame \/ todo # {})))
     ELSE UNCHANGED <<screen, overpainted>>
  /\ UNCHANGED <<presents, frame, shown, taken, todo>>

===============================================================================
