------------------------------- MODULE Desktop -------------------------------
(***************************************************************************)
(* The frame loop of the MockOS desktop (mockos/src/game_loop.h) with the  *)
(* taskbar, the windows that it opens and closes, and the task manager.    *)
(* One thread does everything; the user acts on at most one button,        *)
(* closing cross or menu item per frame.                                   *)
(***************************************************************************)
EXTENDS TaskManager

CONSTANTS
  Windows,   \* task manager, info, text editor, theme editor
  MaxDelta   \* how much time a frame may take (a bound)

VARIABLES
  frame,    \* where RunLoop is
  shown,    \* the windows whose flag is set
  kill,     \* Flags::kill
  closing   \* glfwWindowShouldClose

screenVars == <<shown, kill, closing>>
desktop == <<frame, screenVars>>

DesktopInit ==
  /\ TaskInit
  /\ frame = "test" /\ shown = {} /\ kill = FALSE /\ closing = FALSE

Stops == closing \/ kill

(* The loop ends between two frames, and main cleans up.                    *)
EndLoop ==
  /\ frame = "test" /\ Stops
  /\ frame' = "ended"
  /\ UNCHANGED <<taskVars, screenVars>>

(* glfwPollEvents sees the closing of the window; a new frame has begun.    *)
BeginFrame ==
  /\ frame = "test" /\ ~Stops
  /\ frame' = "update"
  /\ closing' \in BOOLEAN
  /\ \E dt \in 1 .. MaxDelta : Elapse(dt)
  /\ UNCHANGED <<shares, walk, performance, shown, kill>>

(* randomize returns at once while its period lasts.                        *)
Randomize ==
  /\ frame = "update"
  /\ IF sinceWalk < WalkPeriod THEN UNCHANGED taskVars ELSE BeginWalk
  /\ frame' = IF sinceWalk < WalkPeriod THEN "metrics" ELSE "walk"
  /\ UNCHANGED screenVars

Walk ==
  /\ frame = "walk"
  /\ SumUp \/ \E d \in -MaxStep .. MaxStep : WalkRow(d)
  /\ frame' = IF resource' = 0 THEN "metrics" ELSE "walk"
  /\ UNCHANGED screenVars

Metrics ==
  /\ frame = "metrics"
  /\ IF sinceMetrics < MetricsPeriod THEN UNCHANGED taskVars ELSE UpdateMetrics
  /\ frame' = "draw"
  /\ UNCHANGED screenVars

Toggled(w) == IF w \in shown THEN shown \ {w} ELSE shown \cup {w}

(* What the user does to the taskbar, which is drawn first, or to a window  *)
(* that is drawn: its closing cross, or Exit in the text editor.            *)
PressPower == kill' = TRUE /\ UNCHANGED shown
PressButton(w) == shown' = Toggled(w) /\ UNCHANGED kill
CloseWindow(w) == shown' = shown \ {w} /\ UNCHANGED kill
NoInput == UNCHANGED <<shown, kill>>

DrawApps ==
  /\ frame = "draw"
  /\ \/ PressPower
     \/ \E w \in Windows : PressButton(w)
     \/ \E w \in shown : CloseWindow(w)
     \/ NoInput
  /\ frame' = "test"
  /\ UNCHANGED <<taskVars, closing>>

RunLoop == EndLoop \/ BeginFrame \/ Randomize \/ Walk \/ Metrics \/ DrawApps

DesktopSpec == DesktopInit /\ [][RunLoop]_<<taskVars, desktop>>

(* The loop never blocks: it polls for events and does not wait for any.    *)
FairDesktop == DesktopSpec /\ WF_<<taskVars, desktop>>(RunLoop)

-----------------------------------------------------------------------------
DesktopTypeOK ==
  /\ TaskTypeOK
  /\ frame \in {"test", "update", "walk", "metrics", "draw", "ended"}
  /\ (frame = "walk") <=> (resource # 0)
  /\ shown \subseteq Windows
  /\ kill \in BOOLEAN /\ closing \in BOOLEAN

(* However the frames fall in time, the shares keep being walked until the  *)
(* desktop ends: no frame takes the next walk for one just done.            *)
KeepsWalking == []<>(frame = "walk" \/ frame = "ended")
=============================================================================
