-------------------------- MODULE TaskManagerProofs --------------------------
(***************************************************************************)
(* The task manager keeps to the capacity of every resource and its bars   *)
(* to the whole, for every table, capacity, step and draw, and for any     *)
(* number of resources.                                                    *)
(***************************************************************************)
EXTENDS Desktop, TLAPS

(* The running sum is exact, and on top of it no column outgrows its room.  *)
TaskInv == TaskTypeOK /\ SumExact /\ WithinCapacity /\ BarsWithinScale

LEMMA TotalNat ==
  ASSUME NEW f \in [Rows -> Nat]
  PROVE  /\ Total(f) \in Nat
         /\ \A i \in Rows : f[i] <= Total(f)
  BY DEF Rows, Total

(* Rounding down: S parts of a \div S make no more than a.                  *)
LEMMA DivBound ==
  ASSUME NEW a \in Nat, NEW S \in Nat \ {0}
  PROVE  a \div S \in Nat /\ S * (a \div S) <= a
  OBVIOUS

(* What each part of a scaled column is, the parts add up to.               *)
LEMMA SharesOfTotal ==
  ASSUME NEW S \in Nat \ {0}, NEW C \in Nat, NEW f \in [Rows -> Nat],
         NEW q \in [Rows -> Nat], Total(f) = S,
         \A i \in Rows : S * q[i] <= f[i] * C
  PROVE  Total(q) <= C
<1>1. /\ S * q[1] <= f[1] * C /\ S * q[2] <= f[2] * C /\ S * q[3] <= f[3] * C
      /\ S * q[4] <= f[4] * C /\ S * q[5] <= f[5] * C
  BY DEF Rows
<1>2. Total(q) \in Nat /\ Total(f) \in Nat
  BY TotalNat
<1>3. S * Total(q) = S * q[1] + S * q[2] + S * q[3] + S * q[4] + S * q[5]
  BY DEF Total, Rows
<1>4. Total(f) * C = f[1] * C + f[2] * C + f[3] * C + f[4] * C + f[5] * C
  BY DEF Total, Rows
<1>5. S * Total(q) <= S * C
  <2>1. /\ S * q[1] \in Int /\ S * q[2] \in Int /\ S * q[3] \in Int
        /\ S * q[4] \in Int /\ S * q[5] \in Int
        /\ f[1] * C \in Int /\ f[2] * C \in Int /\ f[3] * C \in Int
        /\ f[4] * C \in Int /\ f[5] * C \in Int
    BY DEF Rows
  <2> QED
    BY <1>1, <1>3, <1>4, <2>1
<1> QED
  BY <1>2, <1>5

LEMMA ScaledFits ==
  ASSUME NEW column \in [Rows -> 0 .. Capacity]
  PROVE  Scaled(column) \in [Rows -> 0 .. Capacity] /\ Total(Scaled(column)) <= Capacity
<1> USE TaskManagerAssumption
<1>1. column \in [Rows -> Nat]
  OBVIOUS
<1>2. Total(column) \in Nat
  BY <1>1, TotalNat
<1>3. CASE Total(column) <= Capacity
  BY <1>2, <1>3 DEF Scaled
<1>4. CASE Total(column) > Capacity
  <2> DEFINE S == Total(column)
             q == [i \in Rows |-> (column[i] * Capacity) \div S]
  <2>1. S \in Nat \ {0} /\ Scaled(column) = q
    BY <1>2, <1>4 DEF Scaled
  <2> HIDE DEF S
  <2>2. ASSUME NEW i \in Rows
        PROVE  q[i] \in Nat /\ S * q[i] <= column[i] * Capacity
    <3>1. column[i] * Capacity \in Nat
      BY <1>1
    <3>2. q[i] = (column[i] * Capacity) \div S
      OBVIOUS
    <3> QED
      BY <2>1, <3>1, <3>2, DivBound
  <2>3. q \in [Rows -> Nat]
    BY <2>2
  <2> HIDE DEF q
  <2>4. Total(q) <= Capacity
    BY <1>1, <2>1, <2>2, <2>3, SharesOfTotal DEF S
  <2>5. Total(q) \in Nat /\ \A i \in Rows : q[i] <= Total(q)
    BY <2>3, TotalNat
  <2>6. q \in [Rows -> 0 .. Capacity]
    BY <2>3, <2>4, <2>5
  <2> QED
    BY <2>1, <2>4, <2>6
<1> QED
  BY <1>2, <1>3, <1>4

LEMMA InvInit == DesktopInit => TaskInv
<1> SUFFICES ASSUME DesktopInit PROVE TaskInv
  OBVIOUS
<1> USE TaskManagerAssumption DEF DesktopInit, TaskInit
<1>1. PICK table \in Tables : shares = [r \in Resources |-> Scaled(table[r])]
  OBVIOUS
<1>2. \A r \in Resources :
        Scaled(table[r]) \in [Rows -> 0 .. Capacity] /\ Total(Scaled(table[r])) <= Capacity
  <2>1. \A r \in Resources : table[r] \in [Rows -> 0 .. Capacity]
    OBVIOUS
  <2> QED
    BY <2>1, ScaledFits
<1>3. WithinCapacity
  BY <1>1, <1>2 DEF WithinCapacity
<1>4. TaskTypeOK
  BY <1>1, <1>2 DEF TaskTypeOK
<1>5. SumExact /\ BarsWithinScale
  BY DEF SumExact, BarsWithinScale
<1> QED
  BY <1>3, <1>4, <1>5 DEF TaskInv

-----------------------------------------------------------------------------
(* One row of the walk: the change fits the row, and the column.            *)
LEMMA ChangeFits ==
  ASSUME NEW share \in 0 .. Capacity, NEW d \in -MaxStep .. MaxStep,
         sum \in Nat, sum <= Capacity
  PROVE  /\ Change(d, share) \in Int
         /\ share + Change(d, share) \in 0 .. Capacity
         /\ sum + Change(d, share) <= Capacity
  BY TaskManagerAssumption DEF Change, Gain, Loss, Least

(* Changing one row changes the total by as much.                           *)
LEMMA TotalChange ==
  ASSUME NEW f \in [Rows -> Nat], NEW i \in Rows, NEW c \in Int
  PROVE  Total([f EXCEPT ![i] = f[i] + c]) = Total(f) + c
<1> DEFINE g == [f EXCEPT ![i] = f[i] + c]
<1>1. \A j \in Rows : g[j] = IF j = i THEN f[j] + c ELSE f[j]
  OBVIOUS
<1>2. f[1] \in Nat /\ f[2] \in Nat /\ f[3] \in Nat /\ f[4] \in Nat /\ f[5] \in Nat
  BY DEF Rows
<1> HIDE DEF g
<1>3. Total(g) = Total(f) + c
  BY <1>1, <1>2 DEF Total, Rows
<1> QED
  BY <1>3 DEF g

LEMMA InvWalkRow ==
  ASSUME TaskInv, NEW d \in -MaxStep .. MaxStep, WalkRow(d)
  PROVE  TaskInv'
<1> USE TaskManagerAssumption DEF TaskInv
<1> DEFINE share == shares[resource][row]
           change == Change(d, share)
<1>1. resource \in Resources /\ row \in Rows /\ sum = Total(shares[resource])
  BY DEF TaskTypeOK, SumExact, WalkRow, Resources, Rows
<1>2. /\ shares[resource] \in [Rows -> 0 .. Capacity]
      /\ shares[resource] \in [Rows -> Nat]
  BY <1>1 DEF TaskTypeOK
<1>3. share \in 0 .. Capacity /\ sum \in Nat /\ sum <= Capacity
  BY <1>1, <1>2 DEF WithinCapacity, TaskTypeOK
<1>4. /\ change \in Int /\ share + change \in 0 .. Capacity
      /\ sum + change <= Capacity
  BY <1>3, ChangeFits
<1>5. /\ shares' = [shares EXCEPT ![resource] = [shares[resource] EXCEPT ![row] = shares[resource][row] + change]]
      /\ sum' = sum + change
  BY DEF WalkRow
<1> HIDE DEF change
<1>6. Total([shares[resource] EXCEPT ![row] = shares[resource][row] + change]) = sum + change
  BY <1>1, <1>2, <1>4, TotalChange
<1>7. shares'[resource] = [shares[resource] EXCEPT ![row] = shares[resource][row] + change]
  BY <1>1, <1>5 DEF TaskTypeOK
<1>8. shares'[resource] \in [Rows -> 0 .. Capacity]
  BY <1>2, <1>4, <1>7
<1>9. shares' \in [Resources -> [Rows -> 0 .. Capacity]]
  BY <1>1, <1>5, <1>7, <1>8 DEF TaskTypeOK
<1>10. Total(shares'[resource]) = sum' /\ sum' <= Capacity
  BY <1>4, <1>5, <1>6, <1>7
<1>11. sum' \in Nat
  <2>1. shares'[resource] \in [Rows -> Nat]
    BY <1>8
  <2> QED
    BY <1>10, <2>1, TotalNat
<1>12. WithinCapacity'
  BY <1>1, <1>5, <1>10 DEF WithinCapacity, TaskTypeOK
<1>13. SumExact'
  BY <1>1, <1>10 DEF SumExact, WalkRow, Rows, Resources
<1>14. TaskTypeOK' /\ BarsWithinScale'
  <2>1. resource' \in 0 .. NumResources /\ row' \in 0 .. 5
    BY <1>1 DEF WalkRow, Resources, Rows
  <2> QED
    BY <1>9, <1>11, <2>1 DEF TaskTypeOK, BarsWithinScale, WalkRow, performance, ages
<1> QED
  BY <1>12, <1>13, <1>14

LEMMA InvSumUp == TaskInv /\ SumUp => TaskInv'
<1> SUFFICES ASSUME TaskInv, SumUp PROVE TaskInv'
  OBVIOUS
<1> USE TaskManagerAssumption DEF TaskInv, SumUp, performance, ages
<1>1. resource \in Resources
  BY DEF TaskTypeOK, Resources
<1>2. shares[resource] \in [Rows -> Nat]
  BY <1>1 DEF TaskTypeOK
<1>3. sum' \in Nat /\ sum' = Total(shares[resource])
  BY <1>2, TotalNat
<1> QED
  BY <1>3 DEF TaskTypeOK, SumExact, WithinCapacity, BarsWithinScale

(* The bars are positive, so that each is a part of their sum.              *)
LEMMA InvUpdateMetrics == TaskInv /\ UpdateMetrics => TaskInv'
<1> SUFFICES ASSUME TaskInv, UpdateMetrics PROVE TaskInv'
  OBVIOUS
<1> USE TaskManagerAssumption DEF TaskInv
<1>1. PICK d \in Draws : bars' = [i \in Rows |-> Bar(Weights[i], d[i])]
  BY DEF UpdateMetrics
<1>2. d \in [Rows -> -Deviation .. Deviation]
  OBVIOUS
<1>3. ASSUME NEW i \in Rows
      PROVE  bars'[i] \in Nat /\ bars'[i] >= LeastBar
  <2>1. d[i] \in Int
    BY <1>2 DEF Deviation
  <2>2. Weights[i] \in Int
    BY DEF Weights, Rows
  <2>3. bars'[i] = Bar(Weights[i], d[i])
    BY <1>1
  <2> HIDE DEF Weights
  <2> QED
    BY <2>1, <2>2, <2>3 DEF Bar, LeastBar
<1>4. bars' \in [Rows -> Nat]
  BY <1>1, <1>3
<1>5. barTotal' \in Nat /\ \A i \in Rows : bars'[i] <= barTotal'
  BY <1>4, TotalNat DEF UpdateMetrics
<1>6. barTotal' # 0
  BY <1>3, <1>4, <1>5 DEF LeastBar, Rows
<1>7. BarsWithinScale'
  BY <1>4, <1>5 DEF BarsWithinScale
<1>8. TaskTypeOK' /\ SumExact' /\ WithinCapacity'
  BY <1>4, <1>5, <1>6 DEF UpdateMetrics, TaskTypeOK, SumExact, WithinCapacity, walk
<1> QED
  BY <1>7, <1>8

LEMMA InvOthers == TaskInv /\ (BeginWalk \/ UNCHANGED taskVars) => TaskInv'
<1> SUFFICES ASSUME TaskInv, BeginWalk \/ UNCHANGED taskVars PROVE TaskInv'
  OBVIOUS
<1> USE TaskManagerAssumption DEF TaskInv, TaskTypeOK, SumExact, WithinCapacity, BarsWithinScale
<1>1. CASE BeginWalk
  BY <1>1 DEF BeginWalk, performance
<1>2. CASE UNCHANGED taskVars
  BY <1>2 DEF taskVars, walk, performance, ages
<1> QED
  BY <1>1, <1>2

LEMMA InvFrame == TaskInv /\ BeginFrame => TaskInv'
<1> SUFFICES ASSUME TaskInv, BeginFrame, NEW dt \in 1 .. MaxDelta, Elapse(dt)
             PROVE  TaskInv'
  BY DEF BeginFrame
<1> USE TaskManagerAssumption DEF TaskInv, BeginFrame, walk, performance
<1>1. sinceWalk' \in 0 .. WalkPeriod /\ sinceMetrics' \in 0 .. MetricsPeriod
  BY DEF Elapse, Least, TaskTypeOK
<1> QED
  BY <1>1 DEF TaskTypeOK, SumExact, WithinCapacity, BarsWithinScale

LEMMA InvNext == TaskInv /\ [RunLoop]_<<taskVars, desktop>> => TaskInv'
<1> SUFFICES ASSUME TaskInv, [RunLoop]_<<taskVars, desktop>> PROVE TaskInv'
  OBVIOUS
<1>1. CASE EndLoop \/ DrawApps \/ UNCHANGED <<taskVars, desktop>>
  BY <1>1, InvOthers DEF EndLoop, DrawApps
<1>2. CASE BeginFrame
  BY <1>2, InvFrame
<1>3. CASE Randomize
  BY <1>3, InvOthers DEF Randomize
<1>4. CASE Walk
  BY <1>4, InvSumUp, InvWalkRow DEF Walk
<1>5. CASE Metrics
  BY <1>5, InvOthers, InvUpdateMetrics DEF Metrics
<1> QED
  BY <1>1, <1>2, <1>3, <1>4, <1>5 DEF RunLoop

LEMMA Invariant == DesktopSpec => []TaskInv
  BY InvInit, InvNext, PTL DEF DesktopSpec

(* task_manager.cpp never shows a resource used beyond its capacity.        *)
THEOREM NeverOverCapacity == DesktopSpec => []WithinCapacity
<1>1. TaskInv => WithinCapacity
  BY DEF TaskInv
<1> QED
  BY <1>1, Invariant, PTL

(* updateMetrics always leaves five parts of one whole.                     *)
THEOREM BarsArePartsOfOne == DesktopSpec => []BarsWithinScale
<1>1. TaskInv => BarsWithinScale
  BY DEF TaskInv
<1> QED
  BY <1>1, Invariant, PTL

-----------------------------------------------------------------------------
(* The frame loop around it.                                                *)

ScreenOK ==
  /\ frame \in {"test", "update", "walk", "metrics", "draw", "ended"}
  /\ (frame = "walk") <=> (resource # 0)
  /\ shown \subseteq Windows
  /\ kill \in BOOLEAN /\ closing \in BOOLEAN

LEMMA ScreenStep ==
  ASSUME ScreenOK, [RunLoop]_<<taskVars, desktop>>
  PROVE  ScreenOK'
<1> USE DEF ScreenOK, screenVars
<1>1. CASE EndLoop \/ BeginFrame
  BY <1>1 DEF EndLoop, BeginFrame, taskVars, walk
<1>2. CASE Randomize
  BY <1>2 DEF Randomize, BeginWalk, taskVars, walk
<1>3. CASE Walk
  BY <1>3 DEF Walk
<1>4. CASE Metrics
  BY <1>4 DEF Metrics, UpdateMetrics, taskVars, walk
<1>5. CASE DrawApps
  <2>1. shown' \subseteq Windows /\ kill' \in BOOLEAN
    BY <1>5 DEF DrawApps, PressPower, PressButton, Toggled, CloseWindow, NoInput
  <2> QED
    BY <1>5, <2>1 DEF DrawApps, taskVars, walk
<1>6. CASE UNCHANGED <<taskVars, desktop>>
  BY <1>6 DEF taskVars, walk, desktop
<1> QED
  BY <1>1, <1>2, <1>3, <1>4, <1>5, <1>6 DEF RunLoop

(* Every variable of game_loop.h and of the task manager keeps its type,    *)
(* and a walk that has begun is over before the frame goes on.              *)
THEOREM DesktopTypes == DesktopSpec => []DesktopTypeOK
<1>1. DesktopInit => ScreenOK
  BY DEF DesktopInit, TaskInit, ScreenOK
<1>2. ScreenOK /\ [RunLoop]_<<taskVars, desktop>> => ScreenOK'
  BY ScreenStep
<1>3. TaskInv /\ ScreenOK => DesktopTypeOK
  BY DEF TaskInv, ScreenOK, DesktopTypeOK
<1> QED
  BY <1>1, <1>2, <1>3, Invariant, PTL DEF DesktopSpec
=============================================================================
