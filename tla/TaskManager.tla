----------------------------- MODULE TaskManager -----------------------------
(***************************************************************************)
(* The task manager of MockOS (mockos/src/apps/task_manager.cpp): a table  *)
(* of five processes and their shares, in per cent, of each resource,      *)
(* scaled at first and changed at random twice a second, and five bars of  *)
(* performance drawn anew every second.  One row of the walk is one step.  *)
(***************************************************************************)
EXTENDS Integers

CONSTANTS
  NumResources,   \* length of `resources`: 5 in the code
  Tables,         \* the contents that inputVector may have
  Capacity,       \* 100 in the code
  MaxStep,        \* the largest change of a share: 5 in the code
  Draws,          \* the random deviations of the five bars
  WalkPeriod,     \* the two refresh periods, in any unit of time: half a
  MetricsPeriod   \* second and a second in the code

Resources == 1 .. NumResources
Rows == 1 .. 5

(* Bars are counted in units of 1/1100, in which `weights` / totalWeight,   *)
(* the deviation of 0.1 and the least value 0.01 are whole numbers.         *)
Weights == <<400, 300, 200, 100, 100>>
Deviation == 110
LeastBar == 11

ASSUME TaskManagerAssumption ==
  /\ NumResources \in Nat \ {0} /\ Capacity \in Nat /\ MaxStep \in Nat
  /\ Tables \subseteq [Resources -> [Rows -> 0 .. Capacity]]
  /\ Draws \subseteq [Rows -> -Deviation .. Deviation]
  /\ WalkPeriod \in Nat \ {0} /\ MetricsPeriod \in Nat \ {0}

VARIABLES
  shares,       \* TaskManager::pds, by resource and row
  resource,     \* the resource the walk is at, 0 outside the walk
  row,          \* the row it is at, 0 before the sum is taken
  sum,          \* the local variable of the walk
  bars,         \* TaskManager::performance, not yet divided ...
  barTotal,     \* ... and what it is divided by
  sinceWalk,    \* now - lastTime of randomize, no further than its period
  sinceMetrics  \* the same of updateMetrics

walk == <<resource, row, sum>>
ages == <<sinceWalk, sinceMetrics>>
performance == <<bars, barTotal>>
taskVars == <<shares, walk, performance, ages>>

Total(f) == f[1] + f[2] + f[3] + f[4] + f[5]

(* initialize: a column that adds up to too much is scaled down.            *)
Scaled(column) ==
  IF Total(column) > Capacity
  THEN [i \in Rows |-> (column[i] * Capacity) \div Total(column)]
  ELSE column

TaskInit ==
  /\ \E table \in Tables : shares = [r \in Resources |-> Scaled(table[r])]
  /\ resource = 0 /\ row = 0 /\ sum = 0
  /\ bars = [i \in Rows |-> 0] /\ barTotal = 1
  /\ sinceWalk = 0 /\ sinceMetrics = 0

Least(a, b) == IF a < b THEN a ELSE b

(* Variant: lastTime is set before the comparison, in every frame.          *)
ElapseFromFrame(dt) ==
  /\ sinceWalk' = Least(dt, WalkPeriod)
  /\ sinceMetrics' = Least(dt, MetricsPeriod)

(* Time passes from one frame to the next.                                  *)
Elapse(dt) ==
  /\ sinceWalk' = Least(sinceWalk + dt, WalkPeriod)
  /\ sinceMetrics' = Least(sinceMetrics + dt, MetricsPeriod)

BeginWalk ==
  /\ sinceWalk = WalkPeriod /\ sinceWalk' = 0
  /\ resource' = 1 /\ row' = 0
  /\ UNCHANGED <<shares, sum, performance, sinceMetrics>>

SumUp ==
  /\ resource # 0 /\ row = 0
  /\ sum' = Total(shares[resource]) /\ row' = 1
  /\ UNCHANGED <<shares, resource, performance, ages>>

(* Variant: the room left in the column is not looked at.                   *)
GainWithoutRoom(d, share) == Least(d, Capacity - share)

(* A share grows by no more than the room left to it and to the column, and *)
(* shrinks by no more than there is.                                        *)
Gain(d, share) == Least(d, Least(Capacity - share, Capacity - sum))

Loss(d, share) == Least(-d, share)

Change(d, share) == IF d > 0 THEN Gain(d, share) ELSE -Loss(d, share)

WalkRow(d) ==
  /\ resource # 0 /\ row # 0
  /\ LET change == Change(d, shares[resource][row]) IN
     /\ shares' = [shares EXCEPT ![resource][row] = @ + change]
     /\ sum' = sum + change
  /\ IF row < 5 THEN row' = row + 1 /\ UNCHANGED resource
     ELSE row' = 0 /\ resource' = IF resource < NumResources THEN resource + 1 ELSE 0
  /\ UNCHANGED <<performance, ages>>

(* Variant: a bar may fall as low as its deviation takes it.                *)
BarUnbounded(weight, d) == weight + d

Bar(weight, d) == IF weight + d < LeastBar THEN LeastBar ELSE weight + d

UpdateMetrics ==
  /\ sinceMetrics = MetricsPeriod /\ sinceMetrics' = 0
  /\ \E d \in Draws : bars' = [i \in Rows |-> Bar(Weights[i], d[i])]
  /\ barTotal' = Total(bars')
  /\ UNCHANGED <<shares, walk, sinceWalk>>

-----------------------------------------------------------------------------
TaskTypeOK ==
  /\ shares \in [Resources -> [Rows -> 0 .. Capacity]]
  /\ resource \in 0 .. NumResources /\ row \in 0 .. 5 /\ sum \in Nat
  /\ bars \in [Rows -> Int] /\ barTotal \in Nat \ {0}
  /\ sinceWalk \in 0 .. WalkPeriod /\ sinceMetrics \in 0 .. MetricsPeriod

(* The processes never use more of a resource than there is, not even in    *)
(* the middle of a walk, whatever the table was and whatever is drawn.      *)
WithinCapacity == \A r \in Resources : Total(shares[r]) <= Capacity

(* What makes it inductive: the running sum of the walk stays exact.        *)
SumExact == row # 0 => resource # 0 /\ sum = Total(shares[resource])

(* Every bar is a share of one: none is negative or above the whole.        *)
BarsWithinScale == \A i \in Rows : 0 <= bars[i] /\ bars[i] <= barTotal
=============================================================================
