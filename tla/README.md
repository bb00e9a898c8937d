# A TLA+ model of prosched

prosched is the process scheduler of cpp-os: a console program that simulates a
multi-core machine. A scheduler thread drives a master clock; each simulated
core is a worker thread that executes one cycle of its process per tick; the
console thread creates processes, starts and stops their generation and lists
them. The repository also holds MockOS, a desktop drawn with Dear ImGui.

This directory holds TLA+ modules of the parts that carry the program's logic,
TLC configurations that check them on small instances, and proofs for every
instance of what matters most. Paths below are relative to the repository,
`Sch` is `prosched/src/scheduler/Scheduler.h`, `Wrk` is `.../worker/Worker.h`,
`Prc` is `.../process/Process.h`, `Int` is `prosched/src/commands/Interpreter.hpp`.

## Inventory

| Component | State | Operations | What makes it correct |
|---|---|---|---|
| Scheduler (Sch) | all processes, ready queue, nextPID, `running`, `generatingProcesses`, completions of the tick | Start, Stop, AddProcess, CreateNamedProcess, one loop iteration per tick: generate, trigger the workers, dispatch (FCFS or RR), collect preempted, wake sleepers | no process lost, duplicated or starved; order of the queue; unique PIDs; the tick barrier |
| Worker (Wrk) | current process, preemption slot, ticks signalled and processed, `running` | AssignProcess, PreemptProcess, GetAndClearPreemptedProcess, CheckAndIncrementQuantum, RunCycle, ThreadTask, Stop | one cycle per tick; quantum and delay exact; a process on one core only |
| Process (Prc) | state, instruction index, sleep, delay and quantum counters, core, times, log, program | AddInstruction, ExecuteInstructions, the setters used by the two above | finishes after its last instruction and not before; unrolled program equals the program |
| Interpreter (Int) | memory of 16-bit variables, screen buffer | one handler per keyword; parser; GetRandomStatement | values stay 16-bit, reads do not write, errors do not stop a program |
| Controller | initialised or not, current screen | console commands, process screen, report file | commands reach the scheduler they are meant for |
| Configuration | values of config.txt | read the file, build the context | values within their ranges |
| Task manager (MockOS) | resource shares of the listed processes, bars of performance, times of the last refresh | scale at first, then a random walk; bars drawn anew | a resource is never used beyond 100 %, bars stay within their scale, refreshes go on |
| MockOS desktop | window flags, `kill`, closing | the frame loop: update, draw, buttons | refreshes are not disturbed by frames or windows |
| View, text and theme editors, start-up screen | text buffers, colours | draw | (drawing only) |

Interactions. The console thread calls the scheduler under `schedulerMutex`
(processes, queue, nextPID). The scheduler thread takes `schedulerMutex` to
dispatch and to wake sleepers, and each `workerMutex` to look at a core. A
worker holds its `workerMutex` during a cycle and calls back into
`NotifyWorkerDone`, which takes `tickMutex`. The order is schedulerMutex,
workerMutex, tickMutex. `Process` has no lock of its own: its fields are safe
only because the phases of a tick do not overlap.

Hard behaviours: the barrier (two condition variables, a count, spurious and
lost wakeups, Stop in the middle); lists that a process moves between in
several critical sections; arrivals at any moment; counters that survive
preemption and sleep; restarts that cut a tick short. MockOS has one thread.
`PROJECT.json` lists every hazard with its line
and the properties aimed at it, or the reason why there is none yet.

## Modules

`Scheduler.tla` is the core: Sch, Wrk and Prc from the moment the console starts
the scheduler. One action per operation or loop iteration, so that the console
may act wherever the locks let it. `phase` is the program counter of the
scheduler thread and `at` the counter of its current loop:

| phase | code | actions |
|---|---|---|
| off | before Start | Start |
| generate, commit | GenerateProcessesCycle (Sch 424-433): nextPID is read outside the lock, the push is inside | SkipGeneration, GenerateProcess, CommitGenerated |
| cycle | TriggerWorkersTick, Worker::RunCycle (Wrk 240-277), Process::ExecuteInstructions (Prc 117-180) | RunCycle(w) in any order, WorkersDone |
| quantum | RoundRobin part 1 (Sch 610-616) | CheckQuantum |
| dispatch | FCFS, RoundRobin part 2 (Sch 592-601, 618-626) | Dispatch |
| collect, requeue | CollectPreemptedCycle (Sch 439-453) | CollectPreempted, RequeuePreempted |
| wake | UpdateSleepingProcessesCycle (Sch 459-474) | UpdateSleeping, EndTick |

The console is CreateNamedProcess, AddProcess (two critical sections of
`screen -s`), ResumeGenerating and StopGenerating. An instruction is `EXEC`
or `SLEEP n`: what it computes is not the scheduler's concern. `cpuCycles` is
kept modulo the batch frequency, which is all the loop reads of it.
A tick advances when all workers have run; that this is what the threads really
do is the subject of the next module.

`TickBarrier.tla` models the threads: mutexes, condition variables with
notifications that are lost if nobody waits, spurious wakeups, the unlocked
reads of `running`, Start, Stop with its joins, and ShowScreenProcesses as the
observer that takes `schedulerMutex` and every `workerMutex`.
`Lockstep.tla` is the abstract specification of a tick: every worker owes a
cycle, pays once, and the scheduler's phases come after the last payment unless
the scheduler was halted. TickBarrier implements Lockstep (`RefinesLockstep`),
and Scheduler.tla assumes exactly what Lockstep promises of a running scheduler.

`SchedulerTiming.tla` adds three history variables to Scheduler that measure
turns, gaps and sleeps from outside, without changing what can happen.

`Console.tla` puts the console thread of Controller.cpp on top of Scheduler:
one command at a time, where Scheduler lets its console do anything whenever the
locks allow it. It adds process names, the open process screen, and the two
listings. screen -ls and report-util hold `schedulerMutex` from beginning to
end, look at one core after the other, then at the processes, and print; the
workers, which need only their own lock, go on between any two of these steps,
and the scheduler thread goes on until it needs the lock (`Blocked`).
report-util makes its listing twice, under two locks. generateProcess reads
`nextPID` once for the PID and a second time, without the lock, for the name;
the two reads are two steps (`NameGenerated`), so a `screen -s` may come between.

`Restart.tla` puts Stop and Start on top of Scheduler: Stop at any step of any
thread, with its joins, the deletion of the workers one by one and the emptied
queue; the iteration that Stop cuts short, in which the scheduler's phases meet
workers that have yet to run, are running, or never will; a late cycle that falls asleep in
two steps (WAITING first, the length after), between which the wake-up of
sleepers may come; and a next launch that finds processes in whatever state
they were left. CheckAndIncrementQuantum and PreemptProcess (Sch 613-614) are one step
here as in Scheduler: in between, a late cycle can only empty the core, and the
preemption of an empty core does nothing. `MutexHeld` says which worker holds its
`workerMutex` between two steps.

`Lifecycle.tla` is the abstract specification of what the scheduler promises to
each process, with no queue, core or clock: admitted, dispatched, executing one
instruction at a time, preempted, asleep, finished after the last instruction and never
before. Scheduler implements it (`RefinesLifecycle`), the status being that of
registered processes and the work to do what is left of the program.

`Statements.tla` holds the instruction language but for loops, as operators: what
each statement does to memory and screen. A text is a sequence of tokens. An
operand is one token, reduced to what the conversions tell apart (word, unsigned,
signed, empty); the argument of a PRINT is a longer text, which executePrint scans
for a plus sign each time it runs (Int 479-498), inside quotes too. The integer
widths are constants, so that small numbers already wrap and overflow.
`ProcessCycles.tla` runs one process with it (Prc 117-180), one plain statement
per cycle. `Interpreter.tla` adds what is recursive: executing a FOR in one go,
unrolling it in AddInstruction, and what GetRandomStatement may produce for a
process of a given name: the name becomes part of the greeting that a PRINT
prints, and screen -s takes any name without a space. The
statements are the nodes of trees, given as a constant `Nodes` with the height
`Nesting` of each, and what the code does by recursion is a recursive function
on them, built from an operator for one level (`ExecuteStatement` of `Executed`,
`AddInstruction` of `Unrolled`, `Draw` of `RandomStatements`). Executing is a
function from the memory before to the memory and the lines of output after.
`ProcessRun.tla` puts them together: it unrolls one of the programs `Trees` and
leaves the rest to ProcessCycles, whose specification it implements
(the theorem `UnrollingLeavesPlain`).

`Parser.tla` is the parser of Int (161-369): splitting at commas outside
brackets, keywords, arguments, the recursion into the body of a FOR. The operators
scan for single symbols as the code scans for characters, inside quotes too.
`ProcessText.tla` puts it in front of ProcessRun: each program that can be written
down (`Writable`) is written down and parsed (`ParsedAsWritten`).

`Configuration.tla` goes from the lines of config.txt to the context
(Config.h 64-106, Context.h 25-48), and on to the two remainders the
scheduler computes from unchecked values (Sch 331 and 365, 425). It is where
the assumptions that Scheduler.tla makes of its constants come from.

`TaskManager.tla` is MockOS's task manager (task_manager.cpp), one row of the
walk per step, and `Desktop.tla` the frame loop around it (game_loop.h), with the
taskbar and the windows the user opens and closes. Bars are counted in parts of
1/1100, in which the weights and bounds of the code are whole numbers.

`MCScheduler`, `MCSchedulerTiming`, `MCRestart`, `MCConsole`, `MCProcessRun`,
`MCConfiguration` and `MCDesktop` give instances for TLC. Theorems are in
`SchedulerProofs`, `TimingProofs`, `RestartProofs`, `ConsoleProofs`,
`BarrierProofs` (TickBarrier), `TaskManagerProofs` (TaskManager and Desktop),
`ConfigurationProofs` and `ProcessProofs` (Statements, Interpreter,
ProcessCycles and ProcessRun).

Definitions introduced by "Variant" in a comment are deliberately wrong
alternatives of the definition after them; nothing uses them but the mutation
check, which swaps one in and expects the named property to fail.

## Runs

| Run | Instance | What it shows |
|---|---|---|
| sched_rr | RR, 2 cores, 3 processes, quantum 2, generation every 2nd tick; about 800,000 states | `Placement`, the invariant of the proofs: no process is lost or in two places, slots are collected in time, newcomers kept apart; none is overtaken; dispatch leaves no core idle beside a queued process; wakeups enter behind arrivals and preemptions; first dispatches in order; every process lives the life of Lifecycle |
| sched_fcfs | FCFS, 2 cores, 3 processes, delay 1, empty programs included; about 318,000 states | no core time without work; nobody oversleeps |
| sched_timing | RR, 1 core, 3 processes, quantum 3, delay 1; about 240,000 states | quantum, delay and sleep last exactly as configured across preemptions and turns |
| restart | RR, 1 core, 2 processes, quantum 1, delay 1, up to 2 stops; about 433,000 states | after every Stop the next launch starts clean, and every process finishes but those a Stop dropped |
| tick_barrier | 3 workers, 3 ticks per launch, unlimited restarts; about 24,000 states | one cycle per tick, exact count, phases apart, ticks served, Stop returns, no deadlock, refinement of Lockstep |
| process_run | programs of up to 3 of 25 statements, and generated ones for three names; about 102,000 states | programs come out of the parser as written; unrolled execution equals interpretation; reads leave values alone; a statement fails by its text alone, and failures are logged; generated programs never fail, but for a name with digits too large behind a plus sign |
| console | RR, 2 cores, 2 processes, quantum 1, one finished process shown; about 2,850,000 states | generated names are distinct; no listing shows a process on two cores; after the work is done and generation stopped, every listing shows no busy core and every process finished, and the file repeats the screen |
| desktop | 2 resources of 5 rows, capacity 2, steps of up to 2, periods of 2 and 3, frames of 1 or 2; about 608,000 states | shares within capacity at every step, bars within scale, the walk goes on |
| configuration | files of 7 to 9 lines with a wrong, missing or doubled line, and the empty file; about 142,000 states | a documented file gives a fitting context, no remainder by zero, and program lengths within the limits |

Each of these finishes within two minutes. Three more runs are meant to fail:
each checks one sentence of a comment or test of the repository, and the
counterexample shows that the code does something else.

| Run | Sentence | What the code does |
|---|---|---|
| find_pids | "the next available PID" (Sch 350-351) | the unlocked read at Sch 426 gives two processes one PID |
| find_stamp | finish time "empty if not yet finished" (Prc 272) | a process whose last instruction sleeps finishes at Sch 466 without a time |
| find_smi | "finished processes are not reattachable" (tests/manual/test_03_screen_r.txt 41-45) | process-smi prints "Finished!" as soon as the last instruction has begun; while that is a SLEEP, screen -r finds the process |

Three disagreements follow from what the models say and have no run of their own. Of a
named process the manual tests expect "Hello world from myproc!", with the name in
its place (tests/manual/test_02_screen_s.txt:26, test_08_screen_s_named.txt:54);
executePrint looks for a plus sign in that literal too (Int 483), so a process
named `a+7` prints 7 and nothing of the text. A
test says that under FCFS a process "keeps its core until it finishes"
(tests/manual/test_10_fcfs_order.txt:10); SLEEP gives up the core, and the theorem
`WakersGoLast` says that under every algorithm the process then queues last. A
comment says that "the entire loop body executes within that single call"
(tests/ProcessTest.cpp:527-528); loops are unrolled when added, and each step of
ProcessRun executes one statement.

Left out on purpose: the comment at Sch 491-492 says TriggerWorkersTick blocks
"until all worker threads have completed"; under Stop it returns early, which
Lockstep states (Serve is allowed once halted), PhasesApart excludes and
Restart explores.

Bounds. Three processes let one run, one wait and one sleep or arrive, and two
cores are the least on which a process can change cores or be duplicated. A
quantum of 2 or 3 separates "first cycle", "middle" and "last"; delays are 0
and 1; sleeps are 0, 1 and 2, so that both sides of every comparison occur.
`Procs` bounds the processes ever constructed: when none is left the model
generates none, while the CLI simply does not create one. MaxTicks = 3 ticks
per launch cover a first, a middle and a last one; Stop may come at any step of
any of them, and a launch after Stop starts from whatever was left over.
In console the user types
one name, so that names collide, and one finished process is shown of two, so
that the code's limit of ten is passed.
MaxCount = 6 stops the timing counters above every legal value (3). Processes
are interchangeable, so the safety runs use symmetry; the liveness runs do not.

In restart the second launch starts from what the first left over and the third from
what two stops did; one core is enough, since what a Stop cuts apart is the
scheduler thread and a worker, and with quantum 1 and delay 1 every turn has a
preemption and every instruction a wait. In desktop two resources let the walk
go from one to the next, and the tables are empty, partly full, too full and full of
one process; periods of 2 and 3 differ from each other and from the frames. In
configuration IntMax = 7 and RandMax = 4 make numbers that no int holds and
remainders that wrap; MaxCycle = 2 ticks reach a tick that generates and one that
does not. In process_run there are literals with commas, with brackets, one of
them unbalanced (which ParsedAsWritten leaves out), and with a plus sign (which
it does not); Modulus = 4, IntMax = 6 and LongMax = 8 make
numbers that wrap and that fit one conversion and not the other; generated
programs have the smallest and the largest number, two variables, loops of one
or two rounds with one statement in them, two levels deep, and the three names are a
plain one, one with a plus sign before a number, and one before a number that no
unsigned long holds. The programs of sched_rr are a plain run longer than the
quantum, a sleep in the middle, and sleeps at the beginning and at the end.

Deadlock is checked in all of the scheduler's runs and in console. It is
switched off where the system stops: process_run (the process has finished),
desktop (the desktop has ended) and configuration (a fault, or the bound on
ticks).

Fairness. In `FairRestart` the scheduler thread and every worker thread keep
running: each is a loop that blocks only on what the others signal, on an
operating system that schedules runnable threads; Stop, once called, goes on.
Nobody has to call anything, and SurvivorsFinish is about the behaviours in
which Stop is called no more, which the bound on stops enforces anyway. In
TickBarrier the threads are fair in the same way, the calling thread only within
a call of Stop or ShowScreenProcesses, and a spurious wakeup is never owed.
`FairDesktop` is weak fairness of the frame loop, which polls and never blocks.

In restart the bound on `Procs` is also what ends the arrivals. That weakens
SurvivorsFinish little: the queue is served in order (NoOvertaking), so
arrivals never come before a process that is queued, and re-queued processes
wait for at most those ahead of them.

## Proofs

`SchedulerProofs` proves `TypeCorrect`: `Spec => []TypeOK`, from
`SchedulerAssumption` alone (at least one core, any integer quantum, any natural
delay, a positive batch frequency, statements as given). The loop counter is
part of it: `at` indexes the cores and the list of processes within bounds.

It goes on to `AtMostOnePlace` and `NoneLost`, for any number of
cores and processes. Neither is inductive. A core is preempted into a slot only
if that slot is empty, which `SlotsCollected` says: filled slots exist only
between the quantum check that fills them and the collection that empties
them. A push onto the queue is safe only if the process is nowhere yet, which for
arrivals is `NewcomersApart`: what generateProcess and CreateNamedProcess have
built is registered nowhere and READY. `Placement` conjoins the four; the proof
takes one lemma per action, and under it one step for each part the action can
disturb, on top of lemmas about membership in `Append`, `Tail` and `\o`, about
filling and clearing a slot, and about each way to move a process between two
places (Enqueue, QueueToCore, CoreToSlot, SlotToBatch, BatchToQueue), which
RestartProofs uses again. TLC checks `Placement` in sched_rr, where preemption
fills slots and the list of preempted processes.

Its second part is about the life of a process. `NoIdleDispatch` (EnlistedHasWork)
needs `WorkInv`, which says of each process how its index relates to its program by
its state: a sleeping process may be at the end, a READY one with a program is
not. `NoOversleeping` needs `SleepInv`: within the wake-up loop, the processes
already passed owe another tick. `ImplementsLifecycle` is `Spec =>
RefinesLifecycle`, one lemma per kind of step: a step of any thread registers a
process, dispatches, preempts, executes, wakes or finishes one, or
leaves every status and every remaining program alone.

Its third part is the order of service. `NobodyOvertakes` and `WakersGoLast`
are action properties that follow from `Placement` and type correctness: a queue
without repetitions that only loses its head and gains at its end keeps its
order. `FirstComeFirstServed` needs `OrderInv`: a process that has had no core is in the
queue, and such processes are queued in the order in which they were registered.
`NoCoreIdles` needs `BusyInv`: while processes are queued, the cores that the dispatch
loop has passed are busy. It is about the queue at dispatch: a process preempted in a
tick is requeued after that tick's dispatch, and a core may stay idle beside it
until the next.

`TimingProofs` proves the three timing properties, `QuantumExact`, `DelayExact` and
`SleepExact`, for any quantum, delay and sleep. The counters of the code and the
history variables that measure from outside are related by an equation in each
state: the quantum counter is the length of the turn, or one less between a
cycle and its quantum check; what is left of a delay and what has passed of it
make the whole; so do what is left of a sleep and what has passed. `TimingAssumption`
only says that the bound on the history variables is beyond every legal value.

`RestartProofs` proves `RestartTypes` and `LaunchIsClean` for any number of cores
and of stops. `Placement` is false here: between a Stop and the end of the iteration
it cuts short, a process may be queued and on a core at once. `PlacesInv` says what
survives (slots are collected in time, newcomers stay apart, what was dropped has
no place), `StagesInv` which workers exist in which stage of Stop and that a deleted
one holds nothing, and `FallingInv` that a late cycle caught between WAITING and
the length of its sleep still owns its process and has work left. `CleanInv` is one process, one place where the order
still holds or has come back, which it does when Stop empties the queue.

`ConsoleProofs` proves first that the console is one of the environments of
Scheduler (`ConsoleIsScheduler`: `ConsoleSpec => Spec`), so that `Placement` may be
used in it. `NamesDistinct` rests on what nextPID was at both of its reads: it
only grows, so a name drawn later is another one. `NothingListedTwice` compares
the cores already copied with the cores as they are: a listing holds
`schedulerMutex`, so a core may lose its process meanwhile but not get one.
`ListingsAgree` needs that a drained system stays so until the console itself
makes something new, and that counting, collecting and printing then see the
same lists.

`BarrierProofs` proves the tick barrier for any number of workers and ticks:
`BarrierTypes`, `TicksExact`, `CountExact`, `PhasesExclusive` and
`ImplementsLockstep`. The invariant `BarrierInv` relates the three clocks: no
worker is more than one tick behind `cpuCycles`, its signal lies between, and which
workers have been signalled is what the program counter of the scheduler
thread says. The count is the delicate part: it is exact while the scheduler
waits, stale after a restart, and may be added to after a Stop; what is
invariant is that outside the reset it is exact or nobody is left to add to it.

`TaskManagerProofs` proves `NeverOverCapacity`, `BarsArePartsOfOne` and
`DesktopTypes` for any table, capacity, step and number of resources. The walk's
running sum must be exact (`SumExact`), or the room left to a column would be taken
twice; the initial scaling rounds down, and its lemma shows that the parts then
make no more than the whole. `DesktopTypes` says of the frame loop that a walk once
begun is over before the frame goes on; it is proved and not in a run.

`ConfigurationProofs` proves `ConfigTypes`, `DocumentedContext` and `LengthsFit` for
any set of files and any width of int. `ConfigTypes`, which no run repeats, says
that each value fits an int whatever a file says and however often.
`FilesAssumption` says that a file is a sequence of lines, no more. The invariant `ReadInv` says of every key that it
holds what the last of the lines read so far says; the properties speak of
the last line of the whole file, which is the same once the file is read. The
length of a program is then within the limits because the remainder by a positive
span is below it.

`ProcessProofs` proves `VariablesFit`, `OnlyTargetsChange` and `FailuresLogged` for
every program of plain statements and all widths. Each is a lemma for every
handler of the interpreter (what it does to memory, what it says), built from
those for Say, Store, Touch and Resolve. `FailuresLogged` is about statements that
fail by their text (`Fails`). One that lacks operands (`Incomplete`) is passed over
without a line in the log, although the comments above executeDeclare and
executeAdd (Int 502, 521) call that a failure.

Its second part is about loops, for every program with loops nested to any depth.
`UnrollingLeavesPlain` is `Spec => CyclesSpec`, by which the three
theorems above hold of every program. `RunsInSteps` is `Spec => []RunsAsInterpreted`: a
process that executes the unrolled program one statement per cycle, with sleeps in between,
logs what the interpreter prints for the program in one go and ends with the
same memory. `GeneratedClean` is `Spec => []GeneratedRunsClean`, for any set of
names: a generated statement can only fail in the greeting, and there only if the
name has a plus sign before digits that no unsigned long holds, which its premise
`GreetingReads` excludes (the third name of the run is such a one). The argument
has four layers:

- Induction. That a set which has zero and all successors holds every number
  (`NatSet`) follows from the well-foundedness of `<`; from it the same for sets
  of sequences (`SeqSet`) and for sets of statements with all their nested
  statements (`NodeSet`, by `Nesting`). A statement about all programs is
  proved as membership in such a set.
- Recursion. `Recursion` (along a sequence) and `TreeRecursion` (on the statements
  below a statement) show that the functions which the definitions choose
  exist; `UnrolledIs`, `ExecutedIs`, `PartsIs`, `RandomIs`, `FlattenParts` and `RunExists` then give
  their equations.
- Programs. `UnrolledIn`: what comes out of a set of statements that holds all nested ones
  are its plain statements. `RunBoth`: executing two sequences in turn is
  executing their concatenation. `CountsAlike`: within `WithinLimits`, stoi and the uint16_t of
  executeFor read the same count. Together, `UnrolledStatement` and `UnrolledProgram`:
  unrolled, a program does what it did.
- Cycles. `RunInv`, the inductive invariant: memory and log, without what the
  sleeps put into it, are what the interpreter leaves after the first `index`
  unrolled statements. RunsAsInterpreted is not inductive by itself, as it says
  nothing of memory before the end.

`NodesAssumption` says that a statement is plain or a FOR whose nested
statements are statements of less height: every finite tree is.
`DrawnAssumption` says that numbers drawn fit 16 bits.

All proofs use SMT and Zenon, and LS4 for temporal steps. One axiom of the SMT
translation of TLAPS 1.4.5 says more than it should: it equates
`DOMAIN s = 1 .. n` with `Len(s) = n` for every value, sequence or not. Every
leaf is also proved with that axiom weakened to the direction that holds (from
the domain to the length), some in more time, so no theorem rests on the excess.

Only model-checked: liveness (TickServed, StopReturns, SurvivorsFinish,
KeepsWalking), which is out of the prover's reach; and `ParsedAsWritten`, since
the parser and the writing of programs are recursive operators, which no theorem may use.

## Not modelled

- Dear ImGui, vendored under mockos/thirdparty, is nine tenths of the repository's
  lines; it is a library that this program uses for drawing. Of the repository's
  own C++, the modules cover what has state or decides something.
- Pure input and output: View, the start-up screen and its animation, clock and
  system information, window drawing, the colours of the theme editor, the text
  buffer of the text editor, printed messages, time formatting, SaveLogsToFile.
- Controller: splitting a command line into words (Controller.cpp 87-139,
  356-387), the keys and the scrolling of the process screen and its log, a
  missing config file, clear, and exit, which ends the program at once.
- The free-running mode of ThreadTask (Wrk 300-309), which only tests use.
- Parser: operands of more than one token, but the argument of a PRINT.
- The first and last character of an empty text, which executePrint looks at
  (Int 487, 490) and the language leaves undefined: taken for no quote, as what a
  std::string holds there is a zero.
- The memory sizes of config.txt, which nothing uses; makeDefault, which nobody calls.
- Data races on plain `bool` and `int` fields are modelled as reads of the
  current value at the moment of the read; races on the log vector and on the
  random generator are not modelled.

## Plan

Done: all modules named above, and a theorem for every safety property of the
passing runs but `ParsedAsWritten`. What could come next: the parser with recursive
functions on texts, as the interpreter has on statements, and the proof that it
reads every program as written; Restart on two cores
in TLC; the process screen with its log and keys; the race on the log vector
between a core and process-smi.
