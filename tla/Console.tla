------------------------------- MODULE Console -------------------------------
(***************************************************************************)
(* The console thread (controller/Controller.cpp) on top of Scheduler: one *)
(* command at a time, where Scheduler lets its CLI do anything at any      *)
(* time; and the two listings, screen -ls and report-util, which read      *)
(* cores and processes one after the other, holding schedulerMutex, while  *)
(* the worker threads go on.                                               *)
(*                                                                         *)
(* A name is the number n of "process<n>"; 0 is a name of another form.    *)
(***************************************************************************)
EXTENDS Scheduler, FiniteSets

CONSTANTS
  Typed,    \* the names the user types (a bound)
  MaxShown  \* how many finished processes screen -ls shows: 10 in the code

ASSUME ConsoleAssumption == Typed \subseteq Nat /\ MaxShown \in Nat

VARIABLES
  console,   \* where the console thread is
  name,      \* Process::processName
  attached,  \* the process whose screen is open
  told,      \* history: processes for which process-smi printed "Finished!"
  page,      \* the listing under way
  screen,    \* the listing report-util printed before the one for the file
  drained    \* history: all work was done when the command began

user == <<console, attached, told>>
listing == <<page, screen, drained>>

(* What a listing has gathered: the process of each core looked at, how     *)
(* many processes it has sorted, the two groups, and the rows printed.      *)
Blank == [cores |-> <<>>, sorted |-> 0, running |-> <<>>, finished |-> <<>>, rows |-> <<>>]

ConsoleInit ==
  /\ Init
  /\ console = "uninitialized" /\ attached = None /\ told = {}
  /\ name = [p \in Procs |-> 0]
  /\ page = Blank /\ screen = Blank /\ drained = FALSE

(* Both listings hold schedulerMutex from beginning to end.                 *)
Listing == console \in {"ls", "report", "file"}

-----------------------------------------------------------------------------
(* Commands.                                                                *)

(* initialize, with a config file there: the scheduler starts at once.      *)
Initialize ==
  /\ console = "uninitialized" /\ Start
  /\ console' = "menu" /\ UNCHANGED <<name, attached, told, listing>>

SchedulerStart ==
  /\ console = "menu" /\ ResumeGenerating /\ UNCHANGED <<user, name, listing>>

SchedulerStop ==
  /\ console = "menu" /\ StopGenerating /\ UNCHANGED <<user, name, listing>>

(* screen -s: create, add, and open the screen of the process.              *)
ScreenS ==
  /\ console = "menu" /\ CreateNamedProcess
  /\ \E n \in Typed : name' = [name EXCEPT ![named'] = n]
  /\ console' = "add" /\ UNCHANGED <<attached, told, listing>>

AddNamed ==
  /\ console = "add" /\ AddProcess
  /\ console' = "screen" /\ attached' = named
  /\ UNCHANGED <<name, told, listing>>

(* FindProcessByName: the first that has the name and has not finished.     *)
Found(n) ==
  {processes[i] : i \in {j \in 1 .. Len(processes) :
     LET matches(k) == name[processes[k]] = n /\ state[processes[k]] # "FINISHED"
     IN  matches(j) /\ \A k \in 1 .. j - 1 : ~matches(k)}}

ScreenR ==
  /\ console = "menu" /\ SchedulerMutexFree
  /\ \E n \in Typed \cup 1 .. nextPID : \E p \in Found(n) : attached' = p
  /\ console' = "screen"
  /\ UNCHANGED <<vars, name, told, listing>>

(* process-smi reads the two numbers without a lock.                        *)
ProcessSmi ==
  /\ console = "screen" /\ index[attached] >= Len(program[attached])
  /\ told' = told \cup {attached}
  /\ UNCHANGED <<vars, console, name, attached, listing>>

LeaveScreen ==
  /\ console = "screen" /\ console' = "menu" /\ attached' = None
  /\ UNCHANGED <<vars, name, told, listing>>

-----------------------------------------------------------------------------
(* Listings.                                                                *)

Quiet ==
  /\ ~generating /\ generated = None
  /\ \A i \in 1 .. Len(processes) : state[processes[i]] = "FINISHED"

(* screen -ls and report-util take schedulerMutex ...                       *)
BeginListing ==
  /\ console = "menu" /\ SchedulerMutexFree
  /\ console' \in {"ls", "report"}
  /\ page' = Blank /\ drained' = Quiet
  /\ UNCHANGED <<vars, name, attached, told, screen>>

(* ... look at the cores, each under its workerMutex ...                    *)
LookAtCore ==
  /\ Listing /\ Len(page.cores) < NumCpu
  /\ page' = [page EXCEPT !.cores = Append(@, current[Len(@)])]
  /\ UNCHANGED <<vars, user, name, screen, drained>>

(* ... and sort the processes by whether they have finished by now.         *)
SortProcess ==
  /\ Listing /\ Len(page.cores) = NumCpu /\ page.sorted < Len(processes)
  /\ LET p == processes[page.sorted + 1] IN
     page' = IF state[p] = "FINISHED"
             THEN [page EXCEPT !.sorted = @ + 1, !.finished = Append(@, p)]
             ELSE [page EXCEPT !.sorted = @ + 1, !.running = Append(@, p)]
  /\ UNCHANGED <<vars, user, name, screen, drained>>

Sorted == Len(page.cores) = NumCpu /\ page.sorted = Len(processes)

(* Variant: everything is shown.                                            *)
AllOf(finished) == finished

MostRecent(finished) ==
  SubSeq(finished, IF Len(finished) > MaxShown THEN Len(finished) - MaxShown + 1 ELSE 1, Len(finished))

(* screen -ls shows the cores it saw and the last of the finished.          *)
EndLs ==
  /\ console = "ls" /\ Sorted
  /\ page' = [page EXCEPT !.finished = MostRecent(@)]
  /\ console' = "listed"
  /\ UNCHANGED <<vars, name, attached, told, screen, drained>>

(* report-util prints core and progress of each unfinished process, as they *)
(* are by then ...                                                          *)
PrintRow ==
  /\ console \in {"report", "file"} /\ Sorted /\ Len(page.rows) < Len(page.running)
  /\ LET p == page.running[Len(page.rows) + 1] IN
     page' = [page EXCEPT !.rows = Append(@, <<coreNum[p], index[p]>>)]
  /\ UNCHANGED <<vars, user, name, screen, drained>>

EndPage ==
  /\ console \in {"report", "file"} /\ Sorted /\ Len(page.rows) = Len(page.running)
  /\ console' = IF console = "report" THEN "printed" ELSE "saved"
  /\ UNCHANGED <<vars, name, attached, told, listing>>

(* ... and makes the listing again, under a new lock, for the file.         *)
BeginFile ==
  /\ console = "printed" /\ SchedulerMutexFree
  /\ console' = "file" /\ screen' = page /\ page' = Blank
  /\ UNCHANGED <<vars, name, attached, told, drained>>

Return ==
  /\ console \in {"listed", "saved"}
  /\ console' = "menu" /\ page' = Blank /\ screen' = Blank /\ drained' = FALSE
  /\ UNCHANGED <<vars, name, attached, told>>

-----------------------------------------------------------------------------
(* Variant: the listings take no lock.                                      *)
NotBlocked == FALSE

(* The loop cannot get past a lock that a listing holds.                    *)
Blocked ==
  Listing /\ \/ phase \in {"commit", "dispatch", "wake"}
             \/ phase = "requeue" /\ batch # <<>>

Unnamed == generated # None /\ name[generated] = 0

(* generateProcess reads nextPID once more, for the name.                   *)
NameGenerated ==
  /\ Unnamed
  /\ name' = [name EXCEPT ![generated] = nextPID]
  /\ UNCHANGED <<vars, user, listing>>

Loop == SchedulerLoop /\ ~Blocked /\ ~Unnamed /\ UNCHANGED <<user, name, listing>>

Cores == (\E w \in Workers : RunCycle(w)) /\ UNCHANGED <<user, name, listing>>

Commands ==
  \/ Initialize \/ SchedulerStart \/ SchedulerStop \/ ScreenS \/ AddNamed \/ ScreenR
  \/ ProcessSmi \/ LeaveScreen \/ BeginListing \/ LookAtCore \/ SortProcess \/ EndLs
  \/ PrintRow \/ EndPage \/ BeginFile \/ Return

ConsoleNext == Commands \/ NameGenerated \/ Loop \/ Cores

ConsoleSpec == ConsoleInit /\ [][ConsoleNext]_<<vars, user, name, listing>>

-----------------------------------------------------------------------------
(* Properties.                                                              *)

(* Every variable keeps its type, and screen -ls shows no more than         *)
(* MaxShown finished processes.                                             *)
ConsoleTypeOK ==
  /\ TypeOK
  /\ console \in {"uninitialized", "menu", "add", "screen", "ls", "report", "file",
                  "listed", "printed", "saved"}
  /\ name \in [Procs -> Nat] /\ told \subseteq Procs
  /\ attached \in Procs \cup {None} /\ (console = "screen") <=> (attached # None)
  /\ (console = "add") <=> (named # None)
  /\ console = "listed" => Len(page.finished) <= MaxShown

(* Generated processes never share a name, although the number in a name is *)
(* read without the lock and may be another than the PID, when screen -s    *)
(* comes between the two reads of nextPID.                                  *)
GeneratedNamesDistinct ==
  \A p, q \in Procs : name[p] = name[q] /\ name[p] \notin Typed \cup {0} => p = q

(* No listing shows a process on two cores, although each core is looked at *)
(* by itself and the workers go on meanwhile.                               *)
ListedOnce ==
  \A i, j \in 1 .. Len(page.cores) :
    page.cores[i] = page.cores[j] /\ page.cores[i] # None => i = j

Used(pg) == Cardinality({i \in 1 .. Len(pg.cores) : pg.cores[i] # None})
Text(pg) == <<Used(pg), pg.running, pg.rows, pg.finished>>

(* Once the work is done and generation has been stopped, all listings      *)
(* agree: no core is used, every process is listed as finished, and the     *)
(* file repeats the screen (manual tests 05 and 07).                        *)
DrainedListingsAgree ==
  drained =>
    /\ console = "listed" => Used(page) = 0 /\ page.finished = MostRecent(processes)
    /\ console = "saved" =>
         Text(page) = Text(screen) /\ Text(page) = <<0, <<>>, <<>>, processes>>

(* Manual tests 02 and 03: once "Finished!" has appeared in process-smi,    *)
(* screen -r no longer finds the process.                                   *)
FinishedNotReattachable == told \cap UNION {Found(n) : n \in Typed} = {}
=============================================================================
