---------------------------- MODULE ConsoleProofs ----------------------------
(***************************************************************************)
(* The console on top of the scheduler.  One command at a time is less     *)
(* than Scheduler allows its CLI, so that every invariant of Spec holds    *)
(* here; the rest is about names and listings, which relate what the       *)
(* console has seen at different moments.                                  *)
(***************************************************************************)
EXTENDS Console, SchedulerProofs, FiniteSetTheorems

Page == [cores : Seq(Procs \cup {None}), sorted : Nat, running : Seq(Procs),
         finished : Seq(Procs), rows : Seq((Workers \cup {-1}) \X Nat)]

PagesOK == page \in Page /\ screen \in Page /\ drained \in BOOLEAN

TypesInv == ConsoleTypeOK /\ PagesOK

(* A number in a name is below nextPID once its process is committed; until *)
(* then the scheduler thread alone knows it.                                *)
NamesInv ==
  /\ GeneratedNamesDistinct
  /\ \A p \in Procs : name[p] \notin Typed \cup {0} =>
       name[p] < nextPID \/ (p = generated /\ name[p] = nextPID)

(* What a core was seen to hold is not on a core that is yet to be looked   *)
(* at.                                                                      *)
LookedAt ==
  Listing =>
    /\ Len(page.cores) <= NumCpu
    /\ \A i \in 1 .. Len(page.cores), w \in Workers :
         w >= Len(page.cores) /\ page.cores[i] # None => current[w] # page.cores[i]

ListedInv == ListedOnce /\ LookedAt

(* A listing of finished processes only, as far as it has come.             *)
AllDone(pg) ==
  /\ \A i \in 1 .. Len(pg.cores) : pg.cores[i] = None
  /\ pg.running = <<>> /\ pg.rows = <<>>
  /\ Len(pg.finished) = pg.sorted /\ pg.sorted <= Len(processes)
  /\ \A i \in 1 .. pg.sorted : pg.finished[i] = processes[i]

Complete(pg) == AllDone(pg) /\ pg.sorted = Len(processes)

DrainedInv ==
  drained =>
    /\ Quiet
    /\ console \in {"ls", "report", "file", "listed", "printed", "saved"}
    /\ Listing => AllDone(page)
    /\ console = "listed" => Used(page) = 0 /\ page.finished = MostRecent(processes)
    /\ console \in {"printed", "saved"} => Complete(page)
    /\ console \in {"file", "saved"} => Complete(screen)

-----------------------------------------------------------------------------
(* Every step of the console's program is a step of the scheduler's, or one *)
(* that the scheduler does not see.                                         *)
LEMMA StepsOfSpec == [ConsoleNext]_<<vars, user, name, listing>> => [Next]_vars
<1> SUFFICES ASSUME [ConsoleNext]_<<vars, user, name, listing>> PROVE [Next]_vars
  OBVIOUS
<1>1. CASE Initialize \/ SchedulerStart \/ SchedulerStop \/ ScreenS \/ AddNamed
  BY <1>1 DEF Initialize, SchedulerStart, SchedulerStop, ScreenS, AddNamed, Next, CLI
<1>2. CASE Loop \/ Cores
  BY <1>2 DEF Loop, Cores, Next
<1>3. CASE \/ ScreenR \/ ProcessSmi \/ LeaveScreen \/ BeginListing \/ LookAtCore \/ SortProcess
           \/ EndLs \/ PrintRow \/ EndPage \/ BeginFile \/ Return \/ NameGenerated
           \/ UNCHANGED <<vars, user, name, listing>>
  BY <1>3 DEF ScreenR, ProcessSmi, LeaveScreen, BeginListing, LookAtCore, SortProcess,
     EndLs, PrintRow, EndPage, BeginFile, Return, NameGenerated
<1> QED
  BY <1>1, <1>2, <1>3 DEF ConsoleNext, Commands

(* The console restricts the scheduler and changes nothing in it.           *)
THEOREM ConsoleIsScheduler == ConsoleSpec => Spec
<1>1. ConsoleInit => Init
  BY DEF ConsoleInit
<1> QED
  BY <1>1, StepsOfSpec, PTL DEF ConsoleSpec, Spec

LEMMA SchedulerInvariants == ConsoleSpec => [](TypeOK /\ Placement)
  BY ConsoleIsScheduler, TypeCorrect, PlacementInvariant, PTL

-----------------------------------------------------------------------------
(* Types.                                                                   *)
LEMMA BlankPage == Blank \in Page
<1>1. \A S : <<>> \in Seq(S)
  OBVIOUS
<1> QED
  BY <1>1 DEF Blank, Page

LEMMA InitialTypes == ConsoleInit => TypesInv
<1> SUFFICES ASSUME ConsoleInit PROVE TypesInv
  OBVIOUS
<1>1. TypeOK
  BY TypeInit DEF ConsoleInit
<1>2. ConsoleTypeOK
  BY <1>1, SchedulerAssumption DEF ConsoleInit, Init, ConsoleTypeOK
<1>3. PagesOK
  BY BlankPage DEF ConsoleInit, PagesOK
<1> QED
  BY <1>2, <1>3 DEF TypesInv

(* The last MaxShown of a sequence are no more than MaxShown.               *)
LEMMA MostRecentShown ==
  ASSUME NEW s \in Seq(Procs)
  PROVE  MostRecent(s) \in Seq(Procs) /\ Len(MostRecent(s)) <= MaxShown
  BY ConsoleAssumption DEF MostRecent

LEMMA TypesCommands ==
  ASSUME TypeOK, Placement, TypesInv, TypeOK',
         \/ Initialize \/ SchedulerStart \/ SchedulerStop \/ ScreenS \/ AddNamed \/ ScreenR
         \/ ProcessSmi \/ LeaveScreen
  PROVE  TypesInv'
<1> USE DEF TypesInv, ConsoleTypeOK, PagesOK, user, listing
<1>1. CASE Initialize \/ SchedulerStart \/ SchedulerStop
  BY <1>1 DEF Initialize, SchedulerStart, SchedulerStop, Start, ResumeGenerating, StopGenerating
<1>2. CASE ScreenS
  <2>1. named' \in Procs /\ named' # None
    BY <1>2, SchedulerAssumption DEF ScreenS, CreateNamedProcess, Fresh
  <2>2. name' \in [Procs -> Nat]
    BY <1>2, ConsoleAssumption DEF ScreenS
  <2> QED
    BY <1>2, <2>1, <2>2 DEF ScreenS
<1>3. CASE AddNamed
  BY <1>3 DEF AddNamed, AddProcess, TypeOK, CreatorsOK
<1>4. CASE ScreenR
  <2>1. \A n : Found(n) \subseteq Procs
    BY DEF Found, TypeOK, ListsOK
  <2>2. attached' \in Procs /\ attached' # None
    BY <1>4, <2>1, SchedulerAssumption DEF ScreenR
  <2> QED
    BY <1>4, <2>2 DEF ScreenR, vars, creators
<1>5. CASE ProcessSmi
  BY <1>5 DEF ProcessSmi, vars, creators
<1>6. CASE LeaveScreen
  BY <1>6 DEF LeaveScreen, vars, creators
<1> QED
  BY <1>1, <1>2, <1>3, <1>4, <1>5, <1>6

(* What each step of a listing does to the page.                            *)
LEMMA LookAtCoreStep ==
  ASSUME TypeOK, TypesInv, LookAtCore
  PROVE  LET k == Len(page.cores) IN
         /\ Listing /\ k \in Workers /\ page' \in Page
         /\ page'.cores = Append(page.cores, current[k])
         /\ UNCHANGED <<vars, user, name, screen, drained>>
         /\ page'.sorted = page.sorted /\ page'.running = page.running
         /\ page'.finished = page.finished /\ page'.rows = page.rows
<1> DEFINE k == Len(page.cores)
<1>1. /\ page \in Page /\ k < NumCpu
      /\ page' = [page EXCEPT !.cores = Append(page.cores, current[k])]
  BY DEF LookAtCore, TypesInv, PagesOK
<1>2. k \in Workers /\ current[k] \in Procs \cup {None}
  BY <1>1, SchedulerAssumption DEF Page, Workers, TypeOK, CoresOK
<1>3. Append(page.cores, current[k]) \in Seq(Procs \cup {None})
  BY <1>1, <1>2 DEF Page
<1> QED
  BY <1>1, <1>2, <1>3 DEF LookAtCore, Page

LEMMA SortProcessStep ==
  ASSUME TypeOK, TypesInv, SortProcess
  PROVE  LET k == page.sorted + 1
             p == processes[k]
         IN  /\ Listing /\ k \in 1 .. Len(processes) /\ p \in Procs /\ page' \in Page
             /\ page'.cores = page.cores /\ page'.sorted = k /\ page'.rows = page.rows
             /\ IF state[p] = "FINISHED"
                THEN page'.finished = Append(page.finished, p) /\ page'.running = page.running
                ELSE page'.finished = page.finished /\ page'.running = Append(page.running, p)
             /\ UNCHANGED <<vars, user, name, screen, drained>>
<1> DEFINE k == page.sorted + 1
           p == processes[k]
<1>1. page \in Page /\ k \in 1 .. Len(processes) /\ p \in Procs
  BY DEF SortProcess, TypesInv, PagesOK, Page, TypeOK, ListsOK
<1>2. Append(page.finished, p) \in Seq(Procs) /\ Append(page.running, p) \in Seq(Procs)
  BY <1>1 DEF Page
<1>3. Listing /\ UNCHANGED <<vars, user, name, screen, drained>>
  BY DEF SortProcess
<1> HIDE DEF p, k
<1> DEFINE pg == [page EXCEPT !.sorted = k]
<1>4. /\ pg \in Page /\ pg.cores = page.cores /\ pg.sorted = k /\ pg.rows = page.rows
      /\ pg.finished = page.finished /\ pg.running = page.running
  BY <1>1 DEF Page
<1>5. page' = IF state[p] = "FINISHED" THEN [pg EXCEPT !.finished = Append(page.finished, p)]
                                       ELSE [pg EXCEPT !.running = Append(page.running, p)]
  BY <1>1 DEF SortProcess, Page, p, k
<1> HIDE DEF pg
<1>6. CASE state[p] = "FINISHED"
  BY <1>1, <1>2, <1>3, <1>4, <1>5, <1>6 DEF Page, p, k
<1>7. CASE state[p] # "FINISHED"
  BY <1>1, <1>2, <1>3, <1>4, <1>5, <1>7 DEF Page, p, k
<1> QED
  BY <1>6, <1>7 DEF p, k

LEMMA PrintRowStep ==
  ASSUME TypeOK, TypesInv, PrintRow
  PROVE  /\ Listing /\ Sorted /\ page.running # <<>> /\ page' \in Page
         /\ page'.cores = page.cores /\ page'.sorted = page.sorted
         /\ page'.running = page.running /\ page'.finished = page.finished
         /\ UNCHANGED <<vars, user, name, screen, drained>>
<1> DEFINE k == Len(page.rows) + 1
           p == page.running[k]
<1>1. page \in Page /\ k \in 1 .. Len(page.running) /\ p \in Procs
  BY DEF PrintRow, TypesInv, PagesOK, Page
<1>2. <<coreNum[p], index[p]>> \in (Workers \cup {-1}) \X Nat
  BY <1>1 DEF TypeOK, PcbOK
<1>3. Append(page.rows, <<coreNum[p], index[p]>>) \in Seq((Workers \cup {-1}) \X Nat)
  BY <1>1, <1>2 DEF Page
<1>4. page' = [page EXCEPT !.rows = Append(page.rows, <<coreNum[p], index[p]>>)]
  BY DEF PrintRow
<1>5. page.running # <<>>
  BY <1>1
<1> QED
  BY <1>1, <1>3, <1>4, <1>5 DEF PrintRow, Listing, Page

LEMMA EndLsStep ==
  ASSUME TypeOK, TypesInv, EndLs
  PROVE  /\ Listing /\ Sorted /\ console' = "listed" /\ page' \in Page
         /\ page'.cores = page.cores /\ page'.finished = MostRecent(page.finished)
         /\ UNCHANGED <<vars, name, attached, told, screen, drained>>
<1>1. page \in Page /\ page' = [page EXCEPT !.finished = MostRecent(page.finished)]
  BY DEF EndLs, TypesInv, PagesOK
<1>2. MostRecent(page.finished) \in Seq(Procs)
  BY <1>1, MostRecentShown DEF Page
<1> QED
  BY <1>1, <1>2 DEF EndLs, Listing, Page

LEMMA TypesListings ==
  ASSUME TypeOK, TypesInv, TypeOK',
         \/ BeginListing \/ LookAtCore \/ SortProcess \/ EndLs \/ PrintRow \/ EndPage
         \/ BeginFile \/ Return
  PROVE  TypesInv'
<1> USE DEF TypesInv, ConsoleTypeOK, PagesOK, vars, creators
<1>1. CASE BeginListing
  <2>1. Quiet \in BOOLEAN
    BY DEF Quiet
  <2> QED
    BY <1>1, <2>1, BlankPage DEF BeginListing
<1>2. CASE LookAtCore
  BY <1>2, LookAtCoreStep DEF user, Listing
<1>3. CASE SortProcess
  BY <1>3, SortProcessStep DEF user, Listing
<1>4. CASE EndLs
  <2>1. Len(page'.finished) <= MaxShown
    BY <1>4, EndLsStep, MostRecentShown DEF Page
  <2> QED
    BY <1>4, <2>1, EndLsStep DEF EndLs
<1>5. CASE PrintRow
  BY <1>5, PrintRowStep DEF user, Listing
<1>6. CASE EndPage
  BY <1>6 DEF EndPage, listing
<1>7. CASE BeginFile
  BY <1>7, BlankPage DEF BeginFile
<1>8. CASE Return
  BY <1>8, BlankPage DEF Return
<1> QED
  BY <1>1, <1>2, <1>3, <1>4, <1>5, <1>6, <1>7, <1>8

(* The threads of the scheduler leave the console's variables alone, and    *)
(* what the console is building too.                                        *)
LEMMA ThreadsLeave ==
  ASSUME Loop \/ Cores
  PROVE  UNCHANGED <<user, name, listing, named>>
<1>1. CASE Loop
  BY <1>1 DEF Loop, SchedulerLoop, SkipGeneration, GenerateProcess, CommitGenerated, WorkersDone,
     CheckQuantum, Dispatch, CollectPreempted, RequeuePreempted, UpdateSleeping, EndTick, creators
<1>2. CASE Cores
  BY <1>2 DEF Cores, RunCycle, creators
<1> QED
  BY <1>1, <1>2

LEMMA TypesStep ==
  ASSUME TypeOK, Placement, TypesInv, TypeOK', [ConsoleNext]_<<vars, user, name, listing>>
  PROVE  TypesInv'
<1> USE DEF TypesInv, ConsoleTypeOK, PagesOK
<1>1. CASE Loop \/ Cores
  BY <1>1, ThreadsLeave DEF user, listing
<1>2. CASE NameGenerated
  <2>1. name' \in [Procs -> Nat]
    BY <1>2 DEF NameGenerated, TypeOK, CreatorsOK
  <2> QED
    BY <1>2, <2>1 DEF NameGenerated, vars, creators, user, listing
<1>3. CASE UNCHANGED <<vars, user, name, listing>>
  BY <1>3 DEF vars, creators, user, listing
<1> QED
  BY <1>1, <1>2, <1>3, TypesCommands, TypesListings DEF ConsoleNext, Commands

-----------------------------------------------------------------------------
(* Names.                                                                   *)

(* nextPID only grows, past a generated process as it is committed.         *)
LEMMA NextPIDGrows ==
  ASSUME TypeOK, [Next]_vars
  PROVE  /\ nextPID' \in Nat /\ nextPID <= nextPID'
         /\ generated' = generated \/ generated = None
              \/ (generated' = None /\ nextPID < nextPID')
<1> USE DEF TypeOK, CreatorsOK, ident, creators
<1>1. CASE Start \/ ResumeGenerating \/ StopGenerating \/ AddProcess \/ UNCHANGED vars
  BY <1>1 DEF Start, ResumeGenerating, StopGenerating, AddProcess, vars
<1>2. CASE CreateNamedProcess \/ CommitGenerated
  BY <1>2 DEF CreateNamedProcess, CommitGenerated, PidUsed
<1>3. CASE GenerateProcess
  BY <1>3 DEF GenerateProcess, ClockOK
<1>4. CASE \/ SkipGeneration \/ WorkersDone \/ CheckQuantum \/ Dispatch \/ CollectPreempted
           \/ RequeuePreempted \/ UpdateSleeping \/ EndTick \/ (\E w \in Workers : RunCycle(w))
  BY <1>4 DEF SkipGeneration, WorkersDone, CheckQuantum, Dispatch, CollectPreempted,
     RequeuePreempted, UpdateSleeping, EndTick, RunCycle
<1> QED
  BY <1>1, <1>2, <1>3, <1>4 DEF Next, CLI, SchedulerLoop

LEMMA NamesStep ==
  ASSUME TypeOK, Placement, TypesInv, NamesInv, [ConsoleNext]_<<vars, user, name, listing>>
  PROVE  NamesInv'
<1> USE DEF TypesInv, ConsoleTypeOK, NamesInv, GeneratedNamesDistinct
<1>0. /\ nextPID \in Nat /\ nextPID' \in Nat /\ nextPID <= nextPID'
      /\ generated' = generated \/ generated = None \/ (generated' = None /\ nextPID < nextPID')
      /\ None \notin Procs /\ \A p \in Procs : name[p] \in Nat
  BY StepsOfSpec, NextPIDGrows, SchedulerAssumption DEF TypeOK, CreatorsOK
<1>1. CASE UNCHANGED name
  BY <1>0, <1>1
<1>2. CASE ScreenS
  <2>1. PICK n \in Typed : name' = [name EXCEPT ![named'] = n]
    BY <1>2 DEF ScreenS
  <2>2. \A p \in Procs : name'[p] = name[p] \/ name'[p] \in Typed
    BY <2>1
  <2> QED
    BY <1>0, <2>2
<1>3. CASE NameGenerated
  <2>1. /\ generated \in Procs /\ name[generated] = 0 /\ UNCHANGED <<nextPID, generated>>
        /\ \A p \in Procs : name'[p] = IF p = generated THEN nextPID ELSE name[p]
    BY <1>3, <1>0 DEF NameGenerated, Unnamed, vars, ident, creators, TypeOK, CreatorsOK
  <2> QED
    BY <1>0, <2>1
<1>4. ScreenS \/ NameGenerated \/ UNCHANGED name
  <2>1. (Loop \/ Cores) => UNCHANGED name
    BY ThreadsLeave
  <2> QED
    BY <2>1 DEF ConsoleNext, Commands, Initialize, SchedulerStart, SchedulerStop, AddNamed, ScreenR,
     ProcessSmi, LeaveScreen, BeginListing, LookAtCore, SortProcess, EndLs, PrintRow, EndPage,
     BeginFile, Return
<1> QED
  BY <1>1, <1>2, <1>3, <1>4

-----------------------------------------------------------------------------
(* Listings.                                                                *)

(* What the threads can do behind a listing: no process gets onto a core,   *)
(* and none is registered.                                                  *)
LEMMA BehindListing ==
  ASSUME TypeOK, Placement, Loop \/ Cores, Listing
  PROVE  \A w \in Workers : current'[w] \in {current[w], None}
<1> SUFFICES ASSUME NEW w \in Workers PROVE current'[w] \in {current[w], None}
  OBVIOUS
<1> USE DEF TypeOK, CoresOK
<1>1. CASE Loop
  <2>1. ~Dispatch
    BY <1>1 DEF Loop, Blocked, Dispatch
  <2>2. CASE CheckQuantum
    BY <2>2 DEF CheckQuantum, Detached, cores
  <2> QED
    BY <1>1, <2>1, <2>2 DEF Loop, SchedulerLoop, SkipGeneration, GenerateProcess, CommitGenerated,
       WorkersDone, CollectPreempted, RequeuePreempted, UpdateSleeping, EndTick, cores
<1>2. CASE Cores
  BY <1>2 DEF Cores, RunCycle, Cycle, TickExecution, Detached
<1> QED
  BY <1>1, <1>2

LEMMA ListedStep ==
  ASSUME TypeOK, Placement, TypesInv, ListedInv, [ConsoleNext]_<<vars, user, name, listing>>
  PROVE  ListedInv'
<1> USE DEF ListedInv, ListedOnce, LookedAt
<1>0. page \in Page /\ None \notin Procs /\ Len(page.cores) \in Nat
  BY SchedulerAssumption DEF TypesInv, PagesOK, Page
<1>1. CASE Loop \/ Cores
  BY <1>1, ThreadsLeave, BehindListing DEF user, listing, Listing
<1>2. CASE BeginListing \/ BeginFile \/ Return
  <2>1. page'.cores = <<>>
    BY <1>2 DEF BeginListing, BeginFile, Return, Blank
  <2>2. Len(<<>>) = 0
    OBVIOUS
  <2> QED
    BY <2>1, <2>2, SchedulerAssumption
<1>3. CASE LookAtCore
  <2> DEFINE k == Len(page.cores)
             seen == page'.cores
  <2>1. /\ Listing /\ k \in Workers /\ Len(seen) = k + 1 /\ seen[k + 1] = current[k]
        /\ \A i \in 1 .. k : seen[i] = page.cores[i]
        /\ UNCHANGED <<current, console>>
    <3>1. /\ Listing /\ k \in Workers /\ seen = Append(page.cores, current[k])
          /\ UNCHANGED <<current, console>>
      BY <1>3, LookAtCoreStep DEF vars, cores, user
    <3>2. page.cores \in Seq(Procs \cup {None})
      BY <1>0 DEF Page
    <3> HIDE DEF seen
    <3> QED
      BY <3>1, <3>2
  <2> HIDE DEF k
  <2>2. \A i \in 1 .. k : seen[i] # None => seen[i] # current[k]
    BY <2>1 DEF Workers, k
  <2>3. \A v \in Workers : v >= k + 1 /\ current[k] # None => current[v] # current[k]
    BY <2>1 DEF Placement, AtMostOnePlace, NoSharing, Workers
  <2>4. ListedOnce'
    <3>1. \A i, j \in 1 .. k : seen[i] = seen[j] /\ seen[i] # None => i = j
      BY <2>1 DEF k
    <3>2. \A i \in 1 .. k + 1 : i = k + 1 \/ i \in 1 .. k
      BY <2>1 DEF Workers
    <3> QED
      BY <2>1, <2>2, <3>1, <3>2
  <2>5. ASSUME NEW i \in 1 .. k + 1, NEW v \in Workers, v >= k + 1, seen[i] # None
        PROVE  current[v] # seen[i]
    <3>1. CASE i = k + 1
      BY <2>1, <2>3, <2>5, <3>1
    <3>2. CASE i \in 1 .. k
      BY <2>1, <2>5, <3>2 DEF Workers, k
    <3> QED
      BY <2>1, <3>1, <3>2 DEF Workers
  <2>6. LookedAt'
    <3>1. k + 1 <= NumCpu
      BY <2>1, SchedulerAssumption DEF Workers
    <3> QED
      BY <2>1, <2>5, <3>1
  <2> QED
    BY <2>4, <2>6
<1>4. CASE SortProcess \/ PrintRow \/ EndLs
  <2>1. page'.cores = page.cores /\ UNCHANGED current /\ Listing /\ (Listing' => Listing)
    BY <1>4, SortProcessStep, PrintRowStep, EndLsStep DEF vars, cores
  <2> QED
    BY <2>1
<1>5. CASE EndPage
  BY <1>5 DEF EndPage, Listing, vars, cores, listing
<1>6. CASE NameGenerated \/ UNCHANGED <<vars, user, name, listing>>
  BY <1>6 DEF NameGenerated, vars, cores, user, listing, Listing
<1>7. CASE \/ Initialize \/ SchedulerStart \/ SchedulerStop \/ ScreenS \/ AddNamed \/ ScreenR
           \/ ProcessSmi \/ LeaveScreen
  <2>1. ~Listing' /\ page' = page
    BY <1>7 DEF Initialize, SchedulerStart, SchedulerStop, ScreenS, AddNamed, ScreenR,
       ProcessSmi, LeaveScreen, Listing, user, listing
  <2> QED
    BY <2>1
<1> QED
  BY <1>1, <1>2, <1>3, <1>4, <1>5, <1>6, <1>7 DEF ConsoleNext, Commands

-----------------------------------------------------------------------------
(* Listings after the work is done.                                         *)

(* Once all is quiet, no core is used, and the threads keep it so.          *)
LEMMA QuietCores ==
  ASSUME TypeOK, Placement, Quiet
  PROVE  \A w \in Workers : current[w] = None
<1> SUFFICES ASSUME NEW w \in Workers, current[w] # None PROVE FALSE
  OBVIOUS
<1>1. current[w] \in Procs /\ OnCore(current[w])
  BY DEF TypeOK, CoresOK, OnCore, Holds
<1>2. Registered(current[w]) /\ state[current[w]] = "RUNNING"
  BY <1>1 DEF Placement, NoneLost, Enlisted
<1> QED
  BY <1>2 DEF Quiet, Registered, Has

LEMMA QuietStays ==
  ASSUME TypeOK, Placement, Quiet, Loop \/ Cores
  PROVE  Quiet' /\ processes' = processes
<1>1. CASE Loop
  <2>1. ~GenerateProcess /\ ~CommitGenerated
    BY DEF Quiet, GenerateProcess, BatchDue, CommitGenerated, TypeOK, CreatorsOK
  <2>2. CASE SkipGeneration \/ WorkersDone \/ CollectPreempted \/ RequeuePreempted \/ EndTick
    BY <2>2 DEF SkipGeneration, WorkersDone, CollectPreempted, RequeuePreempted, EndTick,
       lists, creators, pcb, Quiet
  <2>3. CASE CheckQuantum
    <3>1. UNCHANGED <<processes, state, generating, generated>>
      BY <2>3, QuietCores, NextWorkerStep DEF CheckQuantum, lists, creators
    <3> QED
      BY <3>1 DEF Quiet
  <2>4. CASE Dispatch
    <3>1. queue = <<>>
      <4> SUFFICES ASSUME queue # <<>> PROVE FALSE
        OBVIOUS
      <4>1. Head(queue) \in Procs /\ InQueue(Head(queue))
        BY HasTail DEF InQueue, Placement, AtMostOnePlace, TypeOK, ListsOK
      <4>2. Registered(Head(queue)) /\ state[Head(queue)] # "FINISHED"
        BY <4>1 DEF Placement, NoneLost, Enlisted
      <4> QED
        BY <4>2 DEF Quiet, Registered, Has
    <3>2. UNCHANGED <<processes, state, generating, generated>>
      BY <2>4, <3>1 DEF Dispatch, creators
    <3> QED
      BY <3>2 DEF Quiet
  <2>5. CASE UpdateSleeping
    <3>1. at + 1 \in 1 .. Len(processes)
      BY <2>5 DEF UpdateSleeping, TypeOK, ClockOK, ListsOK
    <3>2. UNCHANGED <<processes, state, generating, generated>>
      BY <2>5, <3>1 DEF UpdateSleeping, creators, Quiet
    <3> QED
      BY <3>2 DEF Quiet
  <2> QED
    BY <1>1, <2>1, <2>2, <2>3, <2>4, <2>5 DEF Loop, SchedulerLoop
<1>2. CASE Cores
  <2>1. UNCHANGED <<processes, state, generating, generated>>
    BY <1>2, QuietCores DEF Cores, RunCycle, Cycle, lists, creators
  <2> QED
    BY <2>1 DEF Quiet
<1> QED
  BY <1>1, <1>2

(* A page of nothing but finished processes shows no core in use.           *)
LEMMA NoneUsed ==
  ASSUME NEW pg, \A i \in 1 .. Len(pg.cores) : pg.cores[i] = None
  PROVE  Used(pg) = 0
<1>1. {i \in 1 .. Len(pg.cores) : pg.cores[i] # None} = {}
  OBVIOUS
<1> QED
  BY <1>1, FS_EmptySet DEF Used

LEMMA CompletePage ==
  ASSUME TypeOK, NEW pg \in Page, Complete(pg)
  PROVE  pg.finished = processes /\ Text(pg) = <<0, <<>>, <<>>, processes>>
<1>1. pg.finished \in Seq(Procs) /\ processes \in Seq(Procs) /\ Len(pg.finished) = Len(processes)
  BY DEF Complete, AllDone, Page, TypeOK, ListsOK
<1>2. \A i \in 1 .. Len(processes) : pg.finished[i] = processes[i]
  BY DEF Complete, AllDone
<1>3. pg.finished = processes
  BY <1>1, <1>2
<1>4. Used(pg) = 0
  BY NoneUsed DEF Complete, AllDone
<1> QED
  BY <1>3, <1>4 DEF Text, Complete, AllDone

LEMMA DrainedStep ==
  ASSUME TypeOK, Placement, TypesInv, DrainedInv, [ConsoleNext]_<<vars, user, name, listing>>
  PROVE  DrainedInv'
<1> USE DEF DrainedInv
<1>0. page \in Page /\ screen \in Page
  BY DEF TypesInv, PagesOK
<1>1. CASE Loop \/ Cores
  <2>1. UNCHANGED <<console, page, screen, drained>>
    BY <1>1, ThreadsLeave DEF user, listing
  <2>2. drained => Quiet' /\ processes' = processes
    BY <1>1, QuietStays
  <2> QED
    BY <2>1, <2>2 DEF Listing, AllDone, Complete
<1>2. CASE NameGenerated \/ UNCHANGED <<vars, user, name, listing>>
  BY <1>2 DEF NameGenerated, vars, lists, creators, pcb, user, listing, Listing, AllDone, Complete, Quiet
<1>3. CASE Initialize \/ SchedulerStart \/ SchedulerStop \/ ScreenS \/ AddNamed \/ ScreenR
           \/ ProcessSmi \/ LeaveScreen
  <2>1. console \in {"uninitialized", "menu", "add", "screen"} /\ UNCHANGED drained
    BY <1>3 DEF Initialize, SchedulerStart, SchedulerStop, ScreenS, AddNamed, ScreenR,
       ProcessSmi, LeaveScreen, user, listing
  <2> QED
    BY <2>1
<1>4. CASE BeginListing
  <2>1. UNCHANGED <<processes, state, generating, generated>> /\ page' = Blank /\ drained' = Quiet
    BY <1>4 DEF BeginListing, vars, lists, creators, pcb
  <2>2. AllDone(Blank)'
    BY DEF AllDone, Blank
  <2> QED
    BY <1>4, <2>1, <2>2 DEF BeginListing, Quiet, Listing
<1>5. CASE LookAtCore
  <2>1. /\ UNCHANGED <<processes, state, generating, generated, console, screen, drained>>
        /\ Listing /\ Len(page.cores) \in Workers
        /\ page'.cores = Append(page.cores, current[Len(page.cores)])
        /\ page'.sorted = page.sorted /\ page'.running = page.running
        /\ page'.finished = page.finished /\ page'.rows = page.rows
    BY <1>5, LookAtCoreStep DEF vars, lists, creators, pcb, user
  <2>2. drained => AllDone(page)'
    <3> SUFFICES ASSUME drained PROVE \A i \in 1 .. Len(page'.cores) : page'.cores[i] = None
      BY <2>1 DEF AllDone
    <3>1. current[Len(page.cores)] = None
      BY <2>1, QuietCores
    <3>2. page.cores \in Seq(Procs \cup {None}) /\ \A i \in 1 .. Len(page.cores) : page.cores[i] = None
      BY <1>0, <2>1 DEF Page, AllDone
    <3> QED
      BY <2>1, <3>1, <3>2
  <2> QED
    BY <2>1, <2>2 DEF Quiet, Listing, Complete, AllDone
<1>6. CASE SortProcess
  <2> DEFINE k == page.sorted + 1
  <2>1. /\ UNCHANGED <<processes, state, generating, generated, console, screen, drained>>
        /\ Listing /\ k \in 1 .. Len(processes)
        /\ page'.cores = page.cores /\ page'.sorted = k /\ page'.rows = page.rows
        /\ state[processes[k]] = "FINISHED" =>
             page'.finished = Append(page.finished, processes[k]) /\ page'.running = page.running
    BY <1>6, SortProcessStep DEF vars, lists, creators, pcb, user
  <2>2. drained => AllDone(page)'
    <3> SUFFICES ASSUME drained PROVE AllDone(page)'
      OBVIOUS
    <3>1. page'.finished = Append(page.finished, processes[k]) /\ page'.running = page.running
      BY <2>1 DEF Quiet
    <3>2. /\ page.finished \in Seq(Procs) /\ page.sorted \in Nat /\ Len(page.finished) = page.sorted
          /\ \A i \in 1 .. page.sorted : page.finished[i] = processes[i]
      BY <1>0, <2>1 DEF Page, AllDone
    <3>3. /\ Len(page'.finished) = k
          /\ \A i \in 1 .. k : page'.finished[i] = processes[i]
      BY <3>1, <3>2
    <3> QED
      BY <2>1, <3>1, <3>3 DEF AllDone
  <2> QED
    BY <2>1, <2>2 DEF Quiet, Listing, Complete, AllDone
<1>7. CASE PrintRow
  <2>1. Listing /\ page.running # <<>> /\ drained' = drained
    BY <1>7, PrintRowStep
  <2> QED
    BY <2>1 DEF AllDone
<1>8. CASE EndLs
  <2>1. /\ UNCHANGED <<processes, state, generating, generated, screen, drained>>
        /\ Listing /\ Sorted /\ console' = "listed"
        /\ page'.cores = page.cores /\ page'.finished = MostRecent(page.finished)
    BY <1>8, EndLsStep DEF vars, lists, creators, pcb
  <2>2. drained => Complete(page)
    BY <2>1 DEF Complete, Sorted
  <2>3. drained => page'.finished = MostRecent(processes) /\ Used(page') = 0
    BY <1>0, <2>1, <2>2, CompletePage, NoneUsed DEF Complete, AllDone
  <2> QED
    BY <2>1, <2>3 DEF Quiet, Listing, Used, MostRecent
<1>9. CASE EndPage
  <2>1. drained => Complete(page)
    BY <1>9 DEF EndPage, Complete, Sorted, Listing
  <2> QED
    BY <1>9, <2>1 DEF EndPage, Quiet, Listing, Complete, AllDone, vars, lists, creators, pcb, listing
<1>10. CASE BeginFile
  <2>1. /\ UNCHANGED <<processes, state, generating, generated, drained>> /\ console = "printed"
        /\ console' = "file" /\ screen' = page /\ page' = Blank
    BY <1>10 DEF BeginFile, vars, lists, creators, pcb
  <2>2. AllDone(Blank)'
    BY DEF AllDone, Blank
  <2> QED
    BY <2>1, <2>2 DEF Quiet, Listing, Complete, AllDone
<1>11. CASE Return
  BY <1>11 DEF Return
<1> QED
  BY <1>1, <1>2, <1>3, <1>4, <1>5, <1>6, <1>7, <1>8, <1>9, <1>10, <1>11 DEF ConsoleNext, Commands

-----------------------------------------------------------------------------
ConsoleInv == TypesInv /\ NamesInv /\ ListedInv /\ DrainedInv

LEMMA InitialConsole == ConsoleInit => ConsoleInv
<1> SUFFICES ASSUME ConsoleInit PROVE ConsoleInv
  OBVIOUS
<1>1. TypesInv
  BY InitialTypes
<1>2. NamesInv
  <2>1. \A p \in Procs : name[p] = 0
    BY DEF ConsoleInit
  <2> QED
    BY <2>1 DEF NamesInv, GeneratedNamesDistinct
<1>3. page.cores = <<>> /\ Len(<<>>) = 0
  BY DEF ConsoleInit, Blank
<1>4. ListedInv /\ DrainedInv
  BY <1>3 DEF ConsoleInit, ListedInv, ListedOnce, LookedAt, Listing, DrainedInv
<1> QED
  BY <1>1, <1>2, <1>4 DEF ConsoleInv

LEMMA ConsoleInvariant == ConsoleSpec => [](TypeOK /\ ConsoleInv)
<1>1. TypeOK /\ Placement /\ ConsoleInv /\ TypeOK' /\ [ConsoleNext]_<<vars, user, name, listing>>
        => ConsoleInv'
  BY TypesStep, NamesStep, ListedStep, DrainedStep DEF ConsoleInv
<1> QED
  BY InitialConsole, <1>1, SchedulerInvariants, PTL DEF ConsoleSpec

(* The console's variables keep their types, and screen -ls shows no more   *)
(* than MaxShown finished processes.                                        *)
THEOREM ConsoleTypes == ConsoleSpec => []ConsoleTypeOK
<1>1. ConsoleInv => ConsoleTypeOK
  BY DEF ConsoleInv, TypesInv
<1> QED
  BY <1>1, ConsoleInvariant, PTL

(* No two generated processes share a name, wherever screen -s falls.       *)
THEOREM NamesDistinct == ConsoleSpec => []GeneratedNamesDistinct
<1>1. ConsoleInv => GeneratedNamesDistinct
  BY DEF ConsoleInv, NamesInv
<1> QED
  BY <1>1, ConsoleInvariant, PTL

(* No listing shows a process on two cores.                                 *)
THEOREM NothingListedTwice == ConsoleSpec => []ListedOnce
<1>1. ConsoleInv => ListedOnce
  BY DEF ConsoleInv, ListedInv
<1> QED
  BY <1>1, ConsoleInvariant, PTL

(* Once the work is done every listing shows the same, idle cores and all   *)
(* processes finished.                                                      *)
THEOREM ListingsAgree == ConsoleSpec => []DrainedListingsAgree
<1>1. TypeOK /\ ConsoleInv => DrainedListingsAgree
  <2> SUFFICES ASSUME TypeOK, ConsoleInv PROVE DrainedListingsAgree
    OBVIOUS
  <2>1. page \in Page /\ screen \in Page /\ DrainedInv
    BY DEF ConsoleInv, TypesInv, PagesOK
  <2>2. CASE console = "listed"
    BY <2>1, <2>2 DEF DrainedInv, DrainedListingsAgree
  <2>3. CASE console = "saved"
    <3>1. drained => Complete(page) /\ Complete(screen)
      BY <2>1, <2>3 DEF DrainedInv
    <3> QED
      BY <2>1, <2>3, <3>1, CompletePage DEF DrainedListingsAgree
  <2>4. CASE console \notin {"listed", "saved"}
    BY <2>4 DEF DrainedListingsAgree
  <2> QED
    BY <2>2, <2>3, <2>4
<1> QED
  BY <1>1, ConsoleInvariant, PTL
=============================================================================
