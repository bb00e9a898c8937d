------------------------ MODULE ConfigurationProofs ------------------------
(***************************************************************************)
(* A file within the documented ranges fits the scheduler, whatever the    *)
(* order of its lines.  Of every key the state holds what the last line    *)
(* read so far says; at the end of the file that is the last line of all.  *)
(***************************************************************************)
EXTENDS Configuration, TLAPS

Lines == [key : STRING, value : Value]

(* Line i is the last of those read that give the key a value.              *)
LastRead(key, i) ==
  /\ i \in Given(key) /\ i <= read
  /\ \A j \in Given(key) : j <= read => j <= i

(* What a key is worth after the lines read: what it was at first, or what  *)
(* the last of the lines that give it says.                                 *)
NoneRead(key) == \A j \in Given(key) : j > read

NumberHeld(key) ==
  \/ NoneRead(key) /\ config[key] = 0
  \/ \E i \in Given(key) : LastRead(key, i) /\ config[key] = Extracted(file[i].value, 0)

NameHeld ==
  \/ NoneRead("scheduler") /\ name = NoText
  \/ \E i \in Given("scheduler") : LastRead("scheduler", i) /\ name = file[i].value.text

ReadInv == NameHeld /\ \A key \in NumberKeys : NumberHeld(key)

StageInv ==
  /\ stage = "closed" => file = <<>> /\ read = 0
  /\ stage \in {"closed", "reading"} => length = -1
  /\ stage \in {"running", "fault"} =>
       /\ read = Len(file)
       /\ name \in {"fcfs", "rr"} => ctx.algo = name /\ ctx.quantum = QuantumOf(name)

FileOK == file \in Seq(Lines)

ConfigInv == FileOK /\ ConfigTypeOK /\ StageInv /\ ReadInv /\ LengthsWithinLimits

-----------------------------------------------------------------------------
(* Reading a number ends within the int, whatever is written.               *)
LEMMA ExtractedFits ==
  ASSUME NEW v \in Value, NEW old \in -IntMax - 1 .. IntMax
  PROVE  Extracted(v, old) \in -IntMax - 1 .. IntMax
BY ConfigurationAssumption DEF Extracted, Nearest, Value

(* What a variable held before matters only where there is no value.        *)
LEMMA ExtractedAnew ==
  ASSUME NEW v \in Value, v.kind # "nothing", NEW old
  PROVE  Extracted(v, old) = Extracted(v, 0)
BY DEF Extracted, Value

LEMMA ExtractedNothing ==
  ASSUME NEW v \in Value, v.kind = "nothing", NEW old \in Int
  PROVE  Extracted(v, old) = old
BY DEF Extracted

(* A number in a range that fits an int is read as it is written.           *)
LEMMA ExtractedExact ==
  ASSUME NEW v \in Value, v.kind = "number", v.number \in -IntMax - 1 .. IntMax
  PROVE  Extracted(v, 0) = v.number
BY ConfigurationAssumption DEF Extracted, Nearest, Value

(* A remainder by a positive number is below it.                            *)
LEMMA RemainderBelow ==
  ASSUME NEW a \in Nat, NEW b \in Nat \ {0}
  PROVE  Remainder(a, b) \in 0 .. b - 1
BY DEF Remainder, Magnitude

LEMMA LineTyped ==
  ASSUME FileOK, NEW i \in 1 .. Len(file)
  PROVE  file[i] \in Lines /\ file[i].value \in Value
<1>1. file[i] \in Lines
  BY DEF FileOK
<1> QED
  BY <1>1 DEF Lines

LEMMA SomeRead ==
  ASSUME FileOK, read = Len(file), NEW key, Given(key) # {}
  PROVE  ~NoneRead(key)
BY DEF FileOK, Given, NoneRead

(* At the end of the file the last line read is the last line.              *)
LEMMA LastIsRead ==
  ASSUME FileOK, read = Len(file), NEW key, NEW i \in Given(key), LastRead(key, i)
  PROVE  file[i].value = Last(key)
<1>1. \A j \in Given(key) : j \in Nat /\ j <= i
  BY DEF FileOK, Given, LastRead
<1>2. \A k \in Given(key) : (\A j \in Given(key) : j <= k) => k = i
  BY <1>1
<1>3. (CHOOSE k \in Given(key) : \A j \in Given(key) : j <= k) = i
  BY <1>1, <1>2
<1> QED
  BY <1>3 DEF Last

LEMMA NumberRead ==
  ASSUME FileOK, read = Len(file), NEW key \in NumberKeys, NumberHeld(key), Given(key) # {}
  PROVE  /\ config[key] = Extracted(Last(key), 0)
         /\ Last(key) \in Value
<1>1. PICK i \in Given(key) : LastRead(key, i) /\ config[key] = Extracted(file[i].value, 0)
  BY SomeRead DEF NumberHeld
<1>2. file[i].value = Last(key)
  BY <1>1, LastIsRead
<1>3. file[i].value \in Value
  BY LineTyped DEF Given
<1> QED
  BY <1>1, <1>2, <1>3

LEMMA NameRead ==
  ASSUME FileOK, read = Len(file), NameHeld, Given("scheduler") # {}
  PROVE  name = Last("scheduler").text
<1>1. PICK i \in Given("scheduler") : /\ LastRead("scheduler", i)
                                      /\ name = file[i].value.text
  BY SomeRead DEF NameHeld
<1> QED
  BY <1>1, LastIsRead

-----------------------------------------------------------------------------
LEMMA InitConfig == Init => ConfigInv
<1> SUFFICES ASSUME Init PROVE ConfigInv
  OBVIOUS
<1> USE ConfigurationAssumption DEF Init
<1>0. Len(file) = 0 /\ FileOK
  BY DEF FileOK
<1>1. \A key : Given(key) = {}
  BY <1>0 DEF Given
<1>2. StageInv /\ LengthsWithinLimits
  BY DEF StageInv, LengthsWithinLimits
<1>3. ConfigTypeOK
  BY <1>0 DEF ConfigTypeOK
<1>4. ReadInv
  BY <1>1 DEF ReadInv, NameHeld, NumberHeld, NoneRead
<1> QED
  BY <1>0, <1>2, <1>3, <1>4 DEF ConfigInv

(* A file of any content is opened with nothing of it read.                 *)
LEMMA OpenStep == ConfigInv /\ Open => ConfigInv'
<1> SUFFICES ASSUME ConfigInv, Open PROVE ConfigInv'
  OBVIOUS
<1> USE ConfigurationAssumption, FilesAssumption DEF ConfigInv, Open
<1>1. FileOK'
  BY DEF FileOK, Lines
<1>2. ConfigTypeOK'
  BY <1>1 DEF ConfigTypeOK, FileOK, StageInv
<1>3. StageInv' /\ LengthsWithinLimits'
  BY DEF StageInv, LengthsWithinLimits
<1>4. read = 0 /\ Len(file) = 0
  BY DEF StageInv
<1>5. \A key : NoneRead(key)'
  BY <1>1, <1>4 DEF NoneRead, Given, FileOK
<1>6. name = NoText /\ \A key \in NumberKeys : config[key] = 0
  <2>1. \A key : Given(key) = {}
    BY <1>4 DEF Given
  <2>2. name = NoText
    BY <2>1 DEF ReadInv, NameHeld
  <2>3. ASSUME NEW key \in NumberKeys PROVE config[key] = 0
    BY <2>1 DEF ReadInv, NumberHeld
  <2> QED
    BY <2>2, <2>3
<1>7. NameHeld'
  BY <1>5, <1>6, Zenon DEF NameHeld, NoText
<1>8. ASSUME NEW key \in NumberKeys PROVE NumberHeld(key)'
  BY <1>5, <1>6 DEF NumberHeld
<1> QED
  BY <1>1, <1>2, <1>3, <1>7, <1>8 DEF ReadInv

(* One more line read: of its key it is now the last one, and of another    *)
(* key the last one is the one it was.                                      *)
LEMMA OneMoreLine ==
  ASSUME FileOK, read \in Nat, read < Len(file), NEW n, n = read + 1, read' = n,
         file' = file, NEW key
  PROVE  /\ Given(key)' = Given(key)
         /\ n \in Given(key) => LastRead(key, n)'
         /\ n \notin Given(key) =>
              /\ NoneRead(key) => NoneRead(key)'
              /\ \A i \in Given(key) : LastRead(key, i) => LastRead(key, i)'
<1>1. Given(key)' = Given(key) /\ \A j \in Given(key) : j \in Nat
  BY DEF Given, FileOK
<1>2. n \in Given(key) => LastRead(key, n)'
  BY <1>1 DEF LastRead
<1>3. ASSUME n \notin Given(key), NoneRead(key) PROVE NoneRead(key)'
  BY <1>1, <1>3 DEF NoneRead
<1>4. ASSUME n \notin Given(key), NEW i \in Given(key), LastRead(key, i)
      PROVE  LastRead(key, i)'
  BY <1>1, <1>4 DEF LastRead
<1> QED
  BY <1>1, <1>2, <1>3, <1>4

LEMMA ReadLineStep == ConfigInv /\ ReadLine => ConfigInv'
<1> SUFFICES ASSUME ConfigInv, ReadLine PROVE ConfigInv'
  OBVIOUS
<1> DEFINE n == read + 1
           line == file[n]
<1>1. /\ FileOK /\ ConfigTypeOK /\ read \in Nat /\ read < Len(file)
      /\ read' = n /\ file' = file /\ n \in 1 .. Len(file)
  BY DEF ConfigInv, ConfigTypeOK, ReadLine, FileOK
<1>2. line \in Lines /\ line.value \in Value
  BY <1>1, LineTyped
<1>3. \A key \in NumberKeys :
        config'[key] = IF line.key = key THEN Extracted(line.value, config[key]) ELSE config[key]
  BY <1>1 DEF ReadLine, ReadNumber, ConfigTypeOK
<1>4. \A key \in NumberKeys : config[key] \in Int
  BY <1>1, ConfigurationAssumption DEF ConfigTypeOK
<1>5. ConfigTypeOK'
  <2>1. config' \in [NumberKeys -> -IntMax - 1 .. IntMax]
    BY <1>1, <1>2, ExtractedFits DEF ReadLine, ReadNumber, ConfigTypeOK
  <2> QED
    BY <1>1, <2>1 DEF ReadLine, ConfigTypeOK
<1>6. ASSUME NEW key \in NumberKeys PROVE NumberHeld(key)'
  <2>1. NumberHeld(key)
    BY DEF ConfigInv, ReadInv
  <2>2. CASE n \in Given(key)
    <3>1. config'[key] = Extracted(line.value, 0)
      BY <1>2, <1>3, <2>2, ExtractedAnew DEF Given
    <3> QED
      BY <1>1, <2>2, <3>1, OneMoreLine DEF NumberHeld
  <2>3. CASE n \notin Given(key)
    <3>1. line.key = key => line.value.kind = "nothing"
      BY <1>1, <2>3 DEF Given
    <3>2. config'[key] = config[key]
      BY <1>2, <1>3, <1>4, <3>1, ExtractedNothing
    <3> QED
      BY <1>1, <2>1, <2>3, <3>2, OneMoreLine DEF NumberHeld
  <2> QED
    BY <2>2, <2>3
<1>7. NameHeld'
  <2>1. NameHeld
    BY DEF ConfigInv, ReadInv
  <2>2. CASE n \in Given("scheduler")
    <3>1. name' = line.value.text
      BY <2>2 DEF ReadLine, Given
    <3> QED
      BY <1>1, <2>2, <3>1, OneMoreLine DEF NameHeld
  <2>3. CASE n \notin Given("scheduler")
    <3>1. name' = name
      BY <1>1, <2>3 DEF ReadLine, Given
    <3> QED
      BY <1>1, <2>1, <2>3, <3>1, OneMoreLine DEF NameHeld
  <2> QED
    BY <2>2, <2>3
<1>8. StageInv' /\ LengthsWithinLimits' /\ FileOK'
  BY <1>1 DEF ReadLine, ConfigInv, StageInv, LengthsWithinLimits, FileOK
<1> QED
  BY <1>5, <1>6, <1>7, <1>8 DEF ConfigInv, ReadInv

(* The names of the algorithms are the ones that buildConfig knows.         *)
LEMMA BuildStep == ConfigInv /\ BuildConfig => ConfigInv'
<1> SUFFICES ASSUME ConfigInv, BuildConfig PROVE ConfigInv'
  OBVIOUS
<1> USE ConfigurationAssumption DEF ConfigInv, BuildConfig
<1>1. \A algo : QuantumOf(algo) \in Int
  BY DEF QuantumOf, ConfigTypeOK, NumberKeys
<1>2. FileOK' /\ ConfigTypeOK'
  BY <1>1 DEF FileOK, ConfigTypeOK
<1>3. StageInv'
  BY DEF StageInv, QuantumOf
<1>4. ReadInv'
  BY DEF ReadInv, NameHeld, NumberHeld, NoneRead, LastRead, Given
<1>5. LengthsWithinLimits'
  BY DEF LengthsWithinLimits, StageInv
<1> QED
  BY <1>2, <1>3, <1>4, <1>5

-----------------------------------------------------------------------------
(* What a documented file says is what the running scheduler holds.         *)
LEMMA SaidIsHeld ==
  ASSUME ConfigInv, stage = "running", NEW key \in NumberKeys,
         NEW range \in SUBSET (-IntMax - 1 .. IntMax), Says(key, range)
  PROVE  config[key] = Last(key).number /\ config[key] \in range
<1>1. config[key] = Extracted(Last(key), 0) /\ Last(key) \in Value
  BY NumberRead DEF ConfigInv, StageInv, ReadInv, Says
<1>2. Last(key).kind = "number" /\ Last(key).number \in range
  BY DEF Says
<1> QED
  BY <1>1, <1>2, ExtractedExact

LEMMA LimitsHeld ==
  ASSUME ConfigInv, stage = "running", Documented
  PROVE  /\ \A key \in {"quantum-cycles", "batch-process-freq", "min-ins", "max-ins"} :
              config[key] = Last(key).number /\ config[key] \in 1 .. IntMax
         /\ config["delay-per-exec"] \in 0 .. IntMax
         /\ config["min-ins"] <= config["max-ins"]
<1> USE ConfigurationAssumption DEF Documented, NumberKeys
<1>1. ASSUME NEW key \in {"quantum-cycles", "batch-process-freq", "min-ins", "max-ins"}
      PROVE  config[key] = Last(key).number /\ config[key] \in 1 .. IntMax
  <2>1. Says(key, 1 .. IntMax) /\ key \in NumberKeys
    OBVIOUS
  <2> QED
    BY <2>1, SaidIsHeld
<1>2. config["delay-per-exec"] \in 0 .. IntMax
  BY SaidIsHeld
<1> QED
  BY <1>1, <1>2

(* A program is never shorter or longer than the limits: the span of the    *)
(* draw is positive and its remainder below it.                             *)
LEMMA DrawnLength ==
  ASSUME ConfigInv, stage = "running", DrawLength
  PROVE  /\ length' \in Int /\ stage' \in {"running", "fault"}
         /\ Documented => /\ stage' = "running"
                          /\ length' \in Last("min-ins").number .. Last("max-ins").number
<1> USE ConfigurationAssumption
<1>1. config["min-ins"] \in Int /\ config["max-ins"] \in Int /\ Span \in Int
  BY DEF ConfigInv, ConfigTypeOK, NumberKeys, Span
<1>2. length' \in Int /\ stage' \in {"running", "fault"}
  BY <1>1 DEF DrawLength, Remainder, Magnitude, ConfigInv, ConfigTypeOK
<1>3. ASSUME Documented
      PROVE  /\ stage' = "running"
             /\ length' \in Last("min-ins").number .. Last("max-ins").number
  <2>1. /\ config["min-ins"] = Last("min-ins").number
        /\ config["max-ins"] = Last("max-ins").number
        /\ Span \in Nat \ {0}
    BY <1>1, <1>3, LimitsHeld DEF Span
  <2>2. PICK r \in 0 .. RandMax : length' = config["min-ins"] + Remainder(r, Span)
    BY <2>1 DEF DrawLength
  <2>3. Remainder(r, Span) \in 0 .. Span - 1
    BY <2>1, RemainderBelow
  <2> QED
    BY <1>1, <2>1, <2>2, <2>3 DEF DrawLength, Span
<1> QED
  BY <1>2, <1>3

(* What the scheduler does later disturbs nothing that was read.            *)
LEMMA LaterStep ==
  ASSUME ConfigInv, stage = "running", stage' \in {"running", "fault"}, length' \in Int,
         cycle' \in 0 .. MaxCycle, UNCHANGED <<file, read, config, name, ctx>>
  PROVE  FileOK' /\ ConfigTypeOK' /\ StageInv' /\ ReadInv'
<1>1. FileOK' /\ ConfigTypeOK'
  BY DEF ConfigInv, FileOK, ConfigTypeOK
<1>2. StageInv'
  BY DEF ConfigInv, StageInv, QuantumOf
<1>3. ReadInv'
  BY DEF ConfigInv, ReadInv, NameHeld, NumberHeld, NoneRead, LastRead, Given
<1> QED
  BY <1>1, <1>2, <1>3

LEMMA SameFile ==
  ASSUME UNCHANGED file
  PROVE  /\ Documented' <=> Documented
         /\ Last("min-ins").number' = Last("min-ins").number
         /\ Last("max-ins").number' = Last("max-ins").number
BY DEF Documented, Says, Last, Given

LEMMA CreateStep == ConfigInv /\ CreateNamedProcess => ConfigInv'
<1> SUFFICES ASSUME ConfigInv, CreateNamedProcess PROVE ConfigInv'
  OBVIOUS
<1>1. /\ stage = "running" /\ DrawLength
      /\ UNCHANGED <<file, read, config, name, ctx, cycle>>
  BY DEF CreateNamedProcess
<1>2. cycle' \in 0 .. MaxCycle
  BY <1>1 DEF ConfigInv, ConfigTypeOK
<1>3. LengthsWithinLimits'
  BY <1>1, DrawnLength, SameFile DEF LengthsWithinLimits
<1> QED
  BY <1>1, <1>2, <1>3, DrawnLength, LaterStep DEF ConfigInv

LEMMA TickStep == ConfigInv /\ Tick => ConfigInv'
<1> SUFFICES ASSUME ConfigInv, Tick PROVE ConfigInv'
  OBVIOUS
<1>1. /\ stage = "running" /\ cycle' = cycle + 1 /\ cycle < MaxCycle
      /\ UNCHANGED <<file, read, config, name, ctx>>
  BY DEF Tick
<1>2. cycle' \in 0 .. MaxCycle
  BY <1>1, ConfigurationAssumption DEF ConfigInv, ConfigTypeOK
<1>3. CASE config["batch-process-freq"] = 0
  <2>1. stage' = "fault" /\ length' = length
    BY <1>3 DEF Tick
  <2>2. ~Documented
    BY <1>1, <1>3, LimitsHeld, ConfigurationAssumption
  <2>3. length' \in Int /\ LengthsWithinLimits'
    BY <1>1, <2>1, <2>2, SameFile DEF ConfigInv, ConfigTypeOK, LengthsWithinLimits
  <2> QED
    BY <1>1, <1>2, <2>1, <2>3, LaterStep DEF ConfigInv
<1>4. CASE config["batch-process-freq"] # 0 /\ DrawLength
  BY <1>1, <1>2, <1>4, DrawnLength, SameFile, LaterStep DEF ConfigInv, LengthsWithinLimits
<1>5. CASE UNCHANGED <<stage, length>>
  <2>1. length' \in Int /\ LengthsWithinLimits'
    BY <1>1, <1>5, SameFile DEF ConfigInv, ConfigTypeOK, LengthsWithinLimits
  <2> QED
    BY <1>1, <1>2, <1>5, <2>1, LaterStep DEF ConfigInv
<1> QED
  BY <1>3, <1>4, <1>5 DEF Tick

-----------------------------------------------------------------------------
LEMMA ConfigStep == ConfigInv /\ [Next]_vars => ConfigInv'
<1> SUFFICES ASSUME ConfigInv, [Next]_vars PROVE ConfigInv'
  OBVIOUS
<1>1. CASE UNCHANGED vars
  BY <1>1, SameFile DEF vars, ConfigInv, FileOK, ConfigTypeOK, StageInv, QuantumOf, ReadInv,
     NameHeld, NumberHeld, NoneRead, LastRead, Given, LengthsWithinLimits
<1> QED
  BY <1>1, OpenStep, ReadLineStep, BuildStep, CreateStep, TickStep DEF Next

LEMMA ConfigInvariant == Spec => []ConfigInv
BY InitConfig, ConfigStep, PTL DEF Spec

(* The values of ConfigStruct stay within an int, whatever config.txt       *)
(* says; fromFile reads no line twice and none past the end.                *)
THEOREM ConfigTypes == Spec => []ConfigTypeOK
<1>1. ConfigInv => ConfigTypeOK
  BY DEF ConfigInv
<1> QED
  BY <1>1, ConfigInvariant, PTL

(* Under a documented file, with its lines in any order and repeated, no    *)
(* draw and no tick divides by zero and every program drawn is within the   *)
(* limits.                                                                  *)
THEOREM LengthsFit == Spec => []LengthsWithinLimits
<1>1. ConfigInv => LengthsWithinLimits
  BY DEF ConfigInv
<1> QED
  BY <1>1, ConfigInvariant, PTL

(* Such a file gives the scheduler a context with all that Scheduler.tla    *)
(* assumes of its constants, the last line of each key deciding.            *)
THEOREM DocumentedContext == Spec => []DocumentedFilesFit
<1>1. ConfigInv => DocumentedFilesFit
  <2> SUFFICES ASSUME ConfigInv, Documented, stage = "running"
               PROVE  /\ config["num-cpu"] \in 1 .. 128 /\ config["batch-process-freq"] > 0
                      /\ config["delay-per-exec"] >= 0
                      /\ ctx.algo = Last("scheduler").text
                      /\ ctx.algo = "rr" => ctx.quantum = Last("quantum-cycles").number
    BY DEF DocumentedFilesFit
  <2> USE ConfigurationAssumption
  <2>1. config["num-cpu"] \in 1 .. 128
    <3>1. /\ config["num-cpu"] = Extracted(Last("num-cpu"), 0)
          /\ Last("num-cpu") \in Value
      BY NumberRead DEF ConfigInv, StageInv, ReadInv, Documented, Says, NumberKeys
    <3>2. Last("num-cpu").kind = "number" /\ Last("num-cpu").number \in 1 .. 128
      BY DEF Documented, Says
    <3>3. IntMax >= 1
      BY LimitsHeld
    <3> QED
      BY <3>1, <3>2, <3>3 DEF Extracted, Nearest
  <2>2. /\ config["batch-process-freq"] > 0 /\ config["delay-per-exec"] >= 0
        /\ config["quantum-cycles"] = Last("quantum-cycles").number
    BY LimitsHeld
  <2>3. name = Last("scheduler").text /\ name \in {"fcfs", "rr"}
    BY NameRead DEF ConfigInv, StageInv, ReadInv, Documented
  <2>4. ctx.algo = name /\ (name = "rr" => ctx.quantum = config["quantum-cycles"])
    BY <2>3 DEF ConfigInv, StageInv, QuantumOf
  <2> QED
    BY <2>1, <2>2, <2>3, <2>4
<1> QED
  BY <1>1, ConfigInvariant, PTL
=============================================================================
