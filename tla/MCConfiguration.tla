--------------------------- MODULE MCConfiguration ---------------------------
(* Small files for Configuration. *)
EXTENDS Configuration

Line(key, value) == [key |-> key, value |-> value]

(* A complete file; then one line of it is replaced, and one is added.      *)
Complete(s) ==
  << Line("num-cpu", Number(2)), Line("scheduler", Word(s)),
     Line("quantum-cycles", Number(3)), Line("batch-process-freq", Number(2)),
     Line("min-ins", Number(2)), Line("max-ins", Number(3)),
     Line("delay-per-exec", Number(0)) >>

Numbers == {Number(n) : n \in {0, 1, 4}} \cup {Number(-1), Number(9), Word("many"), Nothing}

Lines ==
  {Line(k, v) : k \in NumberKeys, v \in Numbers}
    \cup {Line("scheduler", v) : v \in {Word("fcfs"), Word("sjf"), Number(1), Nothing}}
    \cup {Line("min-ins", Number(3)), Line("max-ins", Number(2)),
          Line("mem-per-frame", Number(4)), Line("", Nothing)}

SmallFiles ==
  {[Complete("rr") EXCEPT ![i] = a] \o <<b>> : i \in {2, 5}, a, b \in Lines}
    \cup {<<b>> \o Complete("fcfs") \o <<a>> : a, b \in Lines} \cup {<<>>}
=============================================================================
