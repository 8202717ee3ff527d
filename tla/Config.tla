------------------------------- MODULE Config -------------------------------
(***************************************************************************)
(* config.txt: how its lines are read (config.h) and how the settings of   *)
(* the console come out of it (configure_settings of aqmd3_console.cpp).   *)
(*                                                                         *)
(* A line is the sequence of its parts between '=' signs: the empty one    *)
(* has none, and a comment begins with "#".  The text of a value is a      *)
(* number, whatever may follow it, or a word.  Full scale is in tenths of  *)
(* volts; the settings that are passed on as they are share one key.       *)
(***************************************************************************)
EXTENDS Integers, Sequences

Word(t) == [word |-> t, number |-> 0]
Number(n) == [word |-> "", number |-> n]

\* Mutant of ReadLine: a later line for a key replaces an earlier one.
ReadLineLast(map, line) ==
    IF line = <<>> \/ line[1] = Word("#") \/ Len(line) # 2 THEN map
    ELSE [key \in DOMAIN map \cup {line[1].word} |->
             IF key = line[1].word THEN line[2] ELSE map[key]]

\* One turn of Config::read's loop: std::map::insert keeps what is there.
ReadLine(map, line) ==
    IF line = <<>> \/ line[1] = Word("#") \/ Len(line) # 2 THEN map
    ELSE [key \in DOMAIN map \cup {line[1].word} |->
             IF key \in DOMAIN map THEN map[key] ELSE line[2]]

\* Config::read, with the lines of the file.
read(lines) ==
    LET map[n \in 0..Len(lines)] ==
            IF n = 0 THEN <<>> ELSE ReadLine(map[n - 1], lines[n])
    IN  map[Len(lines)]

has_key(map, key) == key \in DOMAIN map

\* The numbers a file may set, with the defaults of the source.
Defaults ==
    [PassedOn |-> 10, MarkerDiagnostics |-> 0, FullScaleRange |-> 5,
     ZeroSuppressThreshold |-> -32667, ZeroSuppressHysteresis |-> 100,
     ControlIoPort |-> 2]

\* config_double() and config_int(): what the file says, or the fallback.
config_number(map, key) == IF has_key(map, key) THEN map[key].number ELSE Defaults[key]

\* A value that is not a number makes std::stod and its kin throw.
NotANumber(map) == \E key \in DOMAIN Defaults : has_key(map, key) /\ map[key].word # ""

NotASlope(map) ==
    has_key(map, "TriggerSlope") /\ map["TriggerSlope"].word \notin {"rising", "falling"}

reject_bad_settings(s) ==
    \/ s.ZeroSuppressThreshold < -32768 \/ s.ZeroSuppressThreshold > 32767
    \/ s.ZeroSuppressHysteresis < 100 \/ s.ZeroSuppressHysteresis > 1023
    \/ s.FullScaleRange # 5 /\ s.FullScaleRange # 25
    \/ s.ControlIoPort < 1 \/ s.ControlIoPort > 3

\* configure_settings() with a file that was read: it throws, or these are the
\* settings.
Settings(map) ==
    LET s == [key \in DOMAIN Defaults |-> config_number(map, key)]
        bad == \/ NotANumber(map) \/ NotASlope(map)
               \/ s.MarkerDiagnostics \notin {0, 1}
               \/ reject_bad_settings(s)
    IN  [throws |-> bad, value |-> s,
         trigger_rising |-> has_key(map, "TriggerSlope") => map["TriggerSlope"].word = "rising"]

=============================================================================
