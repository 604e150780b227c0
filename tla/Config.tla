------------------------------- MODULE Config --------------------------------
(***************************************************************************)
(* Where the configuration comes from: config::ConfigManager               *)
(* (src/config/ConfigManager.cpp) and parseConfig() of src/main.cpp, from  *)
(* the command line to the MinerConfig the program runs with.              *)
(*                                                                         *)
(* A text, on the command line or in a file, is a word or a numeral.  A    *)
(* file is what parseIni() makes of it: its sections, and a text for each  *)
(* key.  The fields of a MinerConfig have the names of their keys, and     *)
(* their values are written as texts, too.                                 *)
(***************************************************************************)
EXTENDS Integers, Sequences

CONSTANTS Fields,     \* the fields of MinerConfig that are looked at
          ArgTexts,   \* what a command line is made of
          FileTexts,  \* what the keys of a file may have for values
          Paths,      \* the texts that may name a file
          MaxArgs,    \* bound: arguments
          UInt,       \* 2^32, the range of unsigned int
          ULong       \* 2^64, the range of unsigned long

VARIABLES argv,    \* the command line
          files,   \* the files that exist
          pc,      \* where parseConfig() is, or how it ended
          path,    \* configPath, or NoText
          cfg,     \* the configuration so far
          i,       \* the argument looked at
          loaded,  \* history: the configuration before the flags
    said     \* history: the fields for which what was read has a value

vars == <<argv, files, pc, path, cfg, i, loaded, said>>

Word(w)   == [word |-> w, n |-> 0]
Number(n) == [word |-> "number", n |-> n]
On        == Word("true")
Off       == Word("false")
Bool(b)   == IF b THEN On ELSE Off
NoText    == [word |-> "no text", n |-> 0]

ConfigFlag == Word("--config")

\* The member initialisers of MinerConfig.
Default == [url            |-> Word("stratum+tcp://pool.example.com:3333"),
            wallet         |-> Word("YOUR_WALLET"),
            worker         |-> Word("linux01"),
            password       |-> Word("x"),
            threads        |-> Number(0),
            algorithm      |-> Word("randomx"),
            miner_type     |-> Word("cpu"),
            cpu_affinity   |-> On,
            huge_pages     |-> On,
            donate_level   |-> Number(1),
            priority       |-> Word("normal"),
            print_hashrate_interval |-> Number(5),
            benchmark      |-> Off,
            level          |-> Word("info"),
            log_file       |-> Word("miner.log"),
            reconnect_delay |-> Number(5),
            keep_alive     |-> On]

-----------------------------------------------------------------------------
(* Mutants: ways the code could be wrong that the properties must notice.   *)

\* A default file that asks for another interval.
OtherIni == [Default EXCEPT !.print_hashrate_interval = Number(10)]

\* A parser that falls back on another interval than MinerConfig begins with.
OtherFallback == [threads |-> Number(0), donate_level |-> Number(1),
                  print_hashrate_interval |-> Number(10), reconnect_delay |-> Number(5),
                  cpu_affinity |-> On, huge_pages |-> On,
                  benchmark |-> Off, keep_alive |-> On]

\* stoul() without the cast.
StoulUncut(t) == t

\* validate() that leaves an interval of 0 alone.
ValidateNoInterval(c) ==
    [f \in Fields |->
       CASE f = "donate_level" /\ c[f].n > 100 -> Number(100)
         [] f = "priority" /\ c[f] \notin {Word("low"), Word("normal"), Word("high")}
               -> Word("normal")
         [] f = "miner_type" /\ c[f] \notin {Word("cpu"), Word("gpu")} -> Word("cpu")
         [] OTHER -> c[f]]

\* The value of --config is taken for an argument.
SkipConfigOnly ==
    /\ pc = "flags" /\ i < Len(argv) /\ argv[i] = ConfigFlag
    /\ i' = i + 1
    /\ UNCHANGED <<argv, files, pc, path, cfg, loaded, said>>

-----------------------------------------------------------------------------
\* kDefaultIni, which writeDefaultFile() writes.
DefaultIni == [url            |-> Word("stratum+tcp://pool.example.com:3333"),
               wallet         |-> Word("YOUR_WALLET"),
               worker         |-> Word("linux01"),
               password       |-> Word("x"),
               threads        |-> Number(0),
               algorithm      |-> Word("randomx"),
               miner_type     |-> Word("cpu"),
               cpu_affinity   |-> Word("true"),
               huge_pages     |-> Word("true"),
               donate_level   |-> Number(1),
               priority       |-> Word("normal"),
               print_hashrate_interval |-> Number(5),
               benchmark      |-> Word("false"),
               level          |-> Word("info"),
               log_file       |-> Word("miner.log"),
               reconnect_delay |-> Number(5),
               keep_alive     |-> Word("true")]

\* What parseSections() falls back on for a number or a switch; for the other
\* fields it is the member initialiser.
Fallback == [threads |-> Number(0), donate_level |-> Number(1),
             print_hashrate_interval |-> Number(5), reconnect_delay |-> Number(5),
             cpu_affinity |-> On, huge_pages |-> On,
             benchmark |-> Off, keep_alive |-> On]

Section(f) ==
    CASE f \in {"url", "wallet", "worker", "password"} -> "Pool"
      [] f \in {"threads", "algorithm", "miner_type", "cpu_affinity",
                "huge_pages", "donate_level"} -> "Mining"
      [] f \in {"priority", "print_hashrate_interval", "benchmark"} -> "Performance"
      [] f \in {"level", "log_file"} -> "Logging"
      [] f \in {"reconnect_delay", "keep_alive"} -> "Network"

Sections == {Section(f) : f \in Fields}
Counts   == {"threads", "donate_level", "print_hashrate_interval", "reconnect_delay"}
Switches == {"cpu_affinity", "huge_pages", "benchmark", "keep_alive"}

\* The flags that have a value.
Flag == [url |-> "--url", wallet |-> "--wallet", worker |-> "--worker",
         password |-> "--password", threads |-> "--threads",
         algorithm |-> "--algorithm", miner_type |-> "--miner-type",
         cpu_affinity |-> "--cpu-affinity", huge_pages |-> "--huge-pages",
         priority |-> "--priority", print_hashrate_interval |-> "--print-interval",
         level |-> "--log-level", log_file |-> "--log-file",
         reconnect_delay |-> "--reconnect-delay"]
HelpFlags  == {Word("--help"), Word("-h"), Word("--version"), Word("-v")}

ASSUME FieldsAssumption  == Fields \subseteq DOMAIN Default
ASSUME NumbersAssumption == UInt \in Nat /\ UInt > 100 /\ ULong \in Nat /\ ULong >= UInt
ASSUME BoundAssumption   == MaxArgs \in Nat
ASSUME TextsAssumption   == \A t \in ArgTexts \cup FileTexts : t.n \in Int

Initial == [f \in Fields |-> Default[f]]
LocalFile == Word("config.ini")

Init == /\ argv \in UNION {[1 .. n -> ArgTexts] : n \in 0 .. MaxArgs}
        /\ files \in SUBSET Paths
        /\ pc = "find"
        /\ path = NoText
        /\ cfg = Initial /\ loaded = Initial /\ said = {}
        /\ i = 1

-----------------------------------------------------------------------------
(* Texts to values.                                                         *)

\* std::stoul() takes the sign and fails beyond 64 bits; the result is cast to
\* unsigned int.
IsNumeral(t) == t.word = "number" /\ -ULong < t.n /\ t.n < ULong
Stoul(t)     == Number(t.n % UInt)

ToUInt(t, fallback) == IF IsNumeral(t) THEN Stoul(t) ELSE fallback

Yes == {Word("true"), Word("yes"), Word("on"), Number(1)}
No  == {Word("false"), Word("no"), Word("off"), Number(0)}

\* In a file upper case is as good as lower case.
ToBool(t, fallback) == IF t \in Yes \cup {Word("TRUE")} THEN On
                       ELSE IF t \in No \cup {Word("FALSE")} THEN Off
                       ELSE fallback

\* What is no numeral, or no word for yes or no, is as good as nothing.
Readable(f, t) == /\ f \in Counts   => IsNumeral(t)
                  /\ f \in Switches => t \in Yes \cup No \cup {Word("TRUE"), Word("FALSE")}

FromFile(f, t) == CASE f \in Counts   -> ToUInt(t, Fallback[f])
                    [] f \in Switches -> ToBool(t, Fallback[f])
                    [] OTHER          -> t

\* nextArg(), nextBool(): here nothing falls back.
FromFlag(f, t) == CASE f \in Counts   -> Stoul(t)
                    [] f \in Switches -> Bool(t \in Yes)
                    [] OTHER          -> t

Positive == {"print_hashrate_interval", "reconnect_delay"}

Validate(c) ==
    [f \in Fields |->
       CASE f = "donate_level" /\ c[f].n > 100 -> Number(100)
         [] f = "priority" /\ c[f] \notin {Word("low"), Word("normal"), Word("high")}
               -> Word("normal")
         [] f = "miner_type" /\ c[f] \notin {Word("cpu"), Word("gpu")} -> Word("cpu")
         [] f \in Positive /\ c[f].n = 0 -> Number(5)
         [] OTHER -> c[f]]

\* A file with these sections and these texts, NoText where a key is missing.
ParseSections(sections, text) ==
    Validate([f \in Fields |->
                IF Section(f) \notin sections THEN Default[f]
                ELSE IF text[f] # NoText THEN FromFile(f, text[f])
                ELSE IF f \in DOMAIN Fallback THEN Fallback[f]
                ELSE Default[f]])

-----------------------------------------------------------------------------
(* The source of the configuration.                                         *)

\* The first --config that is not the last argument, whatever stands before
\* it, or else config.ini if there is one.
FindFile ==
    LET named == {k \in 1 .. Len(argv) - 1 : argv[k] = ConfigFlag} IN
    /\ pc = "find"
    /\ \/ \E k \in named : (\A l \in named : k <= l) /\ path' = argv[k + 1]
       \/ named = {} /\ path' = IF LocalFile \in files THEN LocalFile ELSE NoText
    /\ pc' = IF path' = NoText THEN "embedded" ELSE "load"
    /\ UNCHANGED <<argv, files, cfg, i, loaded, said>>

\* The flags are applied to what was read.
ReadConfig(sections, text) ==
    /\ cfg' = ParseSections(sections, text)
    /\ loaded' = cfg'
    /\ said' = {f \in Fields : /\ Section(f) \in sections /\ text[f] # NoText
                               /\ Readable(f, text[f])}
    /\ pc' = "flags"

\* The file is there, and says something, or the text built into the program
\* does.  A key has a section.
Load(sections, text) ==
    /\ \/ pc = "load" /\ path \in files
       \/ pc = "embedded"
    /\ \A f \in Fields : text[f] # NoText => Section(f) \in sections
    /\ ReadConfig(sections, text)
    /\ UNCHANGED <<argv, files, path, i>>

\* A file that is not there is created first.
Create ==
    /\ pc = "load" /\ path \notin files
    /\ files' = files \cup {path}
    /\ ReadConfig(Sections, DefaultIni)
    /\ UNCHANGED <<argv, path, i>>

\* A file that can neither be read nor be created.
LoadFails ==
    /\ pc = "load"
    /\ pc' = "failed"
    /\ UNCHANGED <<argv, files, path, cfg, i, loaded, said>>

-----------------------------------------------------------------------------
(* The flags, from left to right.                                           *)

Benchmark == Word("--benchmark")

\* --config was looked at before.
SkipConfig ==
    /\ pc = "flags" /\ i < Len(argv) /\ argv[i] = ConfigFlag
    /\ i' = i + 2
    /\ UNCHANGED <<argv, files, pc, path, cfg, loaded, said>>

ApplyFlag(f) ==
    /\ pc = "flags" /\ i < Len(argv) /\ argv[i] = Word(Flag[f])
    /\ f \in Counts => IsNumeral(argv[i + 1])
    /\ cfg' = [cfg EXCEPT ![f] = FromFlag(f, argv[i + 1])]
    /\ i' = i + 2
    /\ UNCHANGED <<argv, files, pc, path, loaded, said>>

\* A flag without a value ends the program with an error, one with a value
\* that is no number by an exception nobody catches.
RefuseFlag(f) ==
    /\ pc = "flags" /\ i <= Len(argv) /\ argv[i] = Word(Flag[f])
    /\ \/ i = Len(argv) /\ pc' = "failed"
       \/ i < Len(argv) /\ f \in Counts /\ ~IsNumeral(argv[i + 1]) /\ pc' = "aborted"
    /\ UNCHANGED <<argv, files, path, cfg, i, loaded, said>>

SetBenchmark ==
    /\ pc = "flags" /\ i <= Len(argv) /\ argv[i] = Benchmark
    /\ cfg' = [cfg EXCEPT !["benchmark"] = On]
    /\ i' = i + 1
    /\ UNCHANGED <<argv, files, pc, path, loaded, said>>

Help ==
    /\ pc = "flags" /\ i <= Len(argv) /\ argv[i] \in HelpFlags
    /\ pc' = "helped"
    /\ UNCHANGED <<argv, files, path, cfg, i, loaded, said>>

\* Anything else is passed over, --config without a value included.
Ignore ==
    /\ pc = "flags" /\ i <= Len(argv)
    /\ argv[i] \notin HelpFlags \cup {Benchmark} \cup {Word(Flag[f]) : f \in DOMAIN Flag}
    /\ argv[i] = ConfigFlag => i = Len(argv)
    /\ i' = i + 1
    /\ UNCHANGED <<argv, files, pc, path, cfg, loaded, said>>

Run ==
    /\ pc = "flags" /\ i > Len(argv)
    /\ pc' = "run"
    /\ UNCHANGED <<argv, files, path, cfg, i, loaded, said>>

Next ==
    \/ FindFile \/ Create \/ LoadFails
    \/ \E sections \in SUBSET Sections, text \in [Fields -> FileTexts \cup {NoText}] :
          Load(sections, text)
    \/ SkipConfig \/ SetBenchmark \/ Help \/ Ignore \/ Run
    \/ \E f \in Fields \cap DOMAIN Flag : ApplyFlag(f) \/ RefuseFlag(f)

Spec == Init /\ [][Next]_vars

-----------------------------------------------------------------------------
(* Properties.                                                              *)

\* Every variable has its type, and every field a value of its type.
Value(f) == CASE f \in Counts   -> [word : {"number"}, n : 0 .. UInt - 1]
              [] f \in Switches -> {On, Off}
              [] OTHER          -> ArgTexts \cup FileTexts \cup {Default[f]}

TypeOK ==
    /\ argv \in Seq(ArgTexts)
    /\ files \subseteq Paths \cup ArgTexts
    /\ pc \in {"find", "load", "embedded", "flags", "run", "failed", "aborted", "helped"}
    /\ path \in Paths \cup ArgTexts \cup {NoText}
    /\ \A f \in Fields : cfg[f] \in Value(f) /\ loaded[f] \in Value(f)
    /\ DOMAIN cfg = Fields /\ DOMAIN loaded = Fields
    /\ i \in 1 .. Len(argv) + 1
    /\ said \subseteq Fields

\* The values validate() lets pass (ConfigManager.cpp:43-61).
Valid(c) ==
    \A f \in Fields :
       /\ f = "donate_level" => c[f].n \in 0 .. 100
       /\ f \in Positive => c[f].n > 0
       /\ f = "priority" => c[f] \in {Word("low"), Word("normal"), Word("high")}
       /\ f = "miner_type" => c[f] \in {Word("cpu"), Word("gpu")}

\* Whatever a file says, numbers that wrap to 0 included, what is loaded from
\* it is valid (ConfigManager.hpp:6, ConfigManager.cpp:30, 112).
LoadedIsValid == Valid(loaded)

\* A file the program creates says what MinerConfig begins with: the text of the
\* file reads back as the initialisers (ConfigManager.cpp:121-152,
\* ConfigManager.hpp:25-45).
NewFileIsDefaults == [][files' # files => loaded' = Initial]_vars

\* A field for which a text has nothing - no section, no key, or no number or switch
\* where there must be one - is what MinerConfig begins with: what the parser falls
\* back on is the same (ConfigManager.cpp:84-110, ConfigManager.hpp:25-45).
SilentFieldsAreDefaults == \A f \in Fields \ said : loaded[f] = Default[f]

\* The arguments that are followed by a value, and those that are one: in a
\* row of the former, beginning with argument j, every second is the value of
\* the one before it.
TakesValue(k) == argv[k] \in {ConfigFlag} \cup {Word(Flag[f]) : f \in DOMAIN Flag}

Row(j, k) == /\ \A l \in j .. k - 1 : TakesValue(l)
             /\ j = 1 \/ ~TakesValue(j - 1)

IsValue(k) == \E j \in 1 .. k : Row(j, k) /\ (k - j) % 2 = 1

\* Where the flag t is among the first n arguments.
Flags(t, n) == {k \in 1 .. Len(argv) : k <= n /\ argv[k] = t /\ ~IsValue(k)}

Last(S) == CHOOSE k \in S : \A l \in S : l <= k

\* What the first n arguments make of a field: the value of the last of its
\* flags, or else the loaded one.
Given(f, n) == IF f \in DOMAIN Flag THEN Flags(Word(Flag[f]), n) ELSE {}

Setting(f, n) ==
    IF Given(f, n) # {} THEN FromFlag(f, argv[Last(Given(f, n)) + 1])
    ELSE IF f = "benchmark" /\ Flags(Benchmark, n) # {} THEN On
    ELSE loaded[f]

\* They have been obeyed, and none of them asks for help.
Obeyed(n) ==
    /\ \A t \in HelpFlags : Flags(t, n) = {}
    /\ \A f \in Fields : cfg[f] = Setting(f, n)

\* A program that runs has done what its command line says (main.cpp:94,
\* "Individual CLI flags always override file values", 136-170).
FlagsOverride == pc = "run" => Obeyed(Len(argv))

-----------------------------------------------------------------------------
(* The inductive invariants behind them.                                    *)

\* A file that is looked for has a name.
FileIsNamed == pc = "load" => path # NoText

IInv == TypeOK /\ LoadedIsValid /\ FileIsNamed

\* The argument looked at is no value, and those before it are obeyed.
Looked(k) == \E j \in 1 .. k : Row(j, k) /\ (k - j) % 2 = 0

FlagsInv ==
    /\ pc \in {"find", "load", "embedded"} => i = 1
    /\ pc = "flags" /\ i <= Len(argv) => Looked(i)
    /\ pc \in {"flags", "run"} => Obeyed(i - 1)
    /\ pc = "run" => i = Len(argv) + 1
=============================================================================
