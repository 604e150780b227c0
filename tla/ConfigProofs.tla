---------------------------- MODULE ConfigProofs -----------------------------
(***************************************************************************)
(* What is loaded is valid, a created file and what a text leaves out are  *)
(* the defaults, and the last flag of a field wins, for every command      *)
(* line, every file and every width of the integers.                       *)
(***************************************************************************)
EXTENDS Config, TLAPS

\* stoul() and the cast give an unsigned int.
LEMMA StoulRange ==
    ASSUME NEW t, t.n \in Int
    PROVE  Stoul(t).n \in 0 .. UInt - 1 /\ Stoul(t).n \in Nat
<1> DEFINE m == t.n % UInt
<1>1. UInt \in Nat /\ UInt > 0
  BY NumbersAssumption
<1>2. m \in 0 .. UInt - 1
  BY <1>1
<1>3. QED BY <1>1, <1>2 DEF Stoul, Number

\* A number read from a file is not negative.
LEMMA FileCountsAreNat ==
    ASSUME NEW f \in Counts, NEW t \in FileTexts
    PROVE  FromFile(f, t).n \in Nat
<1>1. t.n \in Int
  BY TextsAssumption
<1>2. Fallback[f].n \in Nat
  BY DEF Fallback, Counts, Number
<1>3. FromFile(f, t) = IF IsNumeral(t) THEN Stoul(t) ELSE Fallback[f]
  BY DEF FromFile, ToUInt, Counts, Switches
<1>4. Stoul(t).n \in Nat
  BY <1>1, StoulRange
<1>5. QED BY <1>2, <1>3, <1>4

\* validate() lets nothing else pass.
LEMMA ValidateIsValid ==
    ASSUME NEW c, \A f \in Fields \cap Counts : c[f].n \in Nat
    PROVE  Valid(Validate(c))
<1> SUFFICES ASSUME NEW f \in Fields
             PROVE  LET v == Validate(c)[f] IN
                    /\ f = "donate_level" => v.n \in 0 .. 100
                    /\ f \in Positive => v.n > 0
                    /\ f = "priority" => v \in {Word("low"), Word("normal"), Word("high")}
                    /\ f = "miner_type" => v \in {Word("cpu"), Word("gpu")}
  BY DEF Valid
<1>1. CASE f = "donate_level"
  BY <1>1 DEF Validate, Positive, Counts, Number
<1>2. CASE f \in Positive
  BY <1>2 DEF Validate, Positive, Counts, Number
<1>3. CASE f = "priority"
  BY <1>3 DEF Validate, Positive
<1>4. CASE f = "miner_type"
  BY <1>4 DEF Validate, Positive
<1>5. QED BY <1>1, <1>2, <1>3, <1>4

\* Whatever is in the file, what is made of it is valid.
LEMMA ParsedIsValid ==
    ASSUME NEW sections, NEW text \in [Fields -> FileTexts \cup {NoText}]
    PROVE  Valid(ParseSections(sections, text))
<1> DEFINE given(f) == IF Section(f) \notin sections THEN Default[f]
                       ELSE IF text[f] # NoText THEN FromFile(f, text[f])
                       ELSE IF f \in DOMAIN Fallback THEN Fallback[f]
                       ELSE Default[f]
           c == [f \in Fields |-> given(f)]
<1>1. ASSUME NEW f \in Fields \cap Counts
      PROVE  c[f].n \in Nat
  <2>1. c[f] = given(f)
    OBVIOUS
  <2>2. Default[f].n \in Nat /\ Fallback[f].n \in Nat /\ f \in DOMAIN Fallback
    BY DEF Default, Fallback, Counts, Number
  <2>3. text[f] # NoText => FromFile(f, text[f]).n \in Nat
    BY FileCountsAreNat
  <2>4. QED BY <2>1, <2>2, <2>3
<1>2. Valid(Validate(c))
  <2> HIDE DEF c
  <2> QED BY <1>1, ValidateIsValid
<1>3. QED BY <1>2 DEF ParseSections

\* The file that is created is parsed to the defaults.
LEMMA DefaultIniParsed == ParseSections(Sections, DefaultIni) = Initial
<1> DEFINE given(f) == IF Section(f) \notin Sections THEN Default[f]
                       ELSE IF DefaultIni[f] # NoText THEN FromFile(f, DefaultIni[f])
                       ELSE IF f \in DOMAIN Fallback THEN Fallback[f]
                       ELSE Default[f]
           c == [f \in Fields |-> given(f)]
<1>1. ASSUME NEW f \in Fields
      PROVE  given(f) = Default[f]
  <2>1. f \in DOMAIN Default
    BY FieldsAssumption
  <2>2. DefaultIni[f] = Default[f]
    BY <2>1 DEF Default, DefaultIni, On, Off
  <2>3. DefaultIni[f] # NoText
    <3>1. Default[f] \in {Word("stratum+tcp://pool.example.com:3333"),
                          Word("YOUR_WALLET"), Word("linux01"), Word("x"),
                          Word("randomx"), Word("cpu"), Word("normal"), Word("info"),
                          Word("miner.log"), On, Off, Number(0), Number(1), Number(5)}
      BY <2>1 DEF Default
    <3>2. \A w \in {"stratum+tcp://pool.example.com:3333", "YOUR_WALLET", "linux01", "x",
                    "randomx", "cpu", "normal", "info", "miner.log", "true", "false"} :
             Word(w) # NoText
      BY DEF Word, NoText
    <3>3. \A n \in {0, 1, 5} : Number(n) # NoText
      BY DEF Number, NoText
    <3>4. QED BY <2>2, <3>1, <3>2, <3>3 DEF On, Off
  <2>4. FromFile(f, Default[f]) = Default[f]
    <3>1. CASE f \in Counts
      <4>1. PICK k \in {0, 1, 5} : Default[f] = Number(k)
        BY <3>1 DEF Default, Counts
      <4>2. IsNumeral(Number(k)) /\ k % UInt = k
        BY NumbersAssumption DEF IsNumeral, Number
      <4>3. Stoul(Number(k)) = Number(k)
        BY <4>2 DEF Stoul, Number
      <4>4. QED BY <3>1, <4>1, <4>2, <4>3 DEF FromFile, ToUInt, Counts, Switches
    <3>2. CASE f \in Switches
      <4>1. Default[f] \in {On, Off}
        BY <3>2 DEF Default, Switches
      <4>2. FromFile(f, Default[f]) = ToBool(Default[f], Fallback[f])
        BY <3>2 DEF FromFile, Counts, Switches
      <4>3. \A t \in {On, Off} : ToBool(t, Fallback[f]) = t
        BY DEF ToBool, On, Off, Word, Number, Yes, No
      <4>4. QED BY <4>1, <4>2, <4>3
    <3>3. CASE f \notin Counts \cup Switches
      BY <3>3 DEF FromFile
    <3>4. QED BY <3>1, <3>2, <3>3
  <2>5. Section(f) \in Sections
    BY DEF Sections
  <2>6. QED BY <2>2, <2>3, <2>4, <2>5
<1>2. c = Initial
  BY <1>1 DEF Initial
<1>3. Validate(Initial) = Initial
  <2>1. ASSUME NEW f \in Fields
        PROVE  Validate(Initial)[f] = Default[f]
    <3>1. Initial[f] = Default[f] /\ f \in DOMAIN Default
      BY FieldsAssumption DEF Initial
    <3>2. CASE f \in {"donate_level", "priority", "miner_type"}
      BY <3>1, <3>2 DEF Validate, Default, Number, Positive
    <3>3. CASE f \in Positive
      BY <3>1, <3>3 DEF Validate, Default, Number, Positive
    <3>4. CASE f \notin {"donate_level", "priority", "miner_type"} \cup Positive
      BY <3>1, <3>4 DEF Validate
    <3>5. QED BY <3>2, <3>3, <3>4
  <2>2. QED BY <2>1 DEF Initial, Validate
<1>4. QED BY <1>2, <1>3 DEF ParseSections

\* A number in range is a value of a number.
LEMMA NumberHasType ==
    ASSUME NEW f \in Counts, NEW k \in 0 .. UInt - 1
    PROVE  Number(k) \in Value(f)
<1>1. Value(f) = [word : {"number"}, n : 0 .. UInt - 1]
  BY DEF Value, Counts, Switches
<1>2. Number(k) = [word |-> "number", n |-> k]
  BY DEF Number
<1>3. QED BY <1>1, <1>2

\* The values of Default have the types of their fields.
LEMMA DefaultHasType ==
    ASSUME NEW f \in Fields
    PROVE  Default[f] \in Value(f)
<1>1. f \in DOMAIN Default
  BY FieldsAssumption
<1>2. CASE f \in Counts
  <2>1. Default[f] \in {Number(0), Number(1), Number(5)}
    BY <1>2 DEF Default, Counts
  <2>2. {0, 1, 5} \subseteq 0 .. UInt - 1
    BY NumbersAssumption
  <2>3. QED BY <1>2, <2>1, <2>2, NumberHasType
<1>3. CASE f \in Switches
  BY <1>3 DEF Default, Switches, Counts, Value
<1>4. CASE f \notin Counts \cup Switches
  BY <1>4 DEF Value
<1>5. QED BY <1>2, <1>3, <1>4

\* So has what validate() makes of values of these types.
LEMMA ValidateHasType ==
    ASSUME NEW c, \A f \in Fields : c[f] \in Value(f)
    PROVE  \A f \in Fields : Validate(c)[f] \in Value(f)
<1> SUFFICES ASSUME NEW f \in Fields PROVE Validate(c)[f] \in Value(f)
  OBVIOUS
<1>1. CASE f \in {"priority", "miner_type"}
  <2>1. Validate(c)[f] \in {c[f], Default[f]}
    BY <1>1 DEF Validate, Positive, Default
  <2>2. QED BY <2>1, DefaultHasType
<1>2. CASE f \in {"donate_level"} \cup Positive
  <2>1. {5, 100} \subseteq 0 .. UInt - 1
    BY NumbersAssumption
  <2>2. Number(5) \in Value(f) /\ Number(100) \in Value(f)
    BY <1>2, <2>1, NumberHasType DEF Counts, Positive
  <2>3. QED BY <1>2, <2>2 DEF Validate, Positive
<1>3. CASE f \notin {"priority", "miner_type", "donate_level"} \cup Positive
  BY <1>3 DEF Validate
<1>4. QED BY <1>1, <1>2, <1>3

\* A text of a file, converted, has the type of its field.
LEMMA FromFileHasType ==
    ASSUME NEW f \in Fields, NEW t \in FileTexts
    PROVE  FromFile(f, t) \in Value(f)
<1>1. t.n \in Int
  BY TextsAssumption
<1>2. CASE f \in Counts
  <2>1. FromFile(f, t) = IF IsNumeral(t) THEN Stoul(t) ELSE Fallback[f]
    BY <1>2 DEF FromFile, ToUInt, Counts, Switches
  <2>2. Stoul(t) \in Value(f)
    <3>1. t.n % UInt \in 0 .. UInt - 1
      BY <1>1, NumbersAssumption
    <3>2. QED BY <1>2, <3>1, NumberHasType DEF Stoul
  <2>3. Fallback[f] = Default[f]
    BY <1>2 DEF Fallback, Default, Counts
  <2>4. QED BY <2>1, <2>2, <2>3, DefaultHasType
<1>3. CASE f \in Switches
  <2>1. FromFile(f, t) = ToBool(t, Fallback[f])
    BY <1>3 DEF FromFile, Counts, Switches
  <2>2. Fallback[f] \in {On, Off}
    BY <1>3 DEF Fallback, Switches
  <2>3. ToBool(t, Fallback[f]) \in {On, Off}
    BY <2>2 DEF ToBool
  <2>4. QED BY <1>3, <2>1, <2>3 DEF Value, Counts, Switches
<1>4. CASE f \notin Counts \cup Switches
  BY <1>1, <1>4 DEF FromFile, Value
<1>5. QED BY <1>2, <1>3, <1>4

\* What is made of a file has the types of a configuration.
LEMMA ParsedHasType ==
    ASSUME NEW sections, NEW text \in [Fields -> FileTexts \cup {NoText}]
    PROVE  \A f \in Fields : ParseSections(sections, text)[f] \in Value(f)
<1> DEFINE given(f) == IF Section(f) \notin sections THEN Default[f]
                       ELSE IF text[f] # NoText THEN FromFile(f, text[f])
                       ELSE IF f \in DOMAIN Fallback THEN Fallback[f]
                       ELSE Default[f]
           c == [f \in Fields |-> given(f)]
<1>1. ASSUME NEW f \in Fields
      PROVE  c[f] \in Value(f)
  <2>1. c[f] = given(f)
    OBVIOUS
  <2>2. f \in DOMAIN Fallback => Fallback[f] = Default[f]
    BY DEF Fallback, Default
  <2>3. text[f] # NoText => FromFile(f, text[f]) \in Value(f)
    BY FromFileHasType
  <2>4. QED BY <2>1, <2>2, <2>3, DefaultHasType
<1>2. \A f \in Fields : Validate(c)[f] \in Value(f)
  <2> HIDE DEF c
  <2> QED BY <1>1, ValidateHasType
<1>3. QED BY <1>2 DEF ParseSections

\* The value of a flag, converted, has the type of its field.
LEMMA FromFlagHasType ==
    ASSUME NEW f \in Fields, NEW t \in ArgTexts
    PROVE  FromFlag(f, t) \in Value(f)
<1>1. t.n % UInt \in 0 .. UInt - 1
  BY TextsAssumption, NumbersAssumption
<1>2. CASE f \in Counts
  BY <1>1, <1>2, NumberHasType DEF FromFlag, Stoul, Counts, Switches
<1>3. CASE f \in Switches
  BY <1>3 DEF FromFlag, Bool, Value, Counts, Switches
<1>4. CASE f \notin Counts \cup Switches
  BY <1>4 DEF FromFlag, Value
<1>5. QED BY <1>2, <1>3, <1>4

-----------------------------------------------------------------------------
(* The invariant.                                                           *)

LEMMA InitialIsValid == Valid(Initial) /\ \A f \in Fields : Initial[f] \in Value(f)
<1>1. \A f \in Fields : Initial[f] = Default[f]
  BY DEF Initial
<1>2. Valid(Initial)
  <2>1. \A n \in Nat : Number(n).n = n
    BY DEF Number
  <2>2. /\ Default["donate_level"] = Number(1)
        /\ Default["priority"] = Word("normal")
        /\ Default["miner_type"] = Word("cpu")
        /\ \A f \in Positive : Default[f] = Number(5)
    BY DEF Default, Positive
  <2>3. ASSUME NEW f \in Fields
        PROVE  /\ f = "donate_level" => Initial[f].n \in 0 .. 100
               /\ f \in Positive => Initial[f].n > 0
               /\ f = "priority" => Initial[f] = Word("normal")
               /\ f = "miner_type" => Initial[f] = Word("cpu")
    BY <1>1, <2>1, <2>2
  <2>4. QED BY <2>3 DEF Valid
<1>3. QED BY <1>1, <1>2, DefaultHasType

LEMMA InitIInv == Init => IInv
<1> SUFFICES ASSUME Init PROVE IInv
  OBVIOUS
<1>1. argv \in Seq(ArgTexts)
  BY BoundAssumption DEF Init
<1>2. TypeOK
  BY <1>1, InitialIsValid DEF Init, TypeOK, Initial
<1>3. LoadedIsValid
  BY InitialIsValid DEF Init, LoadedIsValid
<1>4. QED BY <1>2, <1>3 DEF IInv, FileIsNamed, Init

\* A configuration that is read is valid, from a file as from the text that is
\* written into a new one.
LEMMA ReadIsValid ==
    ASSUME NEW sections, NEW text \in [Fields -> FileTexts \cup {NoText}],
           ReadConfig(sections, text)
    PROVE  /\ Valid(loaded') /\ cfg' = loaded' /\ DOMAIN loaded' = Fields
           /\ \A f \in Fields : loaded'[f] \in Value(f)
<1>1. loaded' = ParseSections(sections, text) /\ cfg' = loaded'
  BY DEF ReadConfig
<1>2. DOMAIN ParseSections(sections, text) = Fields
  BY DEF ParseSections, Validate
<1>3. QED BY <1>1, <1>2, ParsedIsValid, ParsedHasType

LEMMA FindFileIInv == IInv /\ FindFile => IInv'
<1> SUFFICES ASSUME IInv, FindFile PROVE IInv'
  OBVIOUS
<1> DEFINE named == {k \in 1 .. Len(argv) - 1 : argv[k] = ConfigFlag}
<1>1. path' \in Paths \cup ArgTexts \cup {NoText}
  <2>1. ASSUME NEW k \in named, path' = argv[k + 1]
        PROVE  path' \in ArgTexts
    BY <2>1 DEF IInv, TypeOK
  <2>2. CASE path' = IF LocalFile \in files THEN LocalFile ELSE NoText
    BY <2>2 DEF IInv, TypeOK
  <2>3. QED BY <2>1, <2>2 DEF FindFile
<1>2. pc' \in {"embedded", "load"}
  BY DEF FindFile
<1>3. pc' = "load" => path' # NoText
  BY DEF FindFile
<1>4. QED BY <1>1, <1>2, <1>3 DEF IInv, TypeOK, LoadedIsValid, FileIsNamed, FindFile

\* A valid configuration of the right types has been read.
LEMMA ReadIInv ==
    ASSUME IInv, pc' = "flags", UNCHANGED <<argv, path, i>>, said' \subseteq Fields,
           files' \subseteq Paths \cup ArgTexts,
           cfg' = loaded', DOMAIN loaded' = Fields, Valid(loaded'),
           \A f \in Fields : loaded'[f] \in Value(f)
    PROVE  IInv'
<1>1. TypeOK'
  BY DEF IInv, TypeOK
<1>2. LoadedIsValid' /\ FileIsNamed'
  BY DEF LoadedIsValid, FileIsNamed
<1>3. QED BY <1>1, <1>2 DEF IInv

LEMMA LoadIInv ==
    ASSUME IInv, NEW sections, NEW text \in [Fields -> FileTexts \cup {NoText}],
           Load(sections, text)
    PROVE  IInv'
<1>1. ReadConfig(sections, text) /\ UNCHANGED <<argv, files, path, i>>
  BY DEF Load
<1>2. /\ Valid(loaded') /\ cfg' = loaded' /\ DOMAIN loaded' = Fields
      /\ \A f \in Fields : loaded'[f] \in Value(f)
  BY <1>1, ReadIsValid
<1>3. files' \subseteq Paths \cup ArgTexts
  BY <1>1 DEF IInv, TypeOK
<1>4. pc' = "flags" /\ said' \subseteq Fields
  BY <1>1 DEF ReadConfig
<1>5. QED BY <1>1, <1>2, <1>3, <1>4, ReadIInv

\* A file that is created is read as the defaults.
LEMMA CreateReadsDefaults == Create => loaded' = Initial /\ cfg' = loaded'
  BY DefaultIniParsed DEF Create, ReadConfig

LEMMA CreateIInv == IInv /\ Create => IInv'
<1> SUFFICES ASSUME IInv, Create PROVE IInv'
  OBVIOUS
<1>1. /\ Valid(loaded') /\ cfg' = loaded' /\ DOMAIN loaded' = Fields
      /\ \A f \in Fields : loaded'[f] \in Value(f)
  BY CreateReadsDefaults, InitialIsValid DEF Initial
<1>2. path \in Paths \cup ArgTexts
  BY DEF IInv, TypeOK, FileIsNamed, Create
<1>3. files' \subseteq Paths \cup ArgTexts
  BY <1>2 DEF IInv, TypeOK, Create
<1>4. pc' = "flags" /\ UNCHANGED <<argv, path, i>> /\ said' \subseteq Fields
  BY DEF Create, ReadConfig
<1>5. QED BY <1>1, <1>3, <1>4, ReadIInv

\* A flag that is applied.
LEMMA ApplyFlagIInv ==
    ASSUME IInv, NEW f \in Fields \cap DOMAIN Flag, ApplyFlag(f)
    PROVE  IInv'
<1>1. i + 1 \in 1 .. Len(argv) /\ argv[i + 1] \in ArgTexts
  BY DEF IInv, TypeOK, ApplyFlag
<1>2. FromFlag(f, argv[i + 1]) \in Value(f)
  BY <1>1, FromFlagHasType
<1>3. \A g \in Fields : cfg'[g] \in Value(g)
  BY <1>2 DEF IInv, TypeOK, ApplyFlag
<1>4. DOMAIN cfg' = Fields
  BY DEF IInv, TypeOK, ApplyFlag
<1>5. i' \in 1 .. Len(argv) + 1
  BY DEF IInv, TypeOK, ApplyFlag
<1>6. TypeOK'
  BY <1>3, <1>4, <1>5 DEF IInv, TypeOK, ApplyFlag
<1>7. QED BY <1>6 DEF IInv, LoadedIsValid, FileIsNamed, ApplyFlag

LEMMA SetBenchmarkIInv == IInv /\ SetBenchmark => IInv'
<1> SUFFICES ASSUME IInv, SetBenchmark PROVE IInv'
  OBVIOUS
<1>1. \A g \in Fields : cfg'[g] \in Value(g)
  <2>1. On \in Value("benchmark")
    BY DEF Value, Counts, Switches
  <2>2. QED BY <2>1 DEF IInv, TypeOK, SetBenchmark
<1>2. DOMAIN cfg' = Fields /\ i' \in 1 .. Len(argv) + 1
  BY DEF IInv, TypeOK, SetBenchmark
<1>3. TypeOK'
  BY <1>1, <1>2 DEF IInv, TypeOK, SetBenchmark
<1>4. QED BY <1>3 DEF IInv, LoadedIsValid, FileIsNamed, SetBenchmark

\* The steps that leave the configuration alone.
LEMMA ScanIInv ==
    ASSUME IInv, UNCHANGED <<argv, files, path, cfg, loaded, said>>,
           pc' \in {"flags", "run", "failed", "aborted", "helped"},
           i' \in 1 .. Len(argv) + 1
    PROVE  IInv'
<1>1. TypeOK'
  BY DEF IInv, TypeOK
<1>2. QED BY <1>1 DEF IInv, LoadedIsValid, FileIsNamed

LEMMA StepIInv == IInv /\ [Next]_vars => IInv'
<1> SUFFICES ASSUME IInv, [Next]_vars PROVE IInv'
  OBVIOUS
<1>1. i \in 1 .. Len(argv) + 1 /\ Len(argv) \in Nat
  BY DEF IInv, TypeOK
<1>2. CASE FindFile
  BY <1>2, FindFileIInv
<1>3. CASE Create
  BY <1>3, CreateIInv
<1>4. CASE LoadFails
  BY <1>1, <1>4, ScanIInv DEF LoadFails
<1>5. CASE \E sections \in SUBSET Sections, text \in [Fields -> FileTexts \cup {NoText}] :
              Load(sections, text)
  BY <1>5, LoadIInv
<1>6. CASE SkipConfig
  BY <1>1, <1>6, ScanIInv DEF SkipConfig
<1>7. CASE SetBenchmark
  BY <1>7, SetBenchmarkIInv
<1>8. CASE Help
  BY <1>1, <1>8, ScanIInv DEF Help
<1>9. CASE Ignore
  BY <1>1, <1>9, ScanIInv DEF Ignore
<1>10. CASE Run
  BY <1>1, <1>10, ScanIInv DEF Run
<1>11. ASSUME NEW f \in Fields \cap DOMAIN Flag, ApplyFlag(f)
       PROVE  IInv'
  BY <1>11, ApplyFlagIInv
<1>12. ASSUME NEW f \in Fields \cap DOMAIN Flag, RefuseFlag(f)
       PROVE  IInv'
  BY <1>1, <1>12, ScanIInv DEF RefuseFlag
<1>13. CASE UNCHANGED vars
  BY <1>13 DEF IInv, TypeOK, LoadedIsValid, FileIsNamed, vars
<1>14. QED BY <1>2, <1>3, <1>4, <1>5, <1>6, <1>7, <1>8, <1>9, <1>10, <1>11, <1>12,
              <1>13 DEF Next

LEMMA InvariantHolds == Spec => []IInv
  BY InitIInv, StepIInv, PTL DEF Spec

-----------------------------------------------------------------------------
\* Every variable has its type: a configuration has a value of the right kind
\* in each of its fields, from a file (ConfigManager.cpp:67-110) as from a flag
\* (main.cpp:146-167).
THEOREM TypeCorrect == Spec => []TypeOK
<1>1. IInv => TypeOK
  BY DEF IInv
<1>2. QED BY <1>1, InvariantHolds, PTL

\* What load() and loadFromString() return is valid, whatever the text says
\* and however wide the integers are (ConfigManager.cpp:43-61, 112).
THEOREM LoadedValid == Spec => []LoadedIsValid
<1>1. IInv => LoadedIsValid
  BY DEF IInv
<1>2. QED BY <1>1, InvariantHolds, PTL

\* The program that creates its configuration file reads the defaults back
\* from it (ConfigManager.cpp:121-152, 189-192).
THEOREM NewFileDefaults == Spec => NewFileIsDefaults
<1>1. [Next]_vars => [files' # files => loaded' = Initial]_vars
  <2> SUFFICES ASSUME Next, files' # files PROVE loaded' = Initial
    BY DEF vars
  <2>1. Create
    BY DEF Next, FindFile, LoadFails, Load, SkipConfig, SetBenchmark, Help, Ignore,
           Run, ApplyFlag, RefuseFlag
  <2>2. QED BY <2>1, CreateReadsDefaults
<1>2. QED BY <1>1, PTL DEF Spec, NewFileIsDefaults

\* validate() leaves a default alone.
LEMMA ValidateKeepsDefault ==
    ASSUME NEW c, NEW f \in Fields, c[f] = Default[f]
    PROVE  Validate(c)[f] = Default[f]
<1>1. f \in DOMAIN Default
  BY FieldsAssumption
<1>2. CASE f \in {"donate_level", "priority", "miner_type"} \cup Positive
  BY <1>1, <1>2 DEF Validate, Default, Number, Positive
<1>3. CASE f \notin {"donate_level", "priority", "miner_type"} \cup Positive
  BY <1>3 DEF Validate
<1>4. QED BY <1>2, <1>3

\* A field that a text is silent about is parsed to its default.
LEMMA SilentIsDefault ==
    ASSUME NEW sections, NEW text, NEW f \in Fields,
           ~(Section(f) \in sections /\ text[f] # NoText /\ Readable(f, text[f]))
    PROVE  ParseSections(sections, text)[f] = Default[f]
<1> DEFINE given(g) == IF Section(g) \notin sections THEN Default[g]
                       ELSE IF text[g] # NoText THEN FromFile(g, text[g])
                       ELSE IF g \in DOMAIN Fallback THEN Fallback[g]
                       ELSE Default[g]
           c == [g \in Fields |-> given(g)]
<1>1. f \in DOMAIN Fallback => Fallback[f] = Default[f]
  BY DEF Fallback, Default
<1>2. ~Readable(f, text[f]) => FromFile(f, text[f]) = Default[f]
  <2>1. CASE f \in Counts
    <3>1. f \in DOMAIN Fallback
      BY <2>1 DEF Counts, Fallback
    <3>2. QED BY <1>1, <2>1, <3>1 DEF Readable, FromFile, ToUInt, Counts, Switches
  <2>2. CASE f \in Switches
    <3>1. f \in DOMAIN Fallback
      BY <2>2 DEF Switches, Fallback
    <3>2. QED BY <1>1, <2>2, <3>1 DEF Readable, FromFile, ToBool, Counts, Switches
  <2>3. CASE f \notin Counts \cup Switches
    BY <2>3 DEF Readable
  <2>4. QED BY <2>1, <2>2, <2>3
<1>3. c[f] = Default[f]
  BY <1>1, <1>2
<1>4. Validate(c)[f] = Default[f]
  <2> HIDE DEF c
  <2> QED BY <1>3, ValidateKeepsDefault
<1>5. QED BY <1>4 DEF ParseSections

\* The three copies of the defaults are one: what a text says nothing about is what
\* MinerConfig begins with, whatever else it says (ConfigManager.cpp:84-110).
THEOREM SilentDefault == Spec => []SilentFieldsAreDefaults
<1>1. Init => SilentFieldsAreDefaults
  BY DEF Init, Initial, SilentFieldsAreDefaults
<1>2. ASSUME SilentFieldsAreDefaults, [Next]_vars PROVE SilentFieldsAreDefaults'
  <2>1. ASSUME NEW sections, NEW text, ReadConfig(sections, text)
        PROVE  SilentFieldsAreDefaults'
    BY <2>1, SilentIsDefault DEF ReadConfig, SilentFieldsAreDefaults
  <2>2. CASE UNCHANGED <<loaded, said>>
    BY <1>2, <2>2 DEF SilentFieldsAreDefaults
  <2>3. QED BY <1>2, <2>1, <2>2
           DEF Next, FindFile, Create, Load, LoadFails, SkipConfig, SetBenchmark, Help,
               Ignore, Run, ApplyFlag, RefuseFlag, vars
<1>3. QED BY <1>1, <1>2, PTL DEF Spec

-----------------------------------------------------------------------------
(* The flags.                                                               *)

\* A row that ends before argument k has one beginning.
LEMMA RowsAgree ==
    ASSUME NEW k \in Nat, NEW j \in 1 .. k, NEW h \in 1 .. k, Row(j, k), Row(h, k)
    PROVE  j = h
<1>1. ASSUME NEW a \in 1 .. k, NEW b \in 1 .. k, a < b, Row(a, k), Row(b, k) PROVE FALSE
  <2>1. b - 1 \in a .. k - 1 /\ b # 1
    BY <1>1
  <2>2. QED BY <1>1, <2>1 DEF Row
<1>2. j \in Int /\ h \in Int
  OBVIOUS
<1>3. ~(j < h) /\ ~(h < j)
  BY <1>1
<1>4. QED BY <1>2, <1>3

\* The argument looked at is no value.  The next one is its value or is looked
\* at, too.
LEMMA LookedIsNoValue ==
    ASSUME NEW k \in Nat, Looked(k)
    PROVE  ~IsValue(k)
<1> SUFFICES ASSUME IsValue(k) PROVE FALSE
  OBVIOUS
<1>1. PICK j \in 1 .. k : Row(j, k) /\ (k - j) % 2 = 0
  BY DEF Looked
<1>2. PICK h \in 1 .. k : Row(h, k) /\ (k - h) % 2 = 1
  BY DEF IsValue
<1>3. j = h
  BY <1>1, <1>2, RowsAgree
<1>4. QED BY <1>1, <1>2, <1>3

LEMMA NextArgument ==
    ASSUME NEW k \in Nat \ {0}, Looked(k)
    PROVE  /\ ~TakesValue(k) => Looked(k + 1)
           /\ TakesValue(k) => IsValue(k + 1) /\ Looked(k + 2)
<1>1. PICK j \in 1 .. k : Row(j, k) /\ (k - j) % 2 = 0
  BY DEF Looked
<1>2. (k + 1 - j) % 2 = 1 /\ (k + 2 - j) % 2 = 0
  BY <1>1
<1>3. ASSUME NEW m \in Nat \ {0}, m = 1 \/ ~TakesValue(m - 1) PROVE Looked(m)
  <2>1. Row(m, m)
    BY <1>3 DEF Row
  <2>2. m \in 1 .. m /\ (m - m) % 2 = 0
    OBVIOUS
  <2>3. QED BY <2>1, <2>2 DEF Looked
<1>4. CASE ~TakesValue(k)
  <2>1. k + 1 \in Nat \ {0} /\ (k + 1) - 1 = k
    OBVIOUS
  <2>2. QED BY <1>3, <1>4, <2>1
<1>5. CASE TakesValue(k)
  <2>1. Row(j, k + 1)
    <3>1. \A l \in j .. (k + 1) - 1 : l \in j .. k - 1 \/ l = k
      OBVIOUS
    <3>2. QED BY <1>1, <1>5, <3>1 DEF Row
  <2>2. IsValue(k + 1)
    BY <1>2, <2>1 DEF IsValue
  <2>3. CASE TakesValue(k + 1)
    <3>1. Row(j, k + 2)
      <4>1. \A l \in j .. (k + 2) - 1 : l \in j .. (k + 1) - 1 \/ l = k + 1
        OBVIOUS
      <4>2. QED BY <2>1, <2>3, <4>1 DEF Row
    <3>2. QED BY <1>2, <1>5, <2>2, <3>1 DEF Looked
  <2>4. CASE ~TakesValue(k + 1)
    <3>1. k + 2 \in Nat \ {0} /\ (k + 2) - 1 = k + 1
      OBVIOUS
    <3>2. QED BY <1>3, <1>5, <2>2, <2>4, <3>1
  <2>5. QED BY <2>3, <2>4
<1>6. QED BY <1>4, <1>5

\* What one argument more, or one and its value, adds to the flags.
LEMMA OneMore ==
    ASSUME IInv, NEW t, NEW n \in 1 .. Len(argv), Looked(n)
    PROVE  /\ Flags(t, n) = Flags(t, n - 1) \cup (IF argv[n] = t THEN {n} ELSE {})
           /\ n < Len(argv) /\ TakesValue(n) => Flags(t, n + 1) = Flags(t, n)
<1>1. Len(argv) \in Nat
  BY DEF IInv, TypeOK
<1>2. ~IsValue(n) /\ (TakesValue(n) => IsValue(n + 1))
  BY <1>1, LookedIsNoValue, NextArgument
<1>3. \A k \in 1 .. Len(argv) : k <= n <=> k <= n - 1 \/ k = n
  BY <1>1
<1>4. \A k \in 1 .. Len(argv) : k <= n + 1 <=> k <= n \/ k = n + 1
  BY <1>1
<1>5. Flags(t, n) = Flags(t, n - 1) \cup (IF argv[n] = t THEN {n} ELSE {})
  BY <1>2, <1>3 DEF Flags
<1>6. ASSUME n < Len(argv), TakesValue(n) PROVE Flags(t, n + 1) = Flags(t, n)
  BY <1>2, <1>4, <1>6 DEF Flags
<1>7. QED BY <1>5, <1>6

LEMMA LastIsNew ==
    ASSUME NEW S, NEW n \in Nat, \A k \in S : k \in Nat /\ k < n
    PROVE  Last(S \cup {n}) = n
<1> DEFINE P(k) == k \in S \cup {n} /\ \A l \in S \cup {n} : l <= k
<1>1. P(n)
  OBVIOUS
<1>2. \A k : P(k) => k = n
  OBVIOUS
<1>3. QED BY <1>1, <1>2 DEF Last

\* No two fields have the same flag, and no flag is any other argument.
LEMMA FlagsDiffer ==
    /\ \A f, g \in DOMAIN Flag : Word(Flag[f]) = Word(Flag[g]) => f = g
    /\ \A f \in DOMAIN Flag : Word(Flag[f]) \notin HelpFlags \cup {ConfigFlag, Benchmark}
    /\ HelpFlags \cap {ConfigFlag, Benchmark} = {} /\ Benchmark # ConfigFlag
    /\ "benchmark" \notin DOMAIN Flag
BY DEF Flag, Word, HelpFlags, ConfigFlag, Benchmark

\* A step over an argument, and its value if it takes one, that does what it
\* says keeps the arguments obeyed.
LEMMA Advance ==
    ASSUME IInv, Obeyed(i - 1), Looked(i), i \in 1 .. Len(argv), argv[i] \notin HelpFlags,
           UNCHANGED <<argv, loaded>>,
           i' = i + 1 \/ (i' = i + 2 /\ i < Len(argv) /\ TakesValue(i)),
           \A f \in Fields : cfg'[f] =
              IF f \in DOMAIN Flag /\ argv[i] = Word(Flag[f]) THEN FromFlag(f, argv[i + 1])
              ELSE IF f = "benchmark" /\ argv[i] = Benchmark THEN On ELSE cfg[f]
    PROVE  Obeyed(i - 1)'
<1>1. PICK n : n = i' - 1
  OBVIOUS
<1>2. \A t : Flags(t, n) = Flags(t, i - 1) \cup (IF argv[i] = t THEN {i} ELSE {})
  <2> SUFFICES ASSUME NEW t
               PROVE  Flags(t, n) = Flags(t, i - 1) \cup (IF argv[i] = t THEN {i} ELSE {})
    OBVIOUS
  <2>1. Flags(t, i) = Flags(t, i - 1) \cup (IF argv[i] = t THEN {i} ELSE {})
    BY OneMore
  <2>2. CASE i' = i + 1
    <3>1. n = i
      BY <1>1, <2>2
    <3>2. QED BY <2>1, <3>1
  <2>3. CASE i' = i + 2 /\ i < Len(argv) /\ TakesValue(i)
    <3>1. n = i + 1
      BY <1>1, <2>3
    <3>2. Flags(t, i + 1) = Flags(t, i)
      BY <2>3, OneMore
    <3>3. QED BY <2>1, <3>1, <3>2
  <2>4. QED BY <2>2, <2>3
<1>3. \A t : Flags(t, i - 1)' = Flags(t, n)
  BY <1>1 DEF Flags, IsValue, Row, TakesValue
<1>4. \A t : \A k \in Flags(t, i - 1) : k \in Nat /\ k < i
  BY DEF Flags, IInv, TypeOK
<1>5. \A t \in HelpFlags : Flags(t, n) = {}
  BY <1>2 DEF Obeyed
<1>6. ASSUME NEW f \in Fields PROVE cfg'[f] = Setting(f, n)
  <2>1. cfg[f] = Setting(f, i - 1)
    BY DEF Obeyed
  <2>2. CASE f \in DOMAIN Flag /\ argv[i] = Word(Flag[f])
    <3>1. Given(f, n) = Given(f, i - 1) \cup {i}
      BY <1>2, <2>2 DEF Given
    <3>2. \A k \in Given(f, i - 1) : k \in Nat /\ k < i
      BY <1>4 DEF Given
    <3>3. i \in Nat
      OBVIOUS
    <3>4. Last(Given(f, n)) = i /\ Given(f, n) # {}
      BY <3>1, <3>2, <3>3, LastIsNew
    <3>5. QED BY <2>2, <3>4 DEF Setting
  <2>3. CASE ~(f \in DOMAIN Flag /\ argv[i] = Word(Flag[f]))
    <3>1. Given(f, n) = Given(f, i - 1)
      BY <1>2, <2>3 DEF Given
    <3>2. f = "benchmark" => Given(f, n) = {}
      BY FlagsDiffer DEF Given
    <3>3. Flags(Benchmark, n) # {} <=> argv[i] = Benchmark \/ Flags(Benchmark, i - 1) # {}
      BY <1>2
    <3>4. QED BY <2>1, <2>3, <3>1, <3>2, <3>3 DEF Setting
  <2>4. QED BY <2>2, <2>3
<1>7. \A f : Setting(f, i - 1)' = Setting(f, n)
  BY <1>3 DEF Setting, Given
<1>8. QED BY <1>3, <1>5, <1>6, <1>7 DEF Obeyed

\* A step that reads no argument keeps them obeyed, too.
LEMMA FlagsKept ==
    ASSUME UNCHANGED <<argv, cfg, i, loaded>>
    PROVE  (Obeyed(i - 1) => Obeyed(i - 1)') /\ (Looked(i) => Looked(i)')
<1>1. \A k : TakesValue(k)' = TakesValue(k)
  BY DEF TakesValue
<1>2. \A j, k : Row(j, k)' = Row(j, k)
  BY <1>1 DEF Row
<1>3. \A t : Flags(t, i - 1)' = Flags(t, i - 1)
  BY <1>2 DEF Flags, IsValue
<1>4. \A f : Setting(f, i - 1)' = Setting(f, i - 1)
  BY <1>3 DEF Setting, Given
<1>5. Obeyed(i - 1) => Obeyed(i - 1)'
  BY <1>3, <1>4 DEF Obeyed
<1>6. Looked(i) => Looked(i)'
  BY <1>2 DEF Looked
<1>7. QED BY <1>5, <1>6

LEMMA FlagsStep ==
    ASSUME IInv, FlagsInv, [Next]_vars
    PROVE  FlagsInv'
<1>1. i \in 1 .. Len(argv) + 1 /\ Len(argv) \in Nat /\ i \in Nat \ {0}
  BY DEF IInv, TypeOK
<1>2. ASSUME pc = "flags", pc' = "flags", UNCHANGED <<argv, loaded>>,
             i \in 1 .. Len(argv), argv[i] \notin HelpFlags,
             \/ i' = i + 1 /\ (~TakesValue(i) \/ i = Len(argv))
             \/ i' = i + 2 /\ i < Len(argv) /\ TakesValue(i),
             \A f \in Fields : cfg'[f] =
                IF f \in DOMAIN Flag /\ argv[i] = Word(Flag[f]) THEN FromFlag(f, argv[i + 1])
                ELSE IF f = "benchmark" /\ argv[i] = Benchmark THEN On ELSE cfg[f]
      PROVE  FlagsInv'
  <2>1. Looked(i) /\ Obeyed(i - 1)
    BY <1>1, <1>2 DEF FlagsInv
  <2>2. Obeyed(i - 1)'
    BY <1>2, <2>1, Advance
  <2>3. i' <= Len(argv) => Looked(i)'
    <3> SUFFICES ASSUME i' <= Len(argv) PROVE Looked(i)'
      OBVIOUS
    <3>1. \/ i' = i + 1 /\ Looked(i + 1)
          \/ i' = i + 2 /\ Looked(i + 2)
      BY <1>1, <1>2, <2>1, NextArgument
    <3>2. PICK m : m = i' /\ Looked(m)
      BY <3>1
    <3>3. QED BY <1>2, <3>2 DEF Looked, Row, TakesValue
  <2>4. QED BY <1>2, <2>2, <2>3 DEF FlagsInv
<1>3. ASSUME pc' \in {"failed", "aborted", "helped"} PROVE FlagsInv'
  BY <1>3 DEF FlagsInv
<1>4. CASE FindFile
  BY <1>4 DEF FindFile, FlagsInv
<1>5. ASSUME pc \in {"load", "embedded"}, pc' = "flags", cfg' = loaded', UNCHANGED <<argv, i>>
      PROVE  FlagsInv'
  <2>1. i' = 1
    BY <1>5 DEF FlagsInv
  <2>2. Looked(i)'
    BY <2>1 DEF Looked, Row
  <2>3. \A t : Flags(t, i - 1)' = {}
    BY <1>1, <1>5, <2>1 DEF Flags
  <2>4. Obeyed(i - 1)'
    BY <1>5, <2>3 DEF Obeyed, Setting, Given
  <2>5. QED BY <1>5, <2>2, <2>4 DEF FlagsInv
<1>6. CASE Create
  BY <1>5, <1>6 DEF Create, ReadConfig
<1>7. CASE LoadFails
  BY <1>3, <1>7 DEF LoadFails
<1>8. CASE \E sections \in SUBSET Sections, text \in [Fields -> FileTexts \cup {NoText}] :
              Load(sections, text)
  BY <1>5, <1>8 DEF Load, ReadConfig
<1>9. CASE SkipConfig
  <2>1. TakesValue(i) /\ argv[i] # Benchmark /\ argv[i] \notin HelpFlags
        /\ \A f \in DOMAIN Flag : argv[i] # Word(Flag[f])
    BY <1>9, FlagsDiffer DEF SkipConfig, TakesValue
  <2>2. QED BY <1>1, <1>2, <1>9, <2>1 DEF SkipConfig
<1>10. CASE SetBenchmark
  <2>1. ~TakesValue(i) /\ argv[i] \notin HelpFlags
        /\ \A f \in DOMAIN Flag : argv[i] # Word(Flag[f])
    BY <1>10, FlagsDiffer DEF SetBenchmark, TakesValue
  <2>2. \A f \in Fields : cfg'[f] = IF f = "benchmark" THEN On ELSE cfg[f]
    BY <1>10 DEF SetBenchmark, IInv, TypeOK
  <2>3. QED BY <1>1, <1>2, <1>10, <2>1, <2>2 DEF SetBenchmark
<1>11. CASE Help
  BY <1>3, <1>11 DEF Help
<1>12. CASE Ignore
  <2>1. argv[i] # Benchmark /\ argv[i] \notin HelpFlags
        /\ (\A f \in DOMAIN Flag : argv[i] # Word(Flag[f]))
        /\ (~TakesValue(i) \/ i = Len(argv))
    BY <1>12 DEF Ignore, TakesValue
  <2>2. QED BY <1>1, <1>2, <1>12, <2>1 DEF Ignore
<1>13. CASE Run
  <2>1. i = Len(argv) + 1 /\ Obeyed(i - 1)
    BY <1>1, <1>13 DEF Run, FlagsInv
  <2>2. Obeyed(i - 1)'
    BY <1>13, <2>1, FlagsKept DEF Run
  <2>3. QED BY <1>13, <2>1, <2>2 DEF Run, FlagsInv
<1>14. ASSUME NEW f \in Fields \cap DOMAIN Flag, ApplyFlag(f)
       PROVE  FlagsInv'
  <2>1. argv[i] = Word(Flag[f]) /\ TakesValue(i) /\ argv[i] # Benchmark
        /\ argv[i] \notin HelpFlags
        /\ \A g \in DOMAIN Flag : argv[i] = Word(Flag[g]) <=> g = f
    BY <1>14, FlagsDiffer DEF ApplyFlag, TakesValue
  <2>2. \A g \in Fields : cfg'[g] = IF g = f THEN FromFlag(f, argv[i + 1]) ELSE cfg[g]
    BY <1>14 DEF ApplyFlag, IInv, TypeOK
  <2>3. QED BY <1>1, <1>2, <1>14, <2>1, <2>2 DEF ApplyFlag
<1>15. ASSUME NEW f \in Fields \cap DOMAIN Flag, RefuseFlag(f)
       PROVE  FlagsInv'
  BY <1>3, <1>15 DEF RefuseFlag
<1>16. CASE UNCHANGED vars
  BY <1>16, FlagsKept DEF vars, FlagsInv
<1>17. QED BY <1>4, <1>6, <1>7, <1>8, <1>9, <1>10, <1>11, <1>12, <1>13, <1>14, <1>15,
              <1>16 DEF Next

LEMMA FlagsInvariant == Spec => []FlagsInv
<1>1. Init => FlagsInv
  BY DEF Init, FlagsInv
<1>2. QED BY <1>1, FlagsStep, InvariantHolds, PTL DEF Spec

\* Of a program that runs every field has the value of the last of its flags,
\* for every command line: of any length, in any order, with values that are
\* flags themselves (main.cpp:136-170).
THEOREM FlagsWin == Spec => []FlagsOverride
<1>1. IInv /\ FlagsInv => FlagsOverride
  <2> SUFFICES ASSUME IInv, FlagsInv, pc = "run" PROVE Obeyed(Len(argv))
    BY DEF FlagsOverride
  <2>1. i = Len(argv) + 1 /\ Obeyed(i - 1) /\ Len(argv) \in Nat
    BY DEF FlagsInv, IInv, TypeOK
  <2>2. i - 1 = Len(argv)
    BY <2>1
  <2>3. QED BY <2>1, <2>2
<1>2. QED BY <1>1, FlagsInvariant, InvariantHolds, PTL
=============================================================================
