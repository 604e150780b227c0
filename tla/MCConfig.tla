------------------------------ MODULE MCConfig ------------------------------
(***************************************************************************)
(* Values for the constants of Config: one field of each kind, with 2^10   *)
(* and 2^20 for the ranges of the two integer types.                       *)
(***************************************************************************)
EXTENDS Config

MCFields == {"print_hashrate_interval", "donate_level", "priority", "cpu_affinity",
             "benchmark"}

MCArgTexts == {ConfigFlag, Word("--print-interval"), Word("--priority"), Benchmark,
               Word("--help"), Number(-1024), Word("other.ini")}

\* A number that is cast to 0, one above 100, and a word that is no number.
MCFileTexts == {Number(1024), Number(500), Word("high")}

MCPaths == {LocalFile, Word("other.ini")}
=============================================================================
