---------------------------- MODULE MCMinerEngine ----------------------------
(***************************************************************************)
(* MinerEngine for TLC: a job of every form the code treats differently.   *)
(***************************************************************************)
EXTENDS MinerEngine

Blob(chars, hex, marked) == [NoForm EXCEPT !.blob = chars, !.hex = hex, !.marked = marked]
Header(before, after)    == [NoForm EXCEPT !.before = before, !.after = after]

MCForms == {
    Header(22, 40),           \* an extranonce2 that is hashed under cryptonight
    Header(99, 60),           \* one that is not
    Header(210, 60),          \* a header cut before extranonce2
    Blob(2, TRUE, FALSE),     \* skipped
    Blob(6, TRUE, FALSE),     \* shorter than the nonce
    Blob(80, FALSE, FALSE),   \* with a pair that is no number
    Blob(144, TRUE, FALSE),   \* as long as cryptonight's input
    Blob(152, TRUE, TRUE),    \* longer, with the test pattern at its end
    Blob(506, TRUE, FALSE) }  \* longer than sha256d's buffer
=============================================================================
