------------------------------ MODULE MCPicoev ------------------------------
(***************************************************************************)
(* Instances of Picoev for TLC.  Three slots and words of two bits: the    *)
(* descriptors 0 and 1 share a word, and the word of 4 is marked in        *)
(* another word of vec_of_vec.  A timeout of 3 is longer than the wheel.   *)
(***************************************************************************)
EXTENDS Picoev

MCFds         == {0, 1}
MCFdsThree    == {0, 1, 4}
MCSecsWrap    == {0, 1, 3}
MCReadOnly    == {{"READ"}}
MCReadOrWrite == {{"READ"}, {"WRITE"}}
=============================================================================
