---------------------------- MODULE MCSegmentLog ----------------------------
(* Small instances of SegmentLog for TLC.                                  *)
EXTENDS SegmentLog, TLC

\* no action tells one key from another
KeysAlike == Permutations(Key)
============================================================================
