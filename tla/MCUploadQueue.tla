---------------------------- MODULE MCUploadQueue ---------------------------
(* Two calls on a channel of one place, one upload slot and a disk budget  *)
(* of two bytes, so that a full channel, a full budget, a parked item and  *)
(* a waiting dispatcher all meet; two attempts per item, a breaker that    *)
(* trips on the first failure, and one crash.                              *)
EXTENDS UploadQueue

(* Total is the sum of the values.                                         *)
ASSUME TotalIsTheSum ==
    \A S \in SUBSET (1..3) : \A size \in [S -> 0..2] :
        Total(size) = MapThenSumSet(LAMBDA x : size[x], S)
=============================================================================
