------------------------------ MODULE MCSpore -------------------------------
(***************************************************************************)
(* A byte of data, a lock on Bitcoin of two, a time lock of three; a byte  *)
(* is three units and a fee two. A new spore has six units to spare, and   *)
(* its moves meet every case of PayerAndOutput: a leap wants three of      *)
(* them, so a cell is found full, too short for the fee, and long enough.  *)
(***************************************************************************)
EXTENDS Spore

CONSTANTS alice, bob

MCKept == <<alice>>
MCLockSize == [rgbpp |-> 2, time |-> 3, ckb |-> 1]
=============================================================================
