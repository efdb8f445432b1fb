------------------------------ MODULE MCCheckIn ------------------------------
(***************************************************************************)
(* Instances of CheckIn for TLC: the daemon and one more process; two      *)
(* versions of the metadata, the first without a Target for the device; a  *)
(* bundle of each kind.                                                    *)
(***************************************************************************)
EXTENDS CheckIn

CONSTANTS d, c, t1, t2

MCProc == {d, c}

MCMatchingOf == <<{}, {t1, t2}>>

MCBundle ==
  {[version |-> 1, meta |-> "none", names |-> {}, content |-> {t1}],
   [version |-> 1, meta |-> "bad", names |-> {t1}, content |-> {t1}],
   [version |-> 2, meta |-> "good", names |-> {t2}, content |-> {t1, t2}],
   [version |-> 2, meta |-> "good", names |-> {t2}, content |-> {t1}]}
=============================================================================
