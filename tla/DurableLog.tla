------------------------------- MODULE DurableLog -----------------------------
(***************************************************************************)
(* What a tenant's log promises (the head of wal.rs): the records a reader *)
(* finds, and among them the ones that are sure to be there from now on.   *)
(* Records may be appended, and those that are not sure may vanish again,  *)
(* in a crash or when a failed flush is cut back; a crash that brings back *)
(* the file of before a swap does both.  The others stay, in order.        *)
(***************************************************************************)
EXTENDS SequencesExt

VARIABLES log,    \* the records, in order
          sure    \* those that stay

Init == sure \subseteq Range(log)

\* The records of one log that another has too, in order.
Shared(part, whole) ==
    LET kept == Range(whole) IN SelectSeq(part, LAMBDA r : r \in kept)

\* Some records become sure; or records are added and some that are not sure
\* vanish, and those that stay keep their order.
Acknowledge(before, after) == /\ after = before
                              /\ sure \subseteq sure' /\ sure' \subseteq Range(after)
Change(before, after)      == /\ Shared(before, after) = Shared(after, before)
                              /\ sure \subseteq Range(after) /\ sure' = sure

Next == \E before \in {log}, after \in {log'} :
            Acknowledge(before, after) \/ Change(before, after)

Spec == Init /\ [][Next]_<<log, sure>>
===============================================================================
