----------------------------- MODULE AtomicDisk -----------------------------
(***************************************************************************)
(* What the log promises file-system operations: they write a volatile     *)
(* copy of the disk, the durable copy takes over all of it at once and     *)
(* only while no operation is half done, and a crash brings the volatile   *)
(* copy back to the durable one.                                           *)
(***************************************************************************)
CONSTANTS Proc, Block, Data, InitialDisk

VARIABLES durable, volatile, active

Init == durable = InitialDisk /\ volatile = InitialDisk /\ active = {}

Begin(p) == p \notin active /\ active' = active \cup {p} /\ UNCHANGED <<durable, volatile>>

Write(b, d) ==
  /\ active # {}
  /\ volatile' = [volatile EXCEPT ![b] = d] /\ UNCHANGED <<durable, active>>

End(p) == p \in active /\ active' = active \ {p} /\ UNCHANGED <<durable, volatile>>

Commit == active = {} /\ durable' = volatile /\ UNCHANGED <<volatile, active>>

Crash == volatile' = durable /\ active' = {} /\ UNCHANGED durable

Next ==
  \/ \E p \in Proc : Begin(p) \/ End(p)
  \/ \E b \in Block, d \in Data : Write(b, d)
  \/ Commit \/ Crash

Spec == Init /\ [][Next]_<<durable, volatile, active>>
=============================================================================
