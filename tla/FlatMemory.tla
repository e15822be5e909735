----------------------------- MODULE FlatMemory -----------------------------
(***************************************************************************)
(* What demand paging promises a program: an address space in which every  *)
(* page below the break is mapped and keeps what was last stored in it, a  *)
(* page that is added reads as zero, and exec installs the image.  There   *)
(* is no RAM limit and no swap file here.                                  *)
(***************************************************************************)
EXTENDS Naturals

CONSTANTS Pages, Values, Zero, Unmapped, Image, ImageBrk

VARIABLES mem, brk   \* contents by page; first page above the break

Init == mem = Image /\ brk = ImageBrk

(* The program stores v in a page it has. *)
Store(p, v) ==
  /\ mem[p] # Unmapped
  /\ mem' = [mem EXCEPT ![p] = v] /\ UNCHANGED brk

(* sbrk maps a page above the break, which reads as zero... *)
Extend(p) ==
  /\ p >= brk /\ mem[p] = Unmapped
  /\ mem' = [mem EXCEPT ![p] = Zero] /\ UNCHANGED brk

(* ...moves the break, up over mapped pages only... *)
SetBrk(b) ==
  /\ \A p \in Pages : p < b => mem[p] # Unmapped
  /\ brk' = b /\ UNCHANGED mem

(* ...and unmaps pages above it. *)
Release(S) ==
  /\ \A p \in S : p >= brk
  /\ mem' = [p \in Pages |-> IF p \in S THEN Unmapped ELSE mem[p]] /\ UNCHANGED brk

(* exec replaces the address space. *)
Exec == mem' = Image /\ brk' = ImageBrk

Next ==
  \/ \E p \in Pages, v \in Values : Store(p, v)
  \/ \E p \in Pages : Extend(p) \/ SetBrk(p)
  \/ \E S \in SUBSET Pages : Release(S)
  \/ Exec

Spec == Init /\ [][Next]_<<mem, brk>>
=============================================================================
