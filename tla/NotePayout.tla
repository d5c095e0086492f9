----------------------------- MODULE NotePayout -----------------------------
(***************************************************************************)
(* What the mint promises about the value of a note: it is handed out      *)
(* once.  A note is exchanged for fresh notes, or committed to a Lightning *)
(* payment that either pays it out or lets go of it.  Nothing else happens *)
(* to a note, and nothing happens to one that was exchanged or paid out.   *)
(***************************************************************************)
EXTENDS FiniteSets, Naturals

CONSTANTS NoteIds, IssuedNotes

VARIABLE fate

Fates == {"absent", "live", "committed", "paid", "swapped"}

Init == fate = [n \in NoteIds |-> IF n \in IssuedNotes THEN "live" ELSE "absent"]

Move(n, from, to) ==
  /\ fate[n] = from
  /\ fate' = [fate EXCEPT ![n] = to]

Commit(n) == Move(n, "live", "committed")
Release(n) == Move(n, "committed", "live")
PayOut(n) == Move(n, "committed", "paid")

Exchange(burned, minted) ==
  /\ burned # {}
  /\ minted # {}
  /\ \A n \in burned : fate[n] = "live"
  /\ \A n \in minted : fate[n] = "absent"
  /\ fate' = [n \in NoteIds |-> IF n \in burned THEN "swapped"
                                ELSE IF n \in minted THEN "live"
                                ELSE fate[n]]

Next ==
  \/ \E n \in NoteIds : Commit(n) \/ Release(n) \/ PayOut(n)
  \/ \E burned \in SUBSET {n \in NoteIds : fate[n] = "live"},
        minted \in SUBSET {n \in NoteIds : fate[n] = "absent"} :
       Exchange(burned, minted)

Spec == Init /\ [][Next]_fate
=============================================================================
