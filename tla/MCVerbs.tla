------------------------------ MODULE MCVerbs ------------------------------
(* VerbsPrograms for TLC: the programs and options to choose from.              *)
EXTENDS VerbsPrograms

MCPrograms ==
  {Rc(e, FALSE) : e \in BOOLEAN} \cup {Rc(FALSE, TRUE)}
    \cup {Uc(e) : e \in BOOLEAN} \cup {Ud(TRUE)} \cup {Srq(FALSE), [Srq(TRUE) EXCEPT !.iters = 2]}
    \cup {Xsrq(e) : e \in BOOLEAN}
    \cup {IbProbe, Library("ympi"), Library("iballputall")}

MCEventsAndTimestamps == {Rc(TRUE, TRUE)}
=============================================================================
