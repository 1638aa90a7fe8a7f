----------------------------- MODULE MCMemoryLoop -----------------------------
(* An instance of MemoryLoop for TLC. *)
EXTENDS MemoryLoop, TLC

CONSTANTS r1, r2, t1, t2, p, q

OnePersona == (r1 :> p) @@ (r2 :> p)
Baselines == (r1 :> "risk_reduction") @@ (r2 :> "roi_framing")

InterchangeableThreads == Permutations(Threads)

Decisions == {[strategy |-> "risk_reduction", impact |-> 90]}
Outcomes == {[label |-> "neutral", hint |-> 30]}

\* A lesson of an earlier process.
Old(persona, label, strategy, used, hint, day) ==
  [persona |-> persona, run |-> None, hint |-> hint, day |-> day,
   text |-> [label |-> label, used |-> used, impact |-> 0, strategy |-> strategy]]

\* Strong and weak lessons, some of them old or of the same text, too few for the
\* last stage; and enough of them to exceed the bound of the lift, behind one of
\* another persona.
Histories ==
  {<<Old(p, "neutral", "roi_framing", 0, 650, -60), Old(p, "neutral", "roi_framing", 0, 30, 0),
     Old(p, "neutral", "risk_reduction", 1, 30, 0)>>,
   <<Old(q, "positive", None, 0, 850, 0)>>
     \o [i \in 1 .. 4 |-> Old(p, "neutral", "risk_reduction", i, 850, -20)]}

=============================================================================
