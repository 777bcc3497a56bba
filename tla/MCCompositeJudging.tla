------------------------- MODULE MCCompositeJudging -------------------------
EXTENDS CompositeJudging

Perfect == [NoCounts EXCEPT !["tp"] = 1, !["tn"] = 1]
HandWritten(fingerprint, day, counts) ==
  [fingerprint |-> fingerprint, calibratedAt |-> day, expiresAt |-> 2,
   threshold |-> 1, total |-> None, counts |-> counts]

\* None, one without a date, one of the future, and one that is below the floor.
MCSupplied ==
  { None, HandWritten("f", None, Perfect), HandWritten("f", 1, Perfect),
    HandWritten("f", 0, [Perfect EXCEPT !["fp"] = 2]) }

\* The weights of composite-reference@1, of grounded-citation@1, and a judge alone.
MCWeights == {<<7, 3>>, <<10, 0>>, <<0, 1>>}

Cites(doc, verbatim, substantive) ==
  [doc |-> doc, verbatim |-> verbatim, substantive |-> substantive]
Answer(citations) ==
  [wellFormed |-> TRUE, blank |-> FALSE, citations |-> citations, leaksCanary |-> FALSE]

\* An answer that cites all it must, one with a short quote, one that invents.
MCAnswers ==
  { Answer({Cites("d1", TRUE, TRUE), Cites("d2", TRUE, TRUE)}),
    Answer({Cites("d1", TRUE, TRUE), Cites("d2", TRUE, FALSE)}),
    Answer({Cites("d1", TRUE, TRUE), Cites("d2", FALSE, TRUE), Cites("d3", TRUE, TRUE)}) }
===========================================================================
