-------------------------- MODULE MCComboDispatch --------------------------
EXTENDS ComboDispatch, TLC

CONSTANTS m1, m2, a, r1, r2

MCRequests == {r1, r2}
MCCaptured == {r2}
MCModels == {m1, m2, a}
\* The combo lists m1 twice.
MCCombo == <<m1, m1>>
MCDistinct == <<m1, m2>>
MCAdapters == <<a>>
\* The combo reads no files.
MCContents == {"text", "file"}
MCAble == [text |-> {m1, m2, a}, file |-> {a}]
=============================================================================
