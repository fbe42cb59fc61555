----------------------------- MODULE MCTextScan ------------------------------
(* Every string of up to six bytes that are NUL, a letter or not UTF-8, and  *)
(* the same behind a prefix as long as the longer probe.                     *)
EXTENDS TextScan

Short == BoundedSeq({0, 65, 200}, 6)

MCInputs == Short \cup {<<65, 65, 65, 65>> \o s : s \in Short}

MCCaps == {0, 1, 3, 5, 8, 20}

NoIsoTexts == {}
=============================================================================
