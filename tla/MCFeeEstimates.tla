--------------------------- MODULE MCFeeEstimates ---------------------------
(* Model-checking instances of FeeEstimates.                               *)
EXTENDS FeeEstimates

\* Rates are thousandths of a sat/vB: none at all, one below LDK's floor,
\* one between the two default caps, one past every cap and past the u32.
MCRates == {0, 974, 30000, 4000000}
\* Satoshis per 1000 vbytes: below the floor, rounding up, past the u32.
MCAnswers == {400, 4002, 1000000}
\* Not set, below the floor, a low and a high cap.
MCEnvCaps == {None, 252, 300, 60000}
=============================================================================
