------------------- MODULE MCConfirmationHeightUnbounded -------------------
EXTENDS ConfirmationHeightUnbounded, CementingLedgers

Chains == {<<3, 3>>}
=============================================================================
