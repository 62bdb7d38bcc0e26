-------------------- MODULE MCConfirmationHeightBounded --------------------
EXTENDS ConfirmationHeightBounded, CementingLedgers

Chains == {<<3, 3>>}
=============================================================================
