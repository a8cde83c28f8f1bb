----------------------------- MODULE MCUsageWallet -----------------------------
EXTENDS UsageWallet

OneCredit == {5}
===============================================================================
