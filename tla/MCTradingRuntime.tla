-------------------------- MODULE MCTradingRuntime --------------------------
EXTENDS TradingRuntime
=============================================================================
