-------------------------- MODULE MCDayTradeBudget --------------------------
EXTENDS DayTradeBudget
=============================================================================
