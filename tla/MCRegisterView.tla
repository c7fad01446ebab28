---------------------------- MODULE MCRegisterView ----------------------------
EXTENDS MCBudgetWorkflow, RegisterView
=============================================================================
