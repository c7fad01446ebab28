----------------------------- MODULE MCRowEditor -----------------------------
EXTENDS RowEditor

=============================================================================
