---------------------------- MODULE MCLineTable ----------------------------
EXTENDS LineTable

=============================================================================
