------------------------------ MODULE MCClient ------------------------------
EXTENDS Client

CONSTANTS riddle, pwn
=============================================================================
