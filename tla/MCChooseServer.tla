-------------------------- MODULE MCChooseServer --------------------------
EXTENDS ChooseServer

FourNames == 1 .. 4
=============================================================================
