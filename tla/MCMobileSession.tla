---------------------------- MODULE MCMobileSession ----------------------------
EXTENDS MobileSession

CONSTANTS u1, u2, k1, k2

MCUsers == {u1, u2}
MCCalls == {k1, k2}
===============================================================================
