---------------------------- MODULE MCAdminSession ----------------------------
EXTENDS AdminSession

CONSTANTS u1, u2, k1, k2

MCUsers == {u1, u2}
MCAdmins == {u1}
MCCalls == {k1, k2}
===============================================================================
