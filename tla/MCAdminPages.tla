------------------------------ MODULE MCAdminPages ------------------------------
EXTENDS AdminPages
===============================================================================
