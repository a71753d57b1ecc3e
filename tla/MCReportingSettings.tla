-------------------------- MODULE MCReportingSettings --------------------------
EXTENDS ReportingSettings

CONSTANTS empty, alpha

MCSearches == {empty, alpha}
MCPages == {1, 2}
===============================================================================
