------------------------------- MODULE MCRunTask -------------------------------
EXTENDS RunTask
================================================================================
